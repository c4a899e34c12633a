--------------------------- MODULE ObserverProofs ---------------------------
(***************************************************************************)
(* Theorems about Observer and Observations for any tasks, programs and     *)
(* file systems: the events are the calls that were made, and what the     *)
(* laboratory concludes of them is true of the calls.                      *)
(***************************************************************************)
EXTENDS Observations, FiniteSetTheorems, SequenceTheorems, WellFoundedInduction, TLAPS

-----------------------------------------------------------------------------
(* Numbers.                                                                *)

\* Every nonempty set of numbers has a least one.
LEMMA LeastNumber ==
  ASSUME NEW K \in SUBSET Nat, K # {}
  PROVE  \E i \in K : \A j \in K : i <= j
<1> DEFINE R == OpToRel(<, Nat)
<1>1. \A i, j \in Nat : <<i, j>> \in R <=> i < j
  BY DEF OpToRel
<1>2. IsWellFoundedOn(R, Nat)
  BY NatLessThanWellFounded
<1> HIDE DEF R
<1>3. PICK i \in K : \A j \in K : ~ (<<j, i>> \in R)
  BY <1>2, WFMin
<1>4. \A j \in K : ~ (j < i)
  BY <1>1, <1>3
<1>5. K \subseteq Nat
  OBVIOUS
<1> QED
  BY <1>4, <1>5

\* Least is that one.
LEMMA LeastIsLeast ==
  ASSUME NEW K \in SUBSET Nat, K # {}
  PROVE  Least(K) \in K /\ \A j \in K : Least(K) <= j
BY LeastNumber DEF Least

\* A number past the others changes nobody's place, and comes last.
LEMMA PlaceKept ==
  ASSUME NEW n \in Nat, NEW I \in SUBSET (1 .. n), NEW m \in Nat, m > n, NEW i \in I
  PROVE  Place(I \cup {m}, i) = Place(I, i)
<1>1. {j \in I \cup {m} : j <= i} = {j \in I : j <= i}
  OBVIOUS
<1> QED
  BY <1>1 DEF Place

LEMMA LastPlace ==
  ASSUME NEW n \in Nat, NEW I \in SUBSET (1 .. n), NEW m \in Nat, m > n
  PROVE  /\ IsFiniteSet(I) /\ Cardinality(I) \in Nat /\ m \notin I
         /\ Place(I \cup {m}, m) = Cardinality(I) + 1
         /\ Cardinality(I \cup {m}) = Cardinality(I) + 1
<1>1. IsFiniteSet(1 .. n)
  BY FS_Interval
<1>2. IsFiniteSet(I) /\ Cardinality(I) \in Nat
  BY <1>1, FS_Subset, FS_CardinalityType
<1>a. \A j \in I \cup {m} : j <= m
  OBVIOUS
<1>b. \A j \in I : j <= n
  OBVIOUS
<1>3. {j \in I \cup {m} : j <= m} = I \cup {m} /\ m \notin I
  <2>1. m \notin I
    BY <1>b
  <2>2. {j \in I \cup {m} : j <= m} = I \cup {m}
    BY <1>a
  <2> QED
    BY <2>1, <2>2
<1>4. Cardinality(I \cup {m}) = Cardinality(I) + 1
  BY <1>2, <1>3, FS_AddElement
<1> QED
  BY <1>2, <1>3, <1>4 DEF Place

-----------------------------------------------------------------------------
(* Sequences of events.                                                    *)

IsSeq(s) == \E S : s \in Seq(S)

\* A sequence by its length.
LEMMA SeqFacts ==
  ASSUME NEW s, IsSeq(s)
  PROVE  Len(s) \in Nat /\ DOMAIN s = 1 .. Len(s)
BY DEF IsSeq

\* What appending and joining do.
LEMMA Appended ==
  ASSUME NEW s, IsSeq(s), NEW x
  PROVE  /\ IsSeq(Append(s, x)) /\ Len(Append(s, x)) = Len(s) + 1
         /\ Append(s, x)[Len(s) + 1] = x
         /\ \A i \in 1 .. Len(s) : Append(s, x)[i] = s[i]
<1>1. PICK S : s \in Seq(S)
  BY DEF IsSeq
<1>2. s \in Seq(S \cup {x}) /\ x \in S \cup {x}
  BY <1>1, SeqMonotonic
<1>3. Append(s, x) \in Seq(S \cup {x})
  BY <1>2
<1>4. IsSeq(Append(s, x))
  BY <1>3 DEF IsSeq
<1> QED
  BY <1>2, <1>4

LEMMA Joined ==
  ASSUME NEW s, IsSeq(s), NEW t, IsSeq(t)
  PROVE  /\ IsSeq(s \o t) /\ Len(s \o t) = Len(s) + Len(t)
         /\ \A i \in 1 .. Len(s) : (s \o t)[i] = s[i]
         /\ \A i \in 1 .. Len(t) : (s \o t)[Len(s) + i] = t[i]
<1>1. PICK S : s \in Seq(S)
  BY DEF IsSeq
<1>2. PICK T : t \in Seq(T)
  BY DEF IsSeq
<1>3. s \in Seq(S \cup T) /\ t \in Seq(S \cup T)
  BY <1>1, <1>2, SeqMonotonic
<1>4. s \o t \in Seq(S \cup T)
  BY <1>3
<1>5. IsSeq(s \o t)
  BY <1>4 DEF IsSeq
<1> QED
  BY <1>3, <1>5

LEMMA OneIsSeq ==
  /\ IsSeq(<<>>) /\ DOMAIN <<>> = {}
  /\ \A e : IsSeq(<<e>>) /\ Len(<<e>>) = 1 /\ DOMAIN <<e>> = {1} /\ <<e>>[1] = e
<1>1. <<>> \in Seq({})
  OBVIOUS
<1>2. \A e : <<e>> \in Seq({e})
  OBVIOUS
<1>3. ASSUME NEW e  PROVE Len(<<e>>) = 1 /\ DOMAIN <<e>> = {1} /\ <<e>>[1] = e
  OBVIOUS
<1>4. DOMAIN <<>> = {}
  OBVIOUS
<1> QED
  BY <1>1, <1>2, <1>3, <1>4 DEF IsSeq

-----------------------------------------------------------------------------
(* What a line says.                                                       *)

\* A packet is told as queries of a name, with the server it is heard from.
LEMMA PacketSays ==
  ASSUME NEW payload, NEW server
  PROVE  /\ IsSeq(PacketEvents(payload, server))
         /\ \A i \in DOMAIN PacketEvents(payload, server) :
              LET e == PacketEvents(payload, server)[i]
              IN  e.kind = "dns" /\ e.server = server /\ e.name # None
<1>1. CASE ~IsPacket(payload)
  BY <1>1, OneIsSeq DEF PacketEvents
<1>2. CASE IsPacket(payload) /\ ~payload.response
  BY <1>2, OneIsSeq DEF PacketEvents, IsPacket, Query
<1>3. CASE IsPacket(payload) /\ payload.response
  <2> DEFINE told == [i \in DOMAIN AnswersIn(payload) |-> Query(payload.question, AnswersIn(payload)[i].address, server)]
             T    == {Query(payload.question, AnswersIn(payload)[i].address, server) : i \in DOMAIN AnswersIn(payload)}
  <2>1. PICK n \in Nat : DOMAIN AnswersIn(payload) = 1 .. n
    <3> DEFINE fit       == {i \in 1 .. 32 : i \in DOMAIN payload.answers /\ \A j \in 1 .. i : payload.answers[j].type # "cut"}
               addresses == {i \in fit : payload.answers[i].type \in {"A", "AAAA"}}
    <3>1. IsFiniteSet(1 .. 32) /\ addresses \subseteq 1 .. 32
      <4>1. IsFiniteSet(1 .. 32)
        BY FS_Interval, 1 \in Int, 32 \in Int
      <4>2. addresses \subseteq 1 .. 32
        OBVIOUS
      <4> QED
        BY <4>1, <4>2
    <3>2. Cardinality(addresses) \in Nat
      BY <3>1, FS_Subset, FS_CardinalityType
    <3>3. DOMAIN AnswersIn(payload) = 1 .. Cardinality(addresses)
      BY DEF AnswersIn
    <3> QED
      BY <3>2, <3>3
  <2>2. told \in Seq(T)
    BY <2>1
  <2>3. PacketEvents(payload, server) = told
    BY <1>3 DEF PacketEvents
  <2>4. \A i \in DOMAIN told : told[i].kind = "dns" /\ told[i].server = server /\ told[i].name # None
    BY <1>3 DEF Query, IsPacket
  <2> QED
    BY <2>2, <2>3, <2>4 DEF IsSeq
<1> QED
  BY <1>1, <1>2, <1>3

\* A payload holds what an event tells.
Holds(payload, e) ==
  \E k \in DOMAIN PacketEvents(payload, e.server) : PacketEvents(payload, e.server)[k] = e

\* What an event says of the call it was told of.
Says(p, head, tail, e) ==
  /\ e.kind = "exec" => head.call = "execve" /\ tail.errno # "?" /\ e = Execed(head.path, Errno(tail))
  /\ e.kind = "open" => head.call \in {"openat", "stat"} /\ e.path = head.path /\ e.errno = Errno(tail)
  /\ e.kind = "connect" => /\ head.call = "connect" /\ head.peer.family = "inet"
                           /\ e = Connected(head.peer, ResultLabel(tail))
  /\ e.kind = "dns" => /\ head.call \in Datagrams /\ e.name # None
                       /\ e.server = DatagramServer(p, head, tail) /\ e.server # None
                       /\ \E payload \in {head.payload, tail.payload} : Holds(payload, e)

\* Calls that are told as one event.
LEMMA LineOfExec ==
  ASSUME NEW p, NEW head, NEW tail, head.call = "execve"
  PROVE  LineEvents(p, head, tail) = IF tail.errno = "?" THEN <<>> ELSE <<Execed(head.path, Errno(tail))>>
<1>1. head.call # "openat" /\ head.call # "stat" /\ head.call # "connect" /\ head.call # "bind"
      /\ head.call # "listen" /\ head.call \notin Datagrams
  BY DEF Datagrams
<1> QED
  BY <1>1, Zenon DEF LineEvents

LEMMA LineOfConnect ==
  ASSUME NEW p, NEW head, NEW tail, head.call = "connect"
  PROVE  LineEvents(p, head, tail) = ConnectEvents(head, tail)
<1>1. head.call # "execve" /\ head.call # "openat" /\ head.call # "stat" /\ head.call # "bind"
      /\ head.call # "listen" /\ head.call \notin Datagrams
  BY DEF Datagrams
<1> QED
  BY <1>1, Zenon DEF LineEvents

LEMMA LineOfStat ==
  ASSUME NEW p, NEW head, NEW tail, head.call = "stat"
  PROVE  LineEvents(p, head, tail) = StatEvents(head, tail)
<1>1. head.call # "execve" /\ head.call # "openat" /\ head.call # "connect" /\ head.call # "bind"
      /\ head.call # "listen" /\ head.call \notin Datagrams
  BY DEF Datagrams
<1> QED
  BY <1>1, Zenon DEF LineEvents

LEMMA LineOfOpen ==
  ASSUME NEW p, NEW head, NEW tail, head.call = "openat"
  PROVE  LineEvents(p, head, tail) = FileEvents(head, tail)
<1>1. head.call # "execve" /\ head.call # "stat" /\ head.call # "connect" /\ head.call # "bind"
      /\ head.call # "listen" /\ head.call \notin Datagrams
  BY DEF Datagrams
<1> QED
  BY <1>1, Zenon DEF LineEvents

LEMMA LineOfDatagram ==
  ASSUME NEW p, NEW head, NEW tail, head.call \in Datagrams
  PROVE  LineEvents(p, head, tail) = DatagramEvents(p, head, tail)
<1>1. head.call # "execve" /\ head.call # "openat" /\ head.call # "stat" /\ head.call # "connect" /\ head.call # "bind"
      /\ head.call # "listen"
  BY DEF Datagrams
<1> QED
  BY <1>1, Zenon DEF LineEvents

\* A listener and a bound socket are told as one event or none, and other
\* calls not at all.
LEMMA LineOfOthers ==
  ASSUME NEW p, NEW head, NEW tail,
         head.call \notin {"execve", "openat", "stat", "connect"} \cup Datagrams
  PROVE  \/ LineEvents(p, head, tail) = <<>>
         \/ \E peer : LineEvents(p, head, tail) \in {<<Bound(peer)>>, <<Listening(peer)>>}
<1>1. head.call # "execve" /\ head.call # "openat" /\ head.call # "stat" /\ head.call # "connect"
      /\ head.call \notin Datagrams
  OBVIOUS
<1>2. CASE head.call = "bind"
  <2>1. head.call # "listen"
    BY <1>2
  <2>2. LineEvents(p, head, tail)
          = IF head.peer.family = "inet" /\ Succeeded(tail) THEN <<Bound(head.peer)>> ELSE <<>>
    BY <1>1, <1>2, <2>1, Zenon DEF LineEvents
  <2> QED
    BY <2>2
<1>3. CASE head.call = "listen"
  <2>1. head.call # "bind"
    BY <1>3
  <2>2. LineEvents(p, head, tail)
          = IF Succeeded(tail) /\ <<p, head.fd>> \in DOMAIN bound
            THEN <<Listening(bound[<<p, head.fd>>])>> ELSE <<>>
    BY <1>1, <1>3, <2>1, Zenon DEF LineEvents
  <2> QED
    BY <2>2
<1>4. CASE head.call # "bind" /\ head.call # "listen"
  <2>1. LineEvents(p, head, tail) = <<>>
    BY <1>1, <1>4, Zenon DEF LineEvents
  <2> QED
    BY <2>1
<1> QED
  BY <1>2, <1>3, <1>4

\* Every event of a line says what its call did.
LEMMA LineSays ==
  ASSUME NEW p, NEW head, NEW tail, head.call = "connect" => head.peer.family \in {"inet", "unix", "other"}
  PROVE  /\ IsSeq(LineEvents(p, head, tail))
         /\ \A i \in DOMAIN LineEvents(p, head, tail) : Says(p, head, tail, LineEvents(p, head, tail)[i])
<1>1. CASE head.call = "execve"
  <2>1. \A e : Says(p, head, tail, e) \/ tail.errno = "?" \/ e # Execed(head.path, Errno(tail))
    BY <1>1 DEF Says, Execed
  <2> QED
    BY <1>1, <2>1, LineOfExec, OneIsSeq
<1>2. CASE head.call = "openat"
  <2>1. /\ \A write : Says(p, head, tail, Opened(head.path, Errno(tail), write))
        /\ Says(p, head, tail, Mapped(head.path))
    BY <1>2 DEF Says, Opened, Mapped
  <2>2. FileEvents(head, tail) \in {<<>>, <<Mapped(head.path)>>, <<Opened(head.path, Errno(tail), head.write)>>}
    BY DEF FileEvents
  <2> QED
    BY <1>2, <2>1, <2>2, LineOfOpen, OneIsSeq
<1>3. CASE head.call = "stat"
  <2> DEFINE e == Opened(head.path, Errno(tail), FALSE)
  <2>1. Says(p, head, tail, e)
    BY <1>3 DEF Says, Opened
  <2>2. StatEvents(head, tail) = <<>> \/ StatEvents(head, tail) = <<e>>
    BY DEF StatEvents
  <2> HIDE DEF e
  <2> QED
    BY <1>3, <2>1, <2>2, LineOfStat, OneIsSeq
<1>4. CASE head.call = "connect"
  <2>1. CASE head.peer.family = "inet"
    <3>1. ConnectEvents(head, tail) = <<Connected(head.peer, ResultLabel(tail))>>
      <4>1. head.peer.family # "unix" /\ head.peer.family # "other"
        BY <2>1
      <4> QED
        BY <2>1, <4>1, Zenon DEF ConnectEvents
    <3>2. Says(p, head, tail, Connected(head.peer, ResultLabel(tail)))
      BY <1>4, <2>1 DEF Says, Connected
    <3> QED
      BY <1>4, <3>1, <3>2, LineOfConnect, OneIsSeq
  <2>2. CASE head.peer.family = "unix"
    <3>1. ConnectEvents(head, tail) = <<UnixConnected(head.peer, ResultLabel(tail))>>
      <4>1. head.peer.family # "inet" /\ head.peer.family # "other"
        BY <2>2
      <4> QED
        BY <2>2, <4>1, Zenon DEF ConnectEvents
    <3>2. Says(p, head, tail, UnixConnected(head.peer, ResultLabel(tail)))
      BY DEF Says, UnixConnected
    <3> QED
      BY <1>4, <3>1, <3>2, LineOfConnect, OneIsSeq
  <2>3. CASE head.peer.family = "other"
    <3>1. ConnectEvents(head, tail) = <<>>
      <4>1. head.peer.family # "inet" /\ head.peer.family # "unix"
        BY <2>3
      <4> QED
        BY <2>3, <4>1, Zenon DEF ConnectEvents
    <3> QED
      BY <1>4, <3>1, LineOfConnect, OneIsSeq
  <2> QED
    BY <1>4, <2>1, <2>2, <2>3
<1>5. CASE head.call \in Datagrams
  <2> DEFINE server == DatagramServer(p, head, tail)
             one    == PacketEvents(head.payload, server)
             two    == PacketEvents(tail.payload, server)
  <2>1. CASE server = None
    BY <1>5, <2>1, LineOfDatagram, OneIsSeq DEF DatagramEvents
  <2>2. CASE server # None
    <3>1. LineEvents(p, head, tail) = one \o two
      BY <1>5, <2>2, LineOfDatagram DEF DatagramEvents
    <3>2. \A e : \A payload \in {head.payload, tail.payload} :
            e.kind = "dns" /\ e.server = server /\ e.name # None /\ Holds(payload, e) => Says(p, head, tail, e)
      BY <1>5, <2>2 DEF Says
    <3>a. \A i \in DOMAIN one : one[i].kind = "dns" /\ one[i].server = server /\ one[i].name # None
      BY PacketSays
    <3>b. \A i \in DOMAIN two : two[i].kind = "dns" /\ two[i].server = server /\ two[i].name # None
      BY PacketSays
    <3>c. \A i \in DOMAIN one : Holds(head.payload, one[i])
      BY <3>a DEF Holds
    <3>d. \A i \in DOMAIN two : Holds(tail.payload, two[i])
      BY <3>b DEF Holds
    <3>e. IsSeq(one) /\ IsSeq(two)
      BY PacketSays
    <3>3. /\ IsSeq(one) /\ \A i \in DOMAIN one : Says(p, head, tail, one[i])
          /\ IsSeq(two) /\ \A i \in DOMAIN two : Says(p, head, tail, two[i])
      BY <3>2, <3>a, <3>b, <3>c, <3>d, <3>e
    <3> HIDE DEF one, two
    <3>4. /\ IsSeq(one \o two) /\ Len(one \o two) = Len(one) + Len(two)
          /\ Len(one) \in Nat /\ Len(two) \in Nat
          /\ DOMAIN one = 1 .. Len(one) /\ DOMAIN two = 1 .. Len(two)
          /\ DOMAIN (one \o two) = 1 .. Len(one \o two)
      BY <3>3, Joined, SeqFacts
    <3>5. ASSUME NEW i \in DOMAIN (one \o two)  PROVE Says(p, head, tail, (one \o two)[i])
      <4>1. CASE i \in 1 .. Len(one)
        BY <3>3, <3>4, <4>1, Joined
      <4>2. ASSUME NEW k \in 1 .. Len(two), i = Len(one) + k
            PROVE  Says(p, head, tail, (one \o two)[i])
        BY <3>3, <3>4, <4>2, Joined
      <4>3. i \in 1 .. Len(one) \/ \E k \in 1 .. Len(two) : i = Len(one) + k
        <5>1. i \in 1 .. Len(one) + Len(two)
          BY <3>4, <3>5
        <5>2. i \in 1 .. Len(one) \/ (i - Len(one) \in 1 .. Len(two) /\ i = Len(one) + (i - Len(one)))
          BY <3>4, <5>1
        <5> QED
          BY <5>2
      <4> QED
        BY <4>1, <4>2, <4>3
    <3> QED
      BY <3>1, <3>4, <3>5
  <2> QED
    BY <2>1, <2>2
<1>6. CASE head.call \notin {"execve", "openat", "stat", "connect"} \cup Datagrams
  <2>1. \A peer : Says(p, head, tail, Bound(peer)) /\ Says(p, head, tail, Listening(peer))
    BY DEF Says, Bound, Listening
  <2> QED
    BY <1>6, <2>1, LineOfOthers, OneIsSeq
<1> QED
  BY <1>1, <1>2, <1>3, <1>4, <1>5, <1>6

-----------------------------------------------------------------------------
(* The steps of a trace.                                                   *)

\* What is known of the calls made and in the making.
Typed ==
  /\ IsSeq(done) /\ IsSeq(report)
  /\ \E w \in Workloads : program = w.program /\ files = w.files
  /\ inflight = [p \in Task |-> inflight[p]]
  /\ \A p \in Task : inflight[p] = None \/ inflight[p] \in program[p]
  /\ \A i \in DOMAIN done : /\ done[i].pid \in Task
                            /\ done[i].head \in program[done[i].pid]
                            /\ done[i].tail \in Tails(done[i].head)

\* The heads the parser keeps are the calls without a result.
Waiting ==
  \A p \in Task : inflight[p] # None => unfinished[<<p, inflight[p].call>>] = inflight[p]

\* The result of a call is read with its head.
Reading(p, head, tail) ==
  /\ head \in program[p] /\ tail \in Tails(head)
  /\ Ended(p, head, tail) /\ ReadCall(p, head, tail)

\* A task exits.
Leaving(p) ==
  /\ \E code : report' = Push(p, executables, <<Exited(code)>>)
  /\ UNCHANGED <<done, executables, dnsPeers, bound>>

Silent == UNCHANGED <<done, report, executables, dnsPeers, bound>>

LEMMA CallReads ==
  ASSUME NEW p \in Task, Call(p)
  PROVE  /\ \E head \in program[p] : \E tail \in Tails(head) : Reading(p, head, tail)
         /\ lines' = lines + 1 /\ UNCHANGED <<program, files, alive, inflight, unfinished>>
BY DEF Call, Reading, NewLine

\* The head of a resumed call is the one that was interrupted.
LEMMA ResumeReads ==
  ASSUME ObserverTypeOK, Typed, Waiting, NEW p \in Task, Resume(p)
  PROVE  /\ inflight[p] # None /\ inflight[p] \in program[p]
         /\ \E tail \in Tails(inflight[p]) : Reading(p, inflight[p], tail)
         /\ inflight' = [inflight EXCEPT ![p] = None]
         /\ unfinished' = Drop(unfinished, <<p, inflight[p].call>>)
         /\ lines' = lines + 1 /\ UNCHANGED <<program, files, alive>>
<1>1. inflight[p] # None /\ inflight[p] \in program[p] /\ unfinished[<<p, inflight[p].call>>] = inflight[p]
  BY DEF Resume, Typed, Waiting
<1>2. <<p, inflight[p].call>> \in DOMAIN unfinished
  BY <1>1 DEF ObserverTypeOK
<1>3. PICK tail \in Tails(inflight[p]) : Ended(p, inflight[p], tail) /\ Stitch(p, inflight[p].call, tail)
  BY DEF Resume
<1>4. ReadCall(p, inflight[p], tail) /\ unfinished' = Drop(unfinished, <<p, inflight[p].call>>)
  BY <1>1, <1>2, <1>3 DEF Stitch
<1> QED
  BY <1>1, <1>3, <1>4 DEF Resume, Reading, NewLine

\* Every step is one of these.
LEMMA StepKinds ==
  ASSUME ObserverTypeOK, Typed, Waiting, ObserverNext
  PROVE  /\ UNCHANGED <<program, files>>
         /\ \/ Silent
            \/ \E p \in Task : Leaving(p)
            \/ \E p \in Task : \E head \in program[p] : \E tail \in Tails(head) : Reading(p, head, tail)
<1>1. CASE Garble
  BY <1>1 DEF Garble, Silent, kernel, parser
<1>2. ASSUME NEW p \in Task, Call(p)
      PROVE  UNCHANGED <<program, files>> /\ \E head \in program[p] : \E tail \in Tails(head) : Reading(p, head, tail)
  BY <1>2, CallReads
<1>3. ASSUME NEW p \in Task, Interrupt(p)  PROVE UNCHANGED <<program, files>> /\ Silent
  BY <1>3 DEF Interrupt, ReadHead, Silent
<1>4. ASSUME NEW p \in Task, Resume(p)
      PROVE  UNCHANGED <<program, files>> /\ \E head \in program[p] : \E tail \in Tails(head) : Reading(p, head, tail)
  BY <1>4, ResumeReads
<1>5. ASSUME NEW p \in Task, Exit(p)  PROVE UNCHANGED <<program, files>> /\ Leaving(p)
  BY <1>5 DEF Exit, Leaving, parser
<1> QED
  BY <1>1, <1>2, <1>3, <1>4, <1>5 DEF ObserverNext

\* What an exit adds to the report.
LEMMA LeavingFacts ==
  ASSUME Typed, NEW p, Leaving(p)
  PROVE  /\ IsSeq(report') /\ UNCHANGED <<done, executables, dnsPeers, bound>>
         /\ Len(report) \in Nat /\ DOMAIN report = 1 .. Len(report) /\ DOMAIN report' = 1 .. Len(report) + 1
         /\ \A i \in DOMAIN report : report'[i] = report[i]
         /\ report'[Len(report) + 1].pid = p
         /\ report'[Len(report) + 1].executable = Lookup(executables, p)
         /\ report'[Len(report) + 1].event.kind = "exited"
<1>1. PICK code : report' = Push(p, executables, <<Exited(code)>>)
  BY DEF Leaving
<1> DEFINE es   == <<Exited(code)>>
           told == [i \in DOMAIN es |-> Envelope(p, executables, es[i])]
<1>2. IsSeq(es) /\ Len(es) = 1 /\ es[1].kind = "exited"
  BY OneIsSeq DEF Exited
<1> HIDE DEF es
<1>3. IsSeq(told) /\ Len(told) = 1 /\ told[1] = Envelope(p, executables, es[1])
  <2>1. DOMAIN es = 1 .. 1
    BY <1>2, SeqFacts
  <2>2. told \in Seq({Envelope(p, executables, es[i]) : i \in DOMAIN es})
    BY <2>1
  <2>3. Len(told) = 1 /\ told[1] = Envelope(p, executables, es[1])
    BY <2>1, <2>2
  <2> QED
    BY <2>2, <2>3 DEF IsSeq
<1>4. report' = report \o told /\ IsSeq(report)
  BY <1>1 DEF Push, es, Typed
<1> HIDE DEF told
<1>5. Len(report) \in Nat /\ DOMAIN report = 1 .. Len(report)
  BY <1>4, SeqFacts
<1>6. /\ IsSeq(report') /\ Len(report') = Len(report) + 1
      /\ \A i \in 1 .. Len(report) : report'[i] = report[i]
      /\ report'[Len(report) + 1] = told[1]
  <2>a. IsSeq(report) /\ IsSeq(told)
    BY <1>3, <1>4
  <2>b. IsSeq(report \o told)
    BY <2>a, Joined
  <2>c. Len(report \o told) = Len(report) + Len(told)
    BY <2>a, Joined
  <2>d. \A i \in 1 .. Len(report) : (report \o told)[i] = report[i]
    BY <2>a, Joined
  <2>e. \A i \in 1 .. Len(told) : (report \o told)[Len(report) + i] = told[i]
    BY <2>a, Joined
  <2>2. 1 \in 1 .. Len(told)
    BY <1>3
  <2> QED
    BY <1>3, <1>4, <2>b, <2>c, <2>d, <2>e, <2>2
<1>7. DOMAIN report' = 1 .. Len(report) + 1
  BY <1>6, SeqFacts
<1> QED
  BY <1>2, <1>3, <1>5, <1>6, <1>7 DEF Leaving, Envelope

\* What reading a call adds to the report: the events of its line.
LEMMA ReadingEvents ==
  ASSUME Typed, NEW p \in Task, NEW head \in program[p], NEW tail \in Tails(head), Reading(p, head, tail),
         NEW es, es = LineEvents(p, head, tail)
  PROVE  /\ Len(report) \in Nat /\ Len(es) \in Nat /\ DOMAIN es = 1 .. Len(es)
         /\ IsSeq(report') /\ DOMAIN report = 1 .. Len(report) /\ DOMAIN report' = 1 .. Len(report) + Len(es)
         /\ \A i \in DOMAIN report : report'[i] = report[i]
         /\ \A k \in 1 .. Len(es) : /\ report'[Len(report) + k] = Envelope(p, executables', es[k])
                                    /\ Says(p, head, tail, es[k])
<1> DEFINE told == [i \in DOMAIN es |-> Envelope(p, executables', es[i])]
           n    == Len(report)
<1>1. head.call = "connect" => head.peer.family \in {"inet", "unix", "other"}
  BY ProgramAssumption DEF Typed
<1>2. IsSeq(es) /\ \A i \in DOMAIN es : Says(p, head, tail, es[i])
  BY <1>1, LineSays
<1>3. report' = report \o told /\ IsSeq(report)
  BY DEF Reading, ReadCall, Push, Typed
<1>5. Len(es) \in Nat /\ DOMAIN es = 1 .. Len(es)
  BY <1>2, SeqFacts
<1>6. IsSeq(told) /\ Len(told) = Len(es) /\ \A k \in 1 .. Len(es) : told[k] = Envelope(p, executables', es[k])
  <2>1. told \in Seq({Envelope(p, executables', es[i]) : i \in DOMAIN es})
    BY <1>5
  <2>2. Len(told) = Len(es)
    BY <1>5, <2>1
  <2> QED
    BY <1>5, <2>1, <2>2 DEF IsSeq
<1> HIDE DEF told
<1>7. n \in Nat /\ DOMAIN report = 1 .. n
  BY <1>3, SeqFacts
<1>8. /\ IsSeq(report') /\ Len(report') = n + Len(es)
      /\ \A i \in 1 .. n : report'[i] = report[i]
      /\ \A k \in 1 .. Len(es) : report'[n + k] = told[k]
  <2>a. IsSeq(report) /\ IsSeq(told)
    BY <1>3, <1>6
  <2>b. IsSeq(report \o told)
    BY <2>a, Joined
  <2>c. Len(report \o told) = Len(report) + Len(told)
    BY <2>a, Joined
  <2>d. \A i \in 1 .. Len(report) : (report \o told)[i] = report[i]
    BY <2>a, Joined
  <2>e. \A i \in 1 .. Len(told) : (report \o told)[Len(report) + i] = told[i]
    BY <2>a, Joined
  <2> QED
    BY <1>3, <1>6, <2>b, <2>c, <2>d, <2>e
<1>9. DOMAIN report' = 1 .. n + Len(es)
  BY <1>8, SeqFacts
<1> QED
  BY <1>2, <1>5, <1>6, <1>7, <1>8, <1>9

\* What reading a call adds: one call, and events that speak of it.
LEMMA ReadingFacts ==
  ASSUME Typed, NEW p \in Task, NEW head \in program[p], NEW tail \in Tails(head), Reading(p, head, tail)
  PROVE  /\ IsSeq(report') /\ DOMAIN report \subseteq DOMAIN report'
         /\ \A i \in DOMAIN report : report'[i] = report[i]
         /\ \A i \in DOMAIN report' \ DOMAIN report :
              /\ report'[i].pid = p /\ report'[i].executable = Lookup(executables', p)
              /\ Says(p, head, tail, report'[i].event)
         /\ Len(report) \in Nat /\ Len(done) \in Nat
         /\ IsSeq(done') /\ DOMAIN done' = DOMAIN done \cup {Len(done) + 1} /\ Len(done) + 1 \notin DOMAIN done
         /\ \A i \in DOMAIN done : done'[i] = done[i]
         /\ done'[Len(done) + 1] = [pid |-> p, head |-> head, tail |-> tail]
<1> DEFINE es == LineEvents(p, head, tail)
           n  == Len(report)
           m  == Len(done)
<1> HIDE DEF es
<1>1. /\ n \in Nat /\ Len(es) \in Nat /\ DOMAIN es = 1 .. Len(es)
      /\ IsSeq(report') /\ DOMAIN report = 1 .. n /\ DOMAIN report' = 1 .. n + Len(es)
      /\ \A i \in DOMAIN report : report'[i] = report[i]
      /\ \A k \in 1 .. Len(es) : /\ report'[n + k] = Envelope(p, executables', es[k])
                                 /\ Says(p, head, tail, es[k])
  <2>1. es = LineEvents(p, head, tail)
    BY DEF es
  <2> QED
    BY <2>1, ReadingEvents
<1>2. DOMAIN report \subseteq DOMAIN report'
  BY <1>1
<1>3. ASSUME NEW i \in DOMAIN report' \ DOMAIN report
      PROVE  /\ report'[i].pid = p /\ report'[i].executable = Lookup(executables', p)
             /\ Says(p, head, tail, report'[i].event)
  <2>1. i \in 1 .. n + Len(es) /\ i \notin 1 .. n
    BY <1>1, <1>3
  <2>2. i - n \in 1 .. Len(es) /\ i = n + (i - n)
    BY <1>1, <2>1
  <2>3. PICK k \in 1 .. Len(es) : i = n + k
    BY <2>2
  <2>4. report'[i] = Envelope(p, executables', es[k]) /\ Says(p, head, tail, es[k])
    BY <1>1, <2>3
  <2> QED
    BY <2>4 DEF Envelope
<1>4. IsSeq(done) /\ done' = Append(done, [pid |-> p, head |-> head, tail |-> tail])
  BY DEF Reading, Ended, Typed
<1>5. m \in Nat /\ DOMAIN done = 1 .. m
  BY <1>4, SeqFacts
<1>6. /\ IsSeq(done') /\ Len(done') = m + 1 /\ done'[m + 1] = [pid |-> p, head |-> head, tail |-> tail]
      /\ \A i \in 1 .. m : done'[i] = done[i]
  BY <1>4, Appended
<1>7. DOMAIN done' = 1 .. m + 1
  BY <1>6, SeqFacts
<1>8. DOMAIN done' = DOMAIN done \cup {m + 1} /\ m + 1 \notin DOMAIN done
  BY <1>5, <1>7
<1> QED
  BY <1>1, <1>2, <1>3, <1>5, <1>6, <1>8

-----------------------------------------------------------------------------
(* The inductive invariant.                                                *)

\* The connects told are the connects that ended, each as its line reads.
Matched ==
  /\ Cardinality(Connects) = Cardinality(ConnectsTold)
  /\ \A i \in Connects : \E j \in ConnectsTold :
       /\ Place(Connects, i) = Place(ConnectsTold, j)
       /\ report[j].pid = done[i].pid
       /\ report[j].event = Connected(done[i].head.peer, ResultLabel(done[i].tail))

\* The program a task runs is the one it last executed.
Running ==
  \A p \in Task :
    /\ Cardinality(Execs(p)) = Cardinality(ExecsTold(p))
    /\ Execs(p) = {} => Lookup(executables, p) = None
    /\ Execs(p) # {} => \E j \in Execs(p) : /\ Place(Execs(p), j) = Cardinality(Execs(p))
                                           /\ Lookup(executables, p) = done[j].head.path

\* The address kept for a socket is that of the resolver last named on it.
Peers ==
  \A p \in Task : \A fd : <<p, fd>> \in DOMAIN dnsPeers => LastResolver(Len(done) + 1, p, fd, dnsPeers[<<p, fd>>])

\* The file events are calls that were made; and a program that ran, or was
\* come upon in a bin directory, has its event.
Told(e) ==
  /\ e.kind = "exec" => \E j \in DOMAIN done : /\ done[j].head.call = "execve" /\ done[j].tail.errno # "?"
                                              /\ e = Execed(Of(j), Errno(done[j].tail))
  /\ e.kind = "open" => \E j \in DOMAIN done : /\ done[j].head.call \in {"openat", "stat"}
                                              /\ e.path = Of(j) /\ e.errno = Errno(done[j].tail)
  /\ e.kind = "dns"  => e.name # None
Shown(head, tail) ==
  /\ head.call = "execve" /\ tail.errno = "ok" => \E i \in DOMAIN report : report[i].event = Execed(head.path, None)
  /\ head.call = "stat" /\ tail.errno = "ok" /\ IsExecutableProbe(head.path) =>
       \E i \in DOMAIN report : report[i].event = Opened(head.path, None, FALSE)
FilesTold  == \A i \in DOMAIN report : Told(report[i].event)
FilesFound == \A j \in DOMAIN done : Shown(done[j].head, done[j].tail)

TracedInv ==
  /\ ObserverTypeOK /\ Typed /\ Waiting
  /\ Matched /\ Running /\ Attributed /\ Peers /\ ServersAreResolvers /\ FilesTold /\ FilesFound

-----------------------------------------------------------------------------
(* The invariant at the start, and the tables.                             *)

LEMMA InitHolds == ObserverInit => TracedInv
<1> SUFFICES ASSUME ObserverInit  PROVE TracedInv
  OBVIOUS
<1>1. IsSeq(done) /\ IsSeq(report) /\ DOMAIN done = {} /\ DOMAIN report = {}
  BY OneIsSeq DEF ObserverInit
<1>2. DOMAIN bound = {} /\ DOMAIN dnsPeers = {} /\ DOMAIN executables = {} /\ DOMAIN unfinished = {}
  BY OneIsSeq DEF ObserverInit
<1>3. inflight = [p \in Task |-> None] /\ \A p \in Task : inflight[p] = None
  BY DEF ObserverInit
<1>4. ObserverTypeOK
  <2>1. {q \in Task : inflight[q] # None} = {}
    BY <1>3
  <2> QED
    BY <1>1, <1>2, <2>1, BoundAssumption DEF ObserverInit, ObserverTypeOK
<1>5. Typed
  BY <1>1, <1>3 DEF Typed, ObserverInit
<1>6. Waiting
  BY <1>3 DEF Waiting
<1>7. /\ Connects = {} /\ ConnectsTold = {}
      /\ \A p : Execs(p) = {} /\ ExecsTold(p) = {}
  BY <1>1 DEF Connects, ConnectsTold, Execs, ExecsTold
<1>8. Matched /\ Running
  BY <1>2, <1>7 DEF Matched, Running, Lookup
<1>9. Attributed /\ Peers /\ ServersAreResolvers /\ FilesTold /\ FilesFound
  BY <1>1, <1>2 DEF Attributed, Peers, ServersAreResolvers, FilesTold, FilesFound
<1> QED
  BY <1>4, <1>5, <1>6, <1>8, <1>9 DEF TracedInv

\* What is in a table after an entry is put in it or dropped.
LEMMA Tables ==
  ASSUME NEW table, NEW key, NEW value
  PROVE  /\ DOMAIN Put(table, key, value) = DOMAIN table \cup {key}
         /\ Put(table, key, value)[key] = value
         /\ \A k \in DOMAIN table : k # key => Put(table, key, value)[k] = table[k]
         /\ DOMAIN Drop(table, key) = DOMAIN table \ {key}
         /\ \A k \in DOMAIN table \ {key} : Drop(table, key)[k] = table[k]
BY DEF Put, Drop

\* The sockets of a program.
Sockets == UNION {{<<p, h.fd>> : h \in {c \in program[p] : "fd" \in DOMAIN c}} : p \in Task}

LEMMA ASocket ==
  ASSUME Typed, NEW p \in Task, NEW head \in program[p],
         head.call \in {"connect", "bind", "listen"} \cup Datagrams
  PROVE  <<p, head.fd>> \in Sockets
<1>1. "fd" \in DOMAIN head
  BY ProgramAssumption DEF Typed
<1> QED
  BY <1>1 DEF Sockets

\* Reading a call keeps the tables to sockets and tasks, and counts the line
\* at most once.
LEMMA ReadingIsTyped ==
  ASSUME ObserverTypeOK, Typed, NEW p \in Task, NEW head \in program[p], NEW tail \in Tails(head),
         Reading(p, head, tail)
  PROVE  /\ DOMAIN bound' \cup DOMAIN dnsPeers' \subseteq Sockets
         /\ DOMAIN executables' \subseteq Task
         /\ unparsed' \in 0 .. lines + 1
         /\ \A i \in DOMAIN report' : report'[i].pid \in Task
<1>a. ReadCall(p, head, tail)
  BY DEF Reading
<1>1. DOMAIN bound \subseteq Sockets /\ DOMAIN dnsPeers \subseteq Sockets
  BY DEF ObserverTypeOK, Sockets
<1>2. DOMAIN bound' \subseteq Sockets
  <2>1. CASE bound' = bound
    BY <1>1, <2>1
  <2>2. CASE head.call = "bind" /\ bound' = Put(bound, <<p, head.fd>>, head.peer)
    <3>1. <<p, head.fd>> \in Sockets
      BY <2>2, ASocket
    <3>2. DOMAIN bound' = DOMAIN bound \cup {<<p, head.fd>>}
      BY <2>2 DEF Put
    <3> QED
      BY <1>1, <3>1, <3>2
  <2> QED
    BY <1>a, <2>1, <2>2 DEF ReadCall, BoundAfter
<1>3. DOMAIN dnsPeers' \subseteq Sockets
  <2>1. CASE dnsPeers' = dnsPeers
    BY <1>1, <2>1
  <2>2. CASE head.call \in {"connect"} \cup Datagrams /\ dnsPeers' = Put(dnsPeers, <<p, head.fd>>, Stated(head, tail).address)
    <3>1. <<p, head.fd>> \in Sockets
      BY <2>2, ASocket
    <3>2. DOMAIN dnsPeers' = DOMAIN dnsPeers \cup {<<p, head.fd>>}
      BY <2>2 DEF Put
    <3> QED
      BY <1>1, <3>1, <3>2
  <2> QED
    BY <1>a, <2>1, <2>2 DEF ReadCall, PeersAfter, RemembersPeer
<1>4. DOMAIN executables' \subseteq Task
  <2>1. executables' = executables \/ executables' = Put(executables, p, head.path)
    BY <1>a DEF ReadCall, ExecutablesAfter
  <2> QED
    BY <2>1 DEF Put, ObserverTypeOK
<1>5. unparsed' \in 0 .. lines + 1
  BY <1>a DEF ReadCall, ObserverTypeOK
<1>6. \A i \in DOMAIN report' : report'[i].pid \in Task
  <2>1. \A i \in DOMAIN report : report'[i] = report[i]
    BY ReadingFacts
  <2>2. \A i \in DOMAIN report' \ DOMAIN report : report'[i].pid = p
    BY ReadingFacts
  <2> QED
    BY <2>1, <2>2 DEF ObserverTypeOK
<1> QED
  BY <1>2, <1>3, <1>4, <1>5, <1>6

\* The calls without a result: the parser keeps their heads, and nothing else.
Interrupted == {<<p, inflight[p].call>> : p \in {q \in Task : inflight[q] # None}}

LEMMA HeadsStep ==
  ASSUME ObserverTypeOK, Typed, Waiting, ObserverNext
  PROVE  (DOMAIN unfinished = Interrupted)' /\ Waiting'
<1>a. /\ DOMAIN unfinished = Interrupted
      /\ inflight = [p \in Task |-> inflight[p]]
      /\ \A p \in Task : inflight[p] # None =>
           <<p, inflight[p].call>> \in DOMAIN unfinished /\ unfinished[<<p, inflight[p].call>>] = inflight[p]
  BY DEF ObserverTypeOK, Typed, Waiting, Interrupted
<1>1. CASE UNCHANGED <<inflight, unfinished>>
  BY <1>a, <1>1 DEF Waiting, Interrupted
<1>2. ASSUME NEW p \in Task, Interrupt(p)
      PROVE  (DOMAIN unfinished = Interrupted)' /\ Waiting'
  <2>1. PICK head \in program[p] : /\ inflight' = [inflight EXCEPT ![p] = head]
                                  /\ unfinished' = Put(unfinished, <<p, head.call>>, head)
    BY <1>2 DEF Interrupt, ReadHead
  <2>2. inflight[p] = None /\ head # None
    BY <1>2, ProgramAssumption DEF Interrupt, Typed
  <2>3. inflight'[p] = head /\ \A q \in Task \ {p} : inflight'[q] = inflight[q]
    BY <1>a, <2>1
  <2>4. /\ DOMAIN unfinished' = DOMAIN unfinished \cup {<<p, head.call>>}
        /\ unfinished'[<<p, head.call>>] = head
        /\ \A k \in DOMAIN unfinished : k # <<p, head.call>> => unfinished'[k] = unfinished[k]
    BY <2>1 DEF Put
  <2>5. Interrupted' = Interrupted \cup {<<p, head.call>>}
    <3>1. \A k : k \in Interrupted' <=> \E q \in Task : inflight'[q] # None /\ k = <<q, inflight'[q].call>>
      BY DEF Interrupted
    <3>2. \A k : k \in Interrupted <=> \E q \in Task : inflight[q] # None /\ k = <<q, inflight[q].call>>
      BY DEF Interrupted
    <3> QED
      BY <2>2, <2>3, <3>1, <3>2
  <2>6. ASSUME NEW q \in Task, inflight'[q] # None
        PROVE  unfinished'[<<q, inflight'[q].call>>] = inflight'[q]
    BY <1>a, <2>3, <2>4, <2>6
  <2> QED
    BY <1>a, <2>4, <2>5, <2>6 DEF Waiting
<1>3. ASSUME NEW p \in Task, Resume(p)
      PROVE  (DOMAIN unfinished = Interrupted)' /\ Waiting'
  <2>1. /\ inflight[p] # None /\ inflight' = [inflight EXCEPT ![p] = None]
        /\ unfinished' = Drop(unfinished, <<p, inflight[p].call>>)
    BY <1>3, ResumeReads
  <2>3. inflight'[p] = None /\ \A q \in Task \ {p} : inflight'[q] = inflight[q]
    BY <1>a, <2>1
  <2>4. /\ DOMAIN unfinished' = DOMAIN unfinished \ {<<p, inflight[p].call>>}
        /\ \A k \in DOMAIN unfinished \ {<<p, inflight[p].call>>} : unfinished'[k] = unfinished[k]
    BY <2>1 DEF Drop
  <2>5. Interrupted' = Interrupted \ {<<p, inflight[p].call>>}
    <3>1. \A k : k \in Interrupted' <=> \E q \in Task : inflight'[q] # None /\ k = <<q, inflight'[q].call>>
      BY DEF Interrupted
    <3>2. \A k : k \in Interrupted <=> \E q \in Task : inflight[q] # None /\ k = <<q, inflight[q].call>>
      BY DEF Interrupted
    <3> QED
      BY <2>1, <2>3, <3>1, <3>2
  <2>6. ASSUME NEW q \in Task, inflight'[q] # None
        PROVE  unfinished'[<<q, inflight'[q].call>>] = inflight'[q]
    BY <1>a, <2>3, <2>4, <2>6
  <2> QED
    BY <1>a, <2>4, <2>5, <2>6 DEF Waiting
<1>4. ASSUME NEW p \in Task, Call(p) \/ Exit(p)  PROVE UNCHANGED <<inflight, unfinished>>
  BY <1>4, CallReads DEF Exit, parser
<1>5. Garble => UNCHANGED <<inflight, unfinished>>
  BY DEF Garble, kernel, parser
<1> QED
  BY <1>1, <1>2, <1>3, <1>4, <1>5 DEF ObserverNext

\* The types.
LEMMA TypeStep ==
  ASSUME ObserverTypeOK, Typed, Waiting, ObserverNext
  PROVE  ObserverTypeOK'
<1>a. MaxLines \in Nat /\ lines \in Nat /\ lines <= MaxLines /\ unparsed \in 0 .. lines
  BY BoundAssumption DEF ObserverTypeOK
<1>b. lines' = lines + 1 /\ lines < MaxLines
  BY DEF ObserverNext, NewLine, Garble, Call, Interrupt, Resume, Exit
<1>c. UNCHANGED program /\ Sockets' = Sockets
  BY StepKinds DEF Sockets
<1>d. DOMAIN bound \cup DOMAIN dnsPeers \subseteq Sockets
  BY DEF ObserverTypeOK, Sockets
<1> DEFINE Good == /\ unparsed' \in 0 .. lines'
                   /\ DOMAIN bound' \cup DOMAIN dnsPeers' \subseteq Sockets
                   /\ DOMAIN executables' \subseteq Task
                   /\ \A i \in DOMAIN report' : report'[i].pid \in Task
<1>1. ASSUME NEW p \in Task, NEW head \in program[p], NEW tail \in Tails(head), Reading(p, head, tail)
      PROVE  Good
  BY <1>b, <1>1, ReadingIsTyped
<1>2. ASSUME NEW p \in Task, Call(p)  PROVE Good /\ alive' \subseteq Task
  BY <1>1, <1>2, CallReads DEF ObserverTypeOK
<1>3. ASSUME NEW p \in Task, Resume(p)  PROVE Good /\ alive' \subseteq Task
  BY <1>1, <1>3, ResumeReads DEF ObserverTypeOK
<1>4. ASSUME NEW p \in Task, Interrupt(p)  PROVE Good /\ alive' \subseteq Task
  BY <1>a, <1>b, <1>d, <1>4 DEF Interrupt, ReadHead, ObserverTypeOK
<1>5. ASSUME NEW p \in Task, Exit(p)  PROVE Good /\ alive' \subseteq Task
  <2>1. Leaving(p) /\ unparsed' = unparsed /\ alive' \subseteq Task
    BY <1>5 DEF Exit, Leaving, parser, ObserverTypeOK
  <2>2. \A i \in DOMAIN report' : report'[i].pid \in Task
    <3>1. \A i \in DOMAIN report : report'[i].pid \in Task
      BY <2>1, LeavingFacts DEF ObserverTypeOK
    <3>2. DOMAIN report = 1 .. Len(report) /\ DOMAIN report' = 1 .. Len(report) + 1 /\ Len(report) \in Nat
          /\ report'[Len(report) + 1].pid = p
      BY <2>1, LeavingFacts
    <3> QED
      BY <3>1, <3>2
  <2> QED
    BY <1>a, <1>b, <1>d, <2>1, <2>2 DEF Leaving, ObserverTypeOK
<1>6. Garble => Good /\ alive' \subseteq Task
  BY <1>a, <1>b, <1>d DEF Garble, kernel, parser, ObserverTypeOK
<1>7. Good /\ alive' \subseteq Task
  BY <1>2, <1>3, <1>4, <1>5, <1>6 DEF ObserverNext
<1>8. lines' \in 0 .. MaxLines
  BY <1>a, <1>b
<1>9. (DOMAIN unfinished = Interrupted)'
  BY HeadsStep
<1> QED
  BY <1>7, <1>8, <1>9, <1>c DEF ObserverTypeOK, Interrupted, Sockets

LEMMA TypedStep ==
  ASSUME ObserverTypeOK, Typed, Waiting, ObserverNext
  PROVE  Typed'
<1>1. UNCHANGED <<program, files>>
  BY StepKinds
<1> DEFINE Calls == /\ inflight' = [p \in Task |-> inflight'[p]]
                    /\ \A p \in Task : inflight'[p] = None \/ inflight'[p] \in program'[p]
           Ends  == \A i \in DOMAIN done' : /\ done'[i].pid \in Task
                                            /\ done'[i].head \in program[done'[i].pid]
                                            /\ done'[i].tail \in Tails(done'[i].head)
<1>2. Calls
  <2>1. ASSUME NEW p \in Task, Interrupt(p)  PROVE Calls
    BY <1>1, <2>1 DEF Interrupt, Typed
  <2>2. ASSUME NEW p \in Task, Resume(p)  PROVE Calls
    BY <1>1, <2>2 DEF Resume, Typed
  <2>3. ASSUME NEW p \in Task, Call(p) \/ Exit(p)  PROVE UNCHANGED inflight
    BY <2>3 DEF Call, Exit
  <2>4. Garble => UNCHANGED inflight
    BY DEF Garble, kernel
  <2> QED
    BY <1>1, <2>1, <2>2, <2>3, <2>4 DEF ObserverNext, Typed
<1>3. IsSeq(done') /\ IsSeq(report')
  BY StepKinds, LeavingFacts, ReadingFacts DEF Silent, Typed
<1>4. \A head : Tails(head)' = Tails(head)
  BY <1>1 DEF Tails, FileErrno
<1>5. Ends
  <2>1. CASE UNCHANGED done
    BY <2>1 DEF Typed
  <2>2. ASSUME NEW p \in Task, NEW head \in program[p], NEW tail \in Tails(head), Reading(p, head, tail)
        PROVE  Ends
    <3>1. \A i \in DOMAIN done : done'[i] = done[i]
      BY <2>2, ReadingFacts
    <3>2. DOMAIN done' = DOMAIN done \cup {Len(done) + 1}
          /\ done'[Len(done) + 1] = [pid |-> p, head |-> head, tail |-> tail]
      BY <2>2, ReadingFacts
    <3> QED
      BY <3>1, <3>2 DEF Typed
  <2> QED
    BY <2>1, <2>2, StepKinds DEF Silent, Leaving
<1> QED
  BY <1>1, <1>2, <1>3, <1>4, <1>5 DEF Typed

-----------------------------------------------------------------------------
(* The connects.                                                           *)

\* The sets of positions the properties speak of.
LEMMA Positions ==
  ASSUME Typed
  PROVE  /\ Len(done) \in Nat /\ Len(report) \in Nat
         /\ Connects \subseteq 1 .. Len(done) /\ ConnectsTold \subseteq 1 .. Len(report)
         /\ \A p : Execs(p) \subseteq 1 .. Len(done) /\ ExecsTold(p) \subseteq 1 .. Len(report)
<1>1. Len(done) \in Nat /\ Len(report) \in Nat /\ DOMAIN done = 1 .. Len(done) /\ DOMAIN report = 1 .. Len(report)
  BY SeqFacts DEF Typed
<1> QED
  BY <1>1 DEF Connects, ConnectsTold, Execs, ExecsTold

\* Nothing is stitched anew: no connect ends and none is told.
LEMMA MatchedKept ==
  ASSUME Matched, Connects' = Connects, ConnectsTold' = ConnectsTold,
         \A i \in Connects : done'[i] = done[i],
         \A j \in ConnectsTold : report'[j] = report[j]
  PROVE  Matched'
BY DEF Matched

\* A connect that ends is told as it ended.
LEMMA MatchedGrows ==
  ASSUME Typed, Matched, NEW n \in Nat, NEW m \in Nat, n > Len(done), m > Len(report),
         Connects' = Connects \cup {n}, ConnectsTold' = ConnectsTold \cup {m},
         \A i \in Connects : done'[i] = done[i],
         \A j \in ConnectsTold : report'[j] = report[j],
         report'[m].pid = done'[n].pid,
         report'[m].event = Connected(done'[n].head.peer, ResultLabel(done'[n].tail))
  PROVE  Matched'
<1>a. Connects \in SUBSET (1 .. Len(done)) /\ Len(done) \in Nat
  BY Positions
<1>b. ConnectsTold \in SUBSET (1 .. Len(report)) /\ Len(report) \in Nat
  BY Positions
<1>1. /\ Cardinality(Connects) \in Nat
      /\ Place(Connects', n) = Cardinality(Connects) + 1 /\ Cardinality(Connects') = Cardinality(Connects) + 1
  BY <1>a, LastPlace
<1>2. /\ Cardinality(ConnectsTold) \in Nat
      /\ Place(ConnectsTold', m) = Cardinality(ConnectsTold) + 1 /\ Cardinality(ConnectsTold') = Cardinality(ConnectsTold) + 1
  BY <1>b, LastPlace
<1>3. Cardinality(Connects) = Cardinality(ConnectsTold)
  BY DEF Matched
<1>4. ASSUME NEW i \in Connects
      PROVE  \E j \in ConnectsTold' : /\ Place(Connects', i) = Place(ConnectsTold', j)
                                      /\ report'[j].pid = done'[i].pid
                                      /\ report'[j].event = Connected(done'[i].head.peer, ResultLabel(done'[i].tail))
  <2>1. PICK j \in ConnectsTold : /\ Place(Connects, i) = Place(ConnectsTold, j)
                                  /\ report[j].pid = done[i].pid
                                  /\ report[j].event = Connected(done[i].head.peer, ResultLabel(done[i].tail))
    BY DEF Matched
  <2>2. Place(Connects \cup {n}, i) = Place(Connects, i)
    BY <1>a, PlaceKept
  <2>3. Place(ConnectsTold \cup {m}, j) = Place(ConnectsTold, j)
    BY <1>b, <2>1, PlaceKept
  <2> QED
    BY <2>1, <2>2, <2>3
<1>5. \E j \in ConnectsTold' : /\ Place(Connects', n) = Place(ConnectsTold', j)
                               /\ report'[j].pid = done'[n].pid
                               /\ report'[j].event = Connected(done'[n].head.peer, ResultLabel(done'[n].tail))
  BY <1>1, <1>2, <1>3
<1> QED
  BY <1>1, <1>2, <1>3, <1>4, <1>5 DEF Matched

\* An exit is no connect and no exec.
LEMMA LeavingTells ==
  ASSUME Typed, NEW p, Leaving(p)
  PROVE  /\ Connects' = Connects /\ ConnectsTold' = ConnectsTold
         /\ \A q : Execs(q)' = Execs(q) /\ ExecsTold(q)' = ExecsTold(q)
<1>1. /\ UNCHANGED done /\ Len(report) \in Nat /\ DOMAIN report = 1 .. Len(report) /\ DOMAIN report' = 1 .. Len(report) + 1
      /\ \A i \in DOMAIN report : report'[i] = report[i]
      /\ report'[Len(report) + 1].event.kind = "exited"
  BY LeavingFacts
<1> QED
  BY <1>1 DEF Connects, ConnectsTold, Execs, ExecsTold

\* Reading a connect to an address tells one connect.
LEMMA ReadingConnect ==
  ASSUME Typed, NEW p \in Task, NEW head \in program[p], NEW tail \in Tails(head), Reading(p, head, tail),
         head.call = "connect", head.peer.family = "inet"
  PROVE  /\ Connects' = Connects \cup {Len(done) + 1} /\ ConnectsTold' = ConnectsTold \cup {Len(report) + 1}
         /\ report'[Len(report) + 1].event = Connected(head.peer, ResultLabel(tail))
         /\ report'[Len(report) + 1].pid = p
<1> DEFINE es == LineEvents(p, head, tail)
<1>1. es = <<Connected(head.peer, ResultLabel(tail))>>
  <2>1. head.peer.family # "unix" /\ head.peer.family # "other"
    OBVIOUS
  <2>2. ConnectEvents(head, tail) = <<Connected(head.peer, ResultLabel(tail))>>
    BY <2>1, Zenon DEF ConnectEvents
  <2> QED
    BY <2>2, LineOfConnect
<1>2. Len(es) = 1 /\ es[1] = Connected(head.peer, ResultLabel(tail))
  BY <1>1, OneIsSeq
<1> HIDE DEF es
<1>3. /\ Len(report) \in Nat /\ DOMAIN report = 1 .. Len(report) /\ DOMAIN report' = 1 .. Len(report) + 1
      /\ \A i \in DOMAIN report : report'[i] = report[i]
      /\ report'[Len(report) + 1] = Envelope(p, executables', es[1])
  <2>1. es = LineEvents(p, head, tail)
    BY DEF es
  <2>2. /\ Len(report) \in Nat /\ DOMAIN report = 1 .. Len(report)
        /\ DOMAIN report' = 1 .. Len(report) + Len(es)
        /\ \A i \in DOMAIN report : report'[i] = report[i]
        /\ \A k \in 1 .. Len(es) : report'[Len(report) + k] = Envelope(p, executables', es[k])
    BY <2>1, ReadingEvents
  <2> QED
    BY <1>2, <2>2
<1>4. report'[Len(report) + 1].event = Connected(head.peer, ResultLabel(tail)) /\ report'[Len(report) + 1].pid = p
  BY <1>2, <1>3 DEF Envelope
<1>5. ConnectsTold' = ConnectsTold \cup {Len(report) + 1}
  BY <1>3, <1>4 DEF ConnectsTold, Connected
<1>6. Connects' = Connects \cup {Len(done) + 1}
  <2>1. DOMAIN done' = DOMAIN done \cup {Len(done) + 1}
    BY ReadingFacts
  <2>2. \A i \in DOMAIN done : done'[i] = done[i]
    BY ReadingFacts
  <2>3. done'[Len(done) + 1] = [pid |-> p, head |-> head, tail |-> tail]
    BY ReadingFacts
  <2> QED
    BY <2>1, <2>2, <2>3 DEF Connects
<1> QED
  BY <1>4, <1>5, <1>6

\* Reading another call tells none.
LEMMA ReadingNoConnect ==
  ASSUME Typed, NEW p \in Task, NEW head \in program[p], NEW tail \in Tails(head), Reading(p, head, tail),
         ~ (head.call = "connect" /\ head.peer.family = "inet")
  PROVE  Connects' = Connects /\ ConnectsTold' = ConnectsTold
<1>a. \A i \in DOMAIN report' \ DOMAIN report : Says(p, head, tail, report'[i].event)
  BY ReadingFacts
<1>1. \A i \in DOMAIN report' \ DOMAIN report : report'[i].event.kind # "connect"
  BY <1>a DEF Says
<1>2. DOMAIN report \subseteq DOMAIN report' /\ \A i \in DOMAIN report : report'[i] = report[i]
  BY ReadingFacts
<1>3. Connects' = Connects
  <2>1. /\ DOMAIN done' = DOMAIN done \cup {Len(done) + 1}
        /\ \A i \in DOMAIN done : done'[i] = done[i]
        /\ done'[Len(done) + 1] = [pid |-> p, head |-> head, tail |-> tail]
    BY ReadingFacts, Zenon
  <2> QED
    BY <2>1 DEF Connects
<1> QED
  BY <1>1, <1>2, <1>3 DEF ConnectsTold

LEMMA MatchedStep ==
  ASSUME ObserverTypeOK, Typed, Waiting, Matched, ObserverNext
  PROVE  Matched'
<1>1. CASE Silent
  BY <1>1 DEF Silent, Matched, Connects, ConnectsTold
<1>2. ASSUME NEW p \in Task, Leaving(p)  PROVE Matched'
  <2>1. Connects' = Connects /\ ConnectsTold' = ConnectsTold
    BY <1>2, LeavingTells
  <2>2. \A i \in Connects : done'[i] = done[i]
    BY <1>2, LeavingFacts
  <2>3. \A j \in ConnectsTold : report'[j] = report[j]
    BY <1>2, LeavingFacts DEF ConnectsTold
  <2> QED
    BY <2>1, <2>2, <2>3, MatchedKept
<1>3. ASSUME NEW p \in Task, NEW head \in program[p], NEW tail \in Tails(head), Reading(p, head, tail)
      PROVE  Matched'
  <2>1. \A i \in Connects : done'[i] = done[i]
    BY <1>3, ReadingFacts DEF Connects
  <2>2. \A j \in ConnectsTold : report'[j] = report[j]
    BY <1>3, ReadingFacts DEF ConnectsTold
  <2>3. CASE head.call = "connect" /\ head.peer.family = "inet"
    <3> DEFINE n == Len(done) + 1
               m == Len(report) + 1
    <3>1. n \in Nat /\ m \in Nat /\ n > Len(done) /\ m > Len(report)
      BY Positions
    <3>2. /\ Connects' = Connects \cup {n} /\ ConnectsTold' = ConnectsTold \cup {m}
          /\ report'[m].event = Connected(head.peer, ResultLabel(tail)) /\ report'[m].pid = p
      BY <1>3, <2>3, ReadingConnect
    <3>3. done'[n] = [pid |-> p, head |-> head, tail |-> tail]
      BY <1>3, ReadingFacts
    <3>4. /\ report'[m].pid = done'[n].pid
          /\ report'[m].event = Connected(done'[n].head.peer, ResultLabel(done'[n].tail))
      BY <3>2, <3>3
    <3> HIDE DEF n, m
    <3> QED
      BY <2>1, <2>2, <3>1, <3>2, <3>4, MatchedGrows
  <2>4. CASE ~ (head.call = "connect" /\ head.peer.family = "inet")
    BY <1>3, <2>1, <2>2, <2>4, ReadingNoConnect, MatchedKept
  <2> QED
    BY <2>3, <2>4
<1> QED
  BY <1>1, <1>2, <1>3, StepKinds

-----------------------------------------------------------------------------
(* The programs the tasks run.                                             *)

\* Sets of positions as large as one another are both empty or neither.
LEMMA SameSize ==
  ASSUME NEW n \in Nat, NEW I \in SUBSET (1 .. n), NEW m \in Nat, NEW J \in SUBSET (1 .. m),
         Cardinality(I) = Cardinality(J)
  PROVE  I = {} <=> J = {}
<1>1. IsFiniteSet(I) /\ IsFiniteSet(J)
  <2>1. IsFiniteSet(1 .. n) /\ IsFiniteSet(1 .. m)
    BY FS_Interval
  <2> QED
    BY <2>1, FS_Subset
<1>2. Cardinality(I) = 0 <=> I = {}
  BY <1>1, FS_EmptySet
<1>3. Cardinality(J) = 0 <=> J = {}
  BY <1>1, FS_EmptySet
<1> QED
  BY <1>2, <1>3

\* What a call on a path may return.
LEMMA FileTails ==
  ASSUME NEW head, head.call \in {"execve", "openat", "stat"}, NEW tail \in Tails(head)
  PROVE  /\ tail.errno \in {"ok", "?", "ENOENT", "EACCES"}
         /\ Errno(tail) = None <=> tail.errno \in {"ok", "?"}
<1>1. FileErrno(head) \in {"ENOENT", "EACCES", "ok"}
  BY Zenon DEF FileErrno
<1>2. tail.errno = FileErrno(head) \/ tail.errno = "?"
  BY DEF Tails, Files
<1> QED
  BY <1>1, <1>2, NoneAssumption DEF Errno

\* An exec that succeeds is told, and is the program its task runs from then.
LEMMA ReadingExec ==
  ASSUME Typed, NEW p \in Task, NEW head \in program[p], NEW tail \in Tails(head), Reading(p, head, tail),
         head.call = "execve", tail.errno = "ok"
  PROVE  /\ DOMAIN report' = DOMAIN report \cup {Len(report) + 1}
         /\ Execs(p)' = Execs(p) \cup {Len(done) + 1} /\ ExecsTold(p)' = ExecsTold(p) \cup {Len(report) + 1}
         /\ \A q : q # p => Execs(q)' = Execs(q) /\ ExecsTold(q)' = ExecsTold(q)
         /\ \A q : q # p => Lookup(executables', q) = Lookup(executables, q)
         /\ Lookup(executables', p) = head.path
         /\ report'[Len(report) + 1].event = Execed(head.path, None)
<1> DEFINE es == LineEvents(p, head, tail)
<1>1. es = <<Execed(head.path, None)>>
  BY LineOfExec DEF Errno
<1>2. Len(es) = 1 /\ es[1] = Execed(head.path, None)
  BY <1>1, OneIsSeq
<1> HIDE DEF es
<1>3. /\ Len(report) \in Nat /\ DOMAIN report = 1 .. Len(report) /\ DOMAIN report' = 1 .. Len(report) + 1
      /\ \A i \in DOMAIN report : report'[i] = report[i]
      /\ report'[Len(report) + 1] = Envelope(p, executables', es[1])
  <2>1. es = LineEvents(p, head, tail)
    BY DEF es
  <2>2. /\ Len(report) \in Nat /\ DOMAIN report = 1 .. Len(report)
        /\ DOMAIN report' = 1 .. Len(report) + Len(es)
        /\ \A i \in DOMAIN report : report'[i] = report[i]
        /\ \A k \in 1 .. Len(es) : report'[Len(report) + k] = Envelope(p, executables', es[k])
    BY <2>1, ReadingEvents
  <2> QED
    BY <1>2, <2>2
<1>4. report'[Len(report) + 1].event = Execed(head.path, None) /\ report'[Len(report) + 1].pid = p
  BY <1>2, <1>3 DEF Envelope
<1>5. DOMAIN report' = DOMAIN report \cup {Len(report) + 1}
  BY <1>3
<1>6. ExecsTold(p)' = ExecsTold(p) \cup {Len(report) + 1} /\ \A q : q # p => ExecsTold(q)' = ExecsTold(q)
  BY <1>3, <1>4, <1>5 DEF ExecsTold, Execed
<1>7. Execs(p)' = Execs(p) \cup {Len(done) + 1} /\ \A q : q # p => Execs(q)' = Execs(q)
  <2>1. DOMAIN done' = DOMAIN done \cup {Len(done) + 1}
    BY ReadingFacts
  <2>2. \A i \in DOMAIN done : done'[i] = done[i]
    BY ReadingFacts
  <2>3. done'[Len(done) + 1] = [pid |-> p, head |-> head, tail |-> tail]
    BY ReadingFacts
  <2> QED
    BY <2>1, <2>2, <2>3 DEF Execs
<1>8. executables' = Put(executables, p, head.path)
  BY DEF Reading, ReadCall, ExecutablesAfter
<1>9. Lookup(executables', p) = head.path /\ \A q : q # p => Lookup(executables', q) = Lookup(executables, q)
  BY <1>8 DEF Lookup, Put
<1> QED
  BY <1>4, <1>5, <1>6, <1>7, <1>9

\* Another call leaves the programs as they are.
LEMMA ReadingNoExec ==
  ASSUME Typed, NEW p \in Task, NEW head \in program[p], NEW tail \in Tails(head), Reading(p, head, tail),
         ~ (head.call = "execve" /\ tail.errno = "ok")
  PROVE  executables' = executables /\ \A q : Execs(q)' = Execs(q) /\ ExecsTold(q)' = ExecsTold(q)
<1>1. executables' = executables
  BY DEF Reading, ReadCall, ExecutablesAfter
<1>2. \A i \in DOMAIN report' \ DOMAIN report : Says(p, head, tail, report'[i].event)
  BY ReadingFacts
<1>3. ASSUME NEW i \in DOMAIN report' \ DOMAIN report
      PROVE  ~ (report'[i].event.kind = "exec" /\ report'[i].event.errno = None)
  <2>1. SUFFICES ASSUME report'[i].event.kind = "exec", report'[i].event.errno = None  PROVE FALSE
    OBVIOUS
  <2>2. head.call = "execve" /\ tail.errno # "?" /\ report'[i].event = Execed(head.path, Errno(tail))
    BY <1>2, <2>1 DEF Says
  <2>3. Errno(tail) = None
    BY <2>1, <2>2 DEF Execed
  <2> QED
    BY <2>2, <2>3, FileTails
<1>4. DOMAIN report \subseteq DOMAIN report' /\ \A i \in DOMAIN report : report'[i] = report[i]
  BY ReadingFacts
<1>5. \A q : ExecsTold(q)' = ExecsTold(q)
  BY <1>3, <1>4 DEF ExecsTold
<1>6. \A q : Execs(q)' = Execs(q)
  <2>1. DOMAIN done' = DOMAIN done \cup {Len(done) + 1}
    BY ReadingFacts
  <2>2. \A i \in DOMAIN done : done'[i] = done[i]
    BY ReadingFacts
  <2>3. done'[Len(done) + 1] = [pid |-> p, head |-> head, tail |-> tail]
    BY ReadingFacts
  <2> QED
    BY <2>1, <2>2, <2>3 DEF Execs
<1> QED
  BY <1>1, <1>5, <1>6

\* One task's part of Running.
Runs(p) ==
  /\ Cardinality(Execs(p)) = Cardinality(ExecsTold(p))
  /\ Execs(p) = {} => Lookup(executables, p) = None
  /\ Execs(p) # {} => \E j \in Execs(p) : /\ Place(Execs(p), j) = Cardinality(Execs(p))
                                         /\ Lookup(executables, p) = done[j].head.path

LEMMA RunningStep ==
  ASSUME ObserverTypeOK, Typed, Waiting, Running, ObserverNext
  PROVE  Running'
<1>a. \A q \in Task : Runs(q)
  BY DEF Running, Runs
<1>b. ASSUME NEW q \in Task, Execs(q)' = Execs(q), ExecsTold(q)' = ExecsTold(q),
             Lookup(executables', q) = Lookup(executables, q),
             \A i \in DOMAIN done : done'[i] = done[i]
      PROVE  Runs(q)'
  BY <1>a, <1>b DEF Runs, Execs
<1>1. CASE Silent
  BY <1>1 DEF Silent, Running, Execs, ExecsTold
<1>2. ASSUME NEW p \in Task, Leaving(p)  PROVE Running'
  <2>1. \A q \in Task : Runs(q)'
    BY <1>2, <1>b, LeavingTells, LeavingFacts
  <2> QED
    BY <2>1 DEF Running, Runs
<1>3. ASSUME NEW p \in Task, NEW head \in program[p], NEW tail \in Tails(head), Reading(p, head, tail)
      PROVE  Running'
  <2>1. \A i \in DOMAIN done : done'[i] = done[i]
    BY <1>3, ReadingFacts
  <2>2. CASE ~ (head.call = "execve" /\ tail.errno = "ok")
    <3>1. executables' = executables /\ \A q : Execs(q)' = Execs(q) /\ ExecsTold(q)' = ExecsTold(q)
      BY <1>3, <2>2, ReadingNoExec
    <3>2. \A q \in Task : Runs(q)'
      BY <1>b, <2>1, <3>1
    <3> QED
      BY <3>2 DEF Running, Runs
  <2>3. CASE head.call = "execve" /\ tail.errno = "ok"
    <3> DEFINE n == Len(done) + 1
               m == Len(report) + 1
    <3>1. /\ Execs(p)' = Execs(p) \cup {n} /\ ExecsTold(p)' = ExecsTold(p) \cup {m}
          /\ \A q : q # p => Execs(q)' = Execs(q) /\ ExecsTold(q)' = ExecsTold(q)
          /\ \A q : q # p => Lookup(executables', q) = Lookup(executables, q)
          /\ Lookup(executables', p) = head.path
      BY <1>3, <2>3, ReadingExec
    <3>2. n \in Nat /\ m \in Nat /\ n > Len(done) /\ m > Len(report)
      BY Positions
    <3>3. done'[n].head = head
      <4>1. done'[n] = [pid |-> p, head |-> head, tail |-> tail]
        BY <1>3, ReadingFacts
      <4> QED
        BY <4>1
    <3> HIDE DEF n, m
    <3>a. Execs(p) \in SUBSET (1 .. Len(done)) /\ Len(done) \in Nat
      BY Positions
    <3>b. ExecsTold(p) \in SUBSET (1 .. Len(report)) /\ Len(report) \in Nat
      BY Positions
    <3>4. /\ Place(Execs(p) \cup {n}, n) = Cardinality(Execs(p)) + 1
          /\ Cardinality(Execs(p) \cup {n}) = Cardinality(Execs(p)) + 1
      BY <3>2, <3>a, LastPlace
    <3>5. Cardinality(ExecsTold(p) \cup {m}) = Cardinality(ExecsTold(p)) + 1
      BY <3>2, <3>b, LastPlace
    <3>6. Runs(p)'
      BY <1>a, <3>1, <3>3, <3>4, <3>5 DEF Runs
    <3>7. \A q \in Task : q # p => Runs(q)'
      BY <1>b, <2>1, <3>1
    <3> QED
      BY <3>6, <3>7 DEF Running, Runs
  <2> QED
    BY <2>2, <2>3
<1> QED
  BY <1>1, <1>2, <1>3, StepKinds

-----------------------------------------------------------------------------
(* Who ran what when an event was told.                                    *)

\* One event's part of Attributed.
NamesItsProgram(i) ==
  LET p    == report[i].pid
      told == {j \in ExecsTold(p) : j <= i}
  IN  IF told = {} THEN report[i].executable = None
      ELSE \E j \in Execs(p) :
             Place(Execs(p), j) = Cardinality(told) /\ report[i].executable = done[j].head.path

\* An event told before keeps its program: later execs come after it.
LEMMA StillNames ==
  ASSUME Typed, NEW i \in DOMAIN report, NamesItsProgram(i), report'[i] = report[i],
         NEW p, report[i].pid = p,
         NEW n \in Nat, NEW m \in Nat, n > Len(done), m > Len(report),
         \/ Execs(p)' = Execs(p) /\ ExecsTold(p)' = ExecsTold(p)
         \/ Execs(p)' = Execs(p) \cup {n} /\ ExecsTold(p)' = ExecsTold(p) \cup {m},
         \A j \in DOMAIN done : done'[j] = done[j]
  PROVE  NamesItsProgram(i)'
<1>1. i \in Nat /\ i < m
  <2>1. DOMAIN report = 1 .. Len(report) /\ Len(report) \in Nat
    BY SeqFacts DEF Typed
  <2> QED
    BY <2>1
<1>2. {j \in ExecsTold(p)' : j <= i} = {j \in ExecsTold(p) : j <= i}
  <2>1. ExecsTold(p)' = ExecsTold(p) \/ ExecsTold(p)' = ExecsTold(p) \cup {m}
    OBVIOUS
  <2>2. ~ (m <= i)
    BY <1>1
  <2> QED
    BY <2>1, <2>2
<1>3. \A j \in Execs(p) : j \in Execs(p)' /\ Place(Execs(p)', j) = Place(Execs(p), j) /\ done'[j] = done[j]
  <2>a. Execs(p) \in SUBSET (1 .. Len(done)) /\ Len(done) \in Nat
    BY Positions
  <2>1. ASSUME NEW j \in Execs(p)  PROVE Place(Execs(p) \cup {n}, j) = Place(Execs(p), j)
    BY <2>a, PlaceKept
  <2> QED
    BY <2>1 DEF Execs, Place
<1> QED
  BY <1>2, <1>3 DEF NamesItsProgram

\* An event told last names what its task runs now.
LEMMA NewNames ==
  ASSUME Typed', Running', NEW i, NEW p \in Task, report'[i].pid = p,
         report'[i].executable = Lookup(executables', p),
         \A j \in ExecsTold(p)' : j <= i
  PROVE  NamesItsProgram(i)'
<1> DEFINE I == Execs(p)'
           J == ExecsTold(p)'
           n == Len(done')
           m == Len(report')
<1>1. n \in Nat /\ m \in Nat /\ I \subseteq 1 .. n /\ J \subseteq 1 .. m
  <2>1. IsSeq(done') /\ IsSeq(report')
    BY DEF Typed
  <2>2. n \in Nat /\ m \in Nat /\ DOMAIN done' = 1 .. n /\ DOMAIN report' = 1 .. m
    BY <2>1, SeqFacts
  <2> QED
    BY <2>2 DEF Execs, ExecsTold
<1>2. /\ Cardinality(I) = Cardinality(J)
      /\ I = {} => report'[i].executable = None
      /\ I # {} => \E j \in I : /\ Place(I, j) = Cardinality(I)
                               /\ report'[i].executable = done'[j].head.path
  BY DEF Running
<1>3. {j \in J : j <= i} = J
  OBVIOUS
<1> HIDE DEF I, J, n, m
<1>4. I = {} <=> J = {}
  BY <1>1, <1>2, SameSize
<1> QED
  BY <1>2, <1>3, <1>4 DEF NamesItsProgram, I, J

LEMMA AttributedStep ==
  ASSUME ObserverTypeOK, Typed, Waiting, Attributed, Typed', Running', ObserverNext
  PROVE  Attributed'
<1>a. \A i \in DOMAIN report : NamesItsProgram(i) /\ report[i].pid \in Task
  BY DEF Attributed, NamesItsProgram, ObserverTypeOK
<1>b. Len(done) + 1 \in Nat /\ Len(report) + 1 \in Nat /\ Len(done) + 1 > Len(done) /\ Len(report) + 1 > Len(report)
  BY Positions
<1>c. DOMAIN report = 1 .. Len(report) /\ Len(report) \in Nat
  BY SeqFacts DEF Typed
<1>d. Attributed' <=> \A i \in DOMAIN report' : NamesItsProgram(i)'
  BY DEF Attributed, NamesItsProgram
<1>1. CASE Silent
  <2>1. UNCHANGED <<done, report>> /\ \A q : Execs(q)' = Execs(q) /\ ExecsTold(q)' = ExecsTold(q)
    BY <1>1 DEF Silent, Execs, ExecsTold
  <2>2. \A i : NamesItsProgram(i)' = NamesItsProgram(i)
    BY <2>1 DEF NamesItsProgram
  <2> QED
    BY <1>a, <1>d, <2>1, <2>2
<1>2. ASSUME NEW p \in Task, Leaving(p)  PROVE Attributed'
  <2>1. ASSUME NEW i \in DOMAIN report  PROVE NamesItsProgram(i)'
    <3>1. /\ report'[i] = report[i] /\ \A j \in DOMAIN done : done'[j] = done[j]
          /\ \A q : Execs(q)' = Execs(q) /\ ExecsTold(q)' = ExecsTold(q)
      BY <1>2, LeavingFacts, LeavingTells
    <3> QED
      BY <1>a, <1>b, <3>1, StillNames
  <2>2. PICK m \in Nat : m = Len(report) + 1
    BY <1>b
  <2>3. /\ report'[m].pid = p /\ report'[m].executable = Lookup(executables', p)
        /\ DOMAIN report' = 1 .. m
    <3>1. executables' = executables /\ report'[Len(report) + 1].pid = p
          /\ report'[Len(report) + 1].executable = Lookup(executables, p)
      BY <1>2, LeavingFacts
    <3>2. DOMAIN report' = 1 .. Len(report) + 1
      BY <1>2, LeavingFacts
    <3> QED
      BY <2>2, <3>1, <3>2
  <2>4. \A j \in ExecsTold(p)' : j <= m
    BY <2>3 DEF ExecsTold
  <2>5. NamesItsProgram(m)'
    BY <2>3, <2>4, NewNames
  <2>6. \A i \in DOMAIN report' : i \in DOMAIN report \/ i = m
    BY <1>c, <2>2, <2>3
  <2> QED
    BY <1>d, <2>1, <2>5, <2>6
<1>3. ASSUME NEW p \in Task, NEW head \in program[p], NEW tail \in Tails(head), Reading(p, head, tail)
      PROVE  Attributed'
  <2>1. /\ \A j \in DOMAIN done : done'[j] = done[j]
        /\ \A i \in DOMAIN report : report'[i] = report[i]
        /\ \A i \in DOMAIN report' \ DOMAIN report :
             report'[i].pid = p /\ report'[i].executable = Lookup(executables', p)
    BY <1>3, ReadingFacts
  <2>2. \A q : \/ Execs(q)' = Execs(q) /\ ExecsTold(q)' = ExecsTold(q)
               \/ Execs(q)' = Execs(q) \cup {Len(done) + 1} /\ ExecsTold(q)' = ExecsTold(q) \cup {Len(report) + 1}
    <3>1. CASE head.call = "execve" /\ tail.errno = "ok"
      <4>1. Execs(p)' = Execs(p) \cup {Len(done) + 1} /\ ExecsTold(p)' = ExecsTold(p) \cup {Len(report) + 1}
        BY <1>3, <3>1, ReadingExec
      <4>2. \A q : q # p => Execs(q)' = Execs(q) /\ ExecsTold(q)' = ExecsTold(q)
        BY <1>3, <3>1, ReadingExec
      <4> QED
        BY <4>1, <4>2
    <3>2. CASE ~ (head.call = "execve" /\ tail.errno = "ok")
      BY <1>3, <3>2, ReadingNoExec
    <3> QED
      BY <3>1, <3>2
  <2>3. ASSUME NEW i \in DOMAIN report  PROVE NamesItsProgram(i)'
    BY <1>a, <1>b, <2>1, <2>2, StillNames
  <2>4. ASSUME NEW i \in DOMAIN report' \ DOMAIN report  PROVE NamesItsProgram(i)'
    <3>1. i \in Nat /\ i > Len(report)
      <4>1. IsSeq(report')
        BY <1>3, ReadingFacts
      <4>2. Len(report') \in Nat /\ DOMAIN report' = 1 .. Len(report')
        BY <4>1, SeqFacts
      <4> QED
        BY <1>c, <4>2
    <3>2. \A j \in ExecsTold(p)' : j <= i
      <4>1. \A j \in ExecsTold(p) : j <= Len(report) /\ j \in Nat
        BY <1>c DEF ExecsTold
      <4>2. \A j \in ExecsTold(p)' : j \in ExecsTold(p) \/ j = Len(report) + 1
        BY <2>2
      <4> QED
        BY <1>c, <3>1, <4>1, <4>2
    <3> QED
      BY <2>1, <3>2, NewNames
  <2> QED
    BY <1>d, <2>3, <2>4
<1> QED
  BY <1>1, <1>2, <1>3, StepKinds

-----------------------------------------------------------------------------
(* The resolvers.                                                          *)

\* To the m calls that ended one is added.
Grown(m) ==
  /\ m \in Nat /\ Len(done) = m /\ Len(done') = m + 1
  /\ DOMAIN done = 1 .. m /\ DOMAIN done' = 1 .. m + 1
  /\ \A n \in DOMAIN done : done'[n] = done[n]

LEMMA ReadingGrows ==
  ASSUME Typed, NEW p \in Task, NEW head \in program[p], NEW tail \in Tails(head), Reading(p, head, tail)
  PROVE  \E m : Grown(m) /\ done'[m + 1] = [pid |-> p, head |-> head, tail |-> tail]
<1>1. Len(done) \in Nat /\ DOMAIN done = 1 .. Len(done)
  BY SeqFacts DEF Typed
<1>2. DOMAIN done' = DOMAIN done \cup {Len(done) + 1} /\ \A n \in DOMAIN done : done'[n] = done[n]
  BY ReadingFacts
<1>3. done'[Len(done) + 1] = [pid |-> p, head |-> head, tail |-> tail]
  BY ReadingFacts
<1>4. DOMAIN done' = 1 .. Len(done) + 1
  BY <1>1, <1>2
<1>5. Len(done') = Len(done) + 1
  BY Appended DEF Reading, Ended, Typed
<1> QED
  BY <1>1, <1>2, <1>3, <1>4, <1>5 DEF Grown

\* A call that has ended names what it named; and no other does, but the last.
LEMMA NamingGrows ==
  ASSUME NEW m, Grown(m), NEW q, NEW fd
  PROVE  /\ m \in Nat
         /\ \A n \in 1 .. m : StatedIn(n)' = StatedIn(n) /\ (n \in Naming(q, fd)' <=> n \in Naming(q, fd))
         /\ \A n \in Naming(q, fd)' : n \in 1 .. m \/ n = m + 1
         /\ \A n \in Naming(q, fd) : n \in 1 .. m
<1>1. \A n \in 1 .. m : StatedIn(n)' = StatedIn(n)
  BY DEF Grown, StatedIn
<1>2. \A n \in 1 .. m : n \in Naming(q, fd)' <=> n \in Naming(q, fd)
  BY <1>1 DEF Grown, Naming
<1>3. Naming(q, fd)' \subseteq 1 .. m + 1 /\ Naming(q, fd) \subseteq 1 .. m
  BY DEF Naming, Grown
<1>4. m \in Nat
  BY DEF Grown
<1>5. \A n \in 1 .. m + 1 : n \in 1 .. m \/ n = m + 1
  BY <1>4
<1> QED
  BY <1>1, <1>2, <1>3, <1>4, <1>5

\* The resolver last named before a call that has ended, or is to end next,
\* stays the last.
LEMMA StillLast ==
  ASSUME NEW m, Grown(m), NEW n \in 1 .. m + 1, NEW q, NEW fd, NEW address, LastResolver(n, q, fd, address)
  PROVE  LastResolver(n, q, fd, address)'
<1>1. PICK j \in Naming(q, fd) :
        /\ j < n /\ Resolver(StatedIn(j)) /\ StatedIn(j).address = address
        /\ \A k \in Naming(q, fd) : j < k /\ k < n => ~Resolver(StatedIn(k))
  BY DEF LastResolver
<1>2. j \in 1 .. m /\ j \in Naming(q, fd)' /\ StatedIn(j)' = StatedIn(j)
  BY NamingGrows
<1>3. ASSUME NEW k \in Naming(q, fd)', j < k, k < n  PROVE ~Resolver(StatedIn(k)')
  <2>1. k \in 1 .. m
    <3>1. k \in 1 .. m \/ k = m + 1
      BY <1>3, NamingGrows
    <3>2. m \in Nat
      BY NamingGrows
    <3> QED
      BY <1>3, <3>1, <3>2
  <2>2. k \in Naming(q, fd) /\ StatedIn(k)' = StatedIn(k)
    BY <1>3, <2>1, NamingGrows
  <2> QED
    BY <1>1, <1>3, <2>2
<1> QED
  BY <1>1, <1>2, <1>3 DEF LastResolver

\* A call that names no resolver on a descriptor leaves the last one named.
LEMMA LastKept ==
  ASSUME NEW m, Grown(m), NEW q, NEW fd, NEW address, LastResolver(m + 1, q, fd, address),
         m + 1 \in Naming(q, fd)' => ~Resolver(StatedIn(m + 1)')
  PROVE  LastResolver(m + 2, q, fd, address)'
<1>1. PICK j \in Naming(q, fd) :
        /\ j < m + 1 /\ Resolver(StatedIn(j)) /\ StatedIn(j).address = address
        /\ \A k \in Naming(q, fd) : j < k /\ k < m + 1 => ~Resolver(StatedIn(k))
  BY DEF LastResolver
<1>2. m \in Nat /\ j \in 1 .. m /\ j \in Naming(q, fd)' /\ StatedIn(j)' = StatedIn(j)
  BY NamingGrows
<1>3. ASSUME NEW k \in Naming(q, fd)', j < k  PROVE ~Resolver(StatedIn(k)')
  <2>1. CASE k = m + 1
    BY <1>3, <2>1
  <2>2. CASE k \in 1 .. m
    <3>1. k \in Naming(q, fd) /\ StatedIn(k)' = StatedIn(k)
      BY <1>3, <2>2, NamingGrows
    <3>2. k < m + 1
      BY <1>2, <2>2
    <3> QED
      BY <1>1, <1>3, <3>1, <3>2
  <2> QED
    BY <1>3, <2>1, <2>2, NamingGrows
<1>4. j < m + 2
  BY <1>2
<1> QED
  BY <1>1, <1>2, <1>3, <1>4 DEF LastResolver

\* A call that names a resolver on a descriptor is the last to.
LEMMA NowLast ==
  ASSUME NEW m, Grown(m), NEW q, NEW fd, NEW address, m + 1 \in Naming(q, fd)',
         Resolver(StatedIn(m + 1)'), StatedIn(m + 1)'.address = address
  PROVE  LastResolver(m + 2, q, fd, address)'
<1>1. m \in Nat
  BY NamingGrows
<1>2. \A k \in Naming(q, fd)' : ~ (m + 1 < k)
  BY <1>1, NamingGrows
<1>3. m + 1 < m + 2
  BY <1>1
<1> QED
  BY <1>2, <1>3 DEF LastResolver

\* What a line states and whose descriptor it speaks of.
LEMMA ReadingNames ==
  ASSUME Typed, NEW p \in Task, NEW head \in program[p], NEW tail \in Tails(head),
         NEW m, Grown(m), done'[m + 1] = [pid |-> p, head |-> head, tail |-> tail], NEW q, NEW fd
  PROVE  /\ StatedIn(m + 1)' = Stated(head, tail)
         /\ m + 1 \in Naming(q, fd)' <=>
              /\ q = p /\ fd = head.fd /\ head.call \in {"connect"} \cup Datagrams /\ Stated(head, tail) # None
         /\ RemembersPeer(head, tail) <=>
              /\ head.call \in {"connect"} \cup Datagrams /\ Stated(head, tail) # None /\ Resolver(Stated(head, tail))
<1>1. m + 1 \in DOMAIN done'
  BY DEF Grown
<1>2. done'[m + 1].pid = p /\ done'[m + 1].head = head /\ done'[m + 1].tail = tail
  OBVIOUS
<1>3. StatedIn(m + 1)' = Stated(head, tail)
  BY <1>2 DEF StatedIn
<1>4. m + 1 \in Naming(q, fd)' <=>
        /\ q = p /\ fd = head.fd /\ head.call \in {"connect"} \cup Datagrams /\ Stated(head, tail) # None
  BY <1>1, <1>2, <1>3 DEF Naming
<1>5. head.call = "connect" => head.peer # None
  BY ProgramAssumption DEF Typed
<1>6. RemembersPeer(head, tail) <=>
        /\ head.call \in {"connect"} \cup Datagrams /\ Stated(head, tail) # None /\ Resolver(Stated(head, tail))
  BY <1>5 DEF RemembersPeer, Stated
<1> QED
  BY <1>3, <1>4, <1>6

LEMMA PeersStep ==
  ASSUME ObserverTypeOK, Typed, Waiting, Peers, ObserverNext
  PROVE  Peers'
<1>a. ASSUME UNCHANGED <<done, dnsPeers>>  PROVE Peers'
  <2>1. \A n, p, fd, address : LastResolver(n, p, fd, address)' = LastResolver(n, p, fd, address)
    BY <1>a DEF LastResolver, Naming, StatedIn
  <2> QED
    BY <1>a, <2>1 DEF Peers
<1>1. CASE Silent
  BY <1>1, <1>a DEF Silent
<1>2. ASSUME NEW p \in Task, Leaving(p)  PROVE Peers'
  BY <1>2, <1>a DEF Leaving
<1>3. ASSUME NEW p \in Task, NEW head \in program[p], NEW tail \in Tails(head), Reading(p, head, tail)
      PROVE  Peers'
  <2>1. PICK m : Grown(m) /\ done'[m + 1] = [pid |-> p, head |-> head, tail |-> tail]
    BY <1>3, ReadingGrows
  <2>2. dnsPeers' = PeersAfter(p, head, tail)
    BY <1>3 DEF Reading, ReadCall
  <2>3. ASSUME NEW q \in Task, NEW fd, <<q, fd>> \in DOMAIN dnsPeers', NEW address, dnsPeers'[<<q, fd>>] = address
        PROVE  LastResolver(m + 2, q, fd, address)'
    <3>1. CASE RemembersPeer(head, tail) /\ q = p /\ fd = head.fd
      <4>1. address = Stated(head, tail).address
        BY <2>2, <2>3, <3>1 DEF PeersAfter, Put
      <4>2. m + 1 \in Naming(q, fd)' /\ StatedIn(m + 1)' = Stated(head, tail) /\ Resolver(Stated(head, tail))
        BY <1>3, <2>1, <3>1, ReadingNames
      <4> QED
        BY <2>1, <4>1, <4>2, NowLast
    <3>2. CASE ~ (RemembersPeer(head, tail) /\ q = p /\ fd = head.fd)
      <4>1. <<q, fd>> \in DOMAIN dnsPeers /\ dnsPeers[<<q, fd>>] = address
        BY <2>2, <2>3, <3>2 DEF PeersAfter, Put
      <4>2. LastResolver(m + 1, q, fd, address)
        BY <2>1, <4>1 DEF Peers, Grown
      <4>3. m + 1 \in Naming(q, fd)' => ~Resolver(StatedIn(m + 1)')
        BY <1>3, <2>1, <3>2, ReadingNames
      <4> QED
        BY <2>1, <4>2, <4>3, LastKept
    <3> QED
      BY <3>1, <3>2
  <2>4. Len(done') + 1 = m + 2
    BY <2>1 DEF Grown
  <2> QED
    BY <2>3, <2>4 DEF Peers
<1> QED
  BY <1>1, <1>2, <1>3, StepKinds

\* A name was told of a datagram that carries it, by the server it is told
\* with.
Heard(i) ==
  report[i].event.kind = "dns" => \E n \in DOMAIN done : Carries(n, i) /\ ServedBy(n, report[i].event.server)

LEMMA StillHeard ==
  ASSUME NEW m, Grown(m), NEW i, report'[i] = report[i], Heard(i)
  PROVE  Heard(i)'
<1> SUFFICES ASSUME report[i].event.kind = "dns"
             PROVE  \E n \in DOMAIN done' : Carries(n, i)' /\ ServedBy(n, report[i].event.server)'
  BY DEF Heard
<1>1. PICK n \in DOMAIN done : Carries(n, i) /\ ServedBy(n, report[i].event.server)
  BY DEF Heard
<1>2. n \in DOMAIN done' /\ done'[n] = done[n] /\ n \in 1 .. m + 1
  BY DEF Grown
<1>3. Carries(n, i)'
  BY <1>1, <1>2 DEF Carries
<1>4. \A q, fd, a : LastResolver(n, q, fd, a) => LastResolver(n, q, fd, a)'
  BY <1>2, StillLast
<1>5. StatedIn(n)' = StatedIn(n)
  BY <1>2 DEF StatedIn
<1>6. \A server : ServedBy(n, server) => ServedBy(n, server)'
  BY <1>2, <1>4, <1>5 DEF ServedBy
<1> QED
  BY <1>1, <1>2, <1>3, <1>6

LEMMA HeardKept ==
  ASSUME UNCHANGED done, NEW i, report'[i] = report[i], Heard(i)
  PROVE  Heard(i)'
<1>1. \A n, q, fd, address : LastResolver(n, q, fd, address)' = LastResolver(n, q, fd, address)
  BY DEF LastResolver, Naming, StatedIn
<1>2. \A n : Carries(n, i)' = Carries(n, i)
  BY DEF Carries
<1>3. \A n, server : ServedBy(n, server)' = ServedBy(n, server)
  BY <1>1 DEF ServedBy, StatedIn
<1> QED
  BY <1>2, <1>3 DEF Heard

\* A name newly told is carried by the datagram just read, with its server:
\* the one it states, or the one kept for its socket.
LEMMA NowHeard ==
  ASSUME Typed, Peers, NEW p \in Task, NEW head \in program[p], NEW tail \in Tails(head), Reading(p, head, tail),
         NEW m, Grown(m), done'[m + 1] = [pid |-> p, head |-> head, tail |-> tail],
         NEW i, report'[i].pid = p, Says(p, head, tail, report'[i].event)
  PROVE  Heard(i)'
<1> SUFFICES ASSUME NEW e, e = report'[i].event, NEW server, server = e.server, e.kind = "dns"
             PROVE  \E n \in DOMAIN done' : Carries(n, i)' /\ ServedBy(n, server)'
  BY DEF Heard
<1>1. /\ head.call \in Datagrams /\ server = DatagramServer(p, head, tail) /\ server # None
      /\ \E payload \in {head.payload, tail.payload} : Holds(payload, e)
  BY DEF Says
<1>2. m + 1 \in DOMAIN done' /\ m \in Nat /\ Len(done) = m /\ m + 1 \in 1 .. m + 1
  BY DEF Grown
<1>3. done'[m + 1].pid = p /\ done'[m + 1].head = head /\ done'[m + 1].tail = tail
  OBVIOUS
<1>4. Carries(m + 1, i)'
  BY <1>1, <1>3 DEF Carries, Holds
<1>5. StatedIn(m + 1)' = Stated(head, tail)
  BY <1>3 DEF StatedIn
<1>6. CASE Stated(head, tail) = None
  <2>1. <<p, head.fd>> \in DOMAIN dnsPeers /\ server = dnsPeers[<<p, head.fd>>]
    BY <1>1, <1>6 DEF DatagramServer, Lookup
  <2>2. LastResolver(m + 1, p, head.fd, server)
    BY <1>2, <2>1 DEF Peers
  <2>3. \A a : LastResolver(m + 1, p, head.fd, a) => LastResolver(m + 1, p, head.fd, a)'
    BY <1>2, StillLast
  <2>4. \A a : LastResolver(m + 1, p, head.fd, a) => ServedBy(m + 1, a)'
    BY <1>3, <1>5, <1>6, <2>3 DEF ServedBy
  <2> QED
    BY <1>2, <1>4, <2>2, <2>4
<1>7. CASE Stated(head, tail) # None
  <2>1. Resolver(Stated(head, tail)) /\ server = Stated(head, tail).address
    BY <1>1, <1>7 DEF DatagramServer
  <2>2. \A a : Resolver(Stated(head, tail)) /\ a = Stated(head, tail).address => ServedBy(m + 1, a)'
    BY <1>5, <1>7 DEF ServedBy
  <2> QED
    BY <1>2, <1>4, <2>1, <2>2
<1> QED
  BY <1>6, <1>7

LEMMA ServersStep ==
  ASSUME ObserverTypeOK, Typed, Waiting, Peers, ServersAreResolvers, ObserverNext
  PROVE  ServersAreResolvers'
<1>a. \A i \in DOMAIN report : Heard(i)
  BY DEF ServersAreResolvers, Heard
<1>b. ASSUME \A i \in DOMAIN report' : Heard(i)'  PROVE ServersAreResolvers'
  BY <1>b DEF ServersAreResolvers, Heard
<1>1. CASE Silent
  <2>1. UNCHANGED <<done, report>>
    BY <1>1 DEF Silent
  <2>2. \A i \in DOMAIN report' : Heard(i)'
    BY <1>a, <2>1, HeardKept
  <2> QED
    BY <1>b, <2>2
<1>2. ASSUME NEW p \in Task, Leaving(p)  PROVE ServersAreResolvers'
  <2>1. /\ done' = done /\ Len(report) \in Nat /\ DOMAIN report = 1 .. Len(report) /\ DOMAIN report' = 1 .. Len(report) + 1
        /\ \A i \in DOMAIN report : report'[i] = report[i]
        /\ report'[Len(report) + 1].event.kind = "exited"
    BY <1>2, LeavingFacts
  <2>2. \A i \in DOMAIN report : Heard(i)'
    BY <1>a, <2>1, HeardKept
  <2>3. \A i \in DOMAIN report' : i \in DOMAIN report \/ report'[i].event.kind = "exited"
    BY <2>1
  <2>4. \A i \in DOMAIN report' : Heard(i)'
    BY <2>2, <2>3 DEF Heard
  <2> QED
    BY <1>b, <2>4
<1>3. ASSUME NEW p \in Task, NEW head \in program[p], NEW tail \in Tails(head), Reading(p, head, tail)
      PROVE  ServersAreResolvers'
  <2>1. PICK m : Grown(m) /\ done'[m + 1] = [pid |-> p, head |-> head, tail |-> tail]
    BY <1>3, ReadingGrows
  <2>2. ASSUME NEW i \in DOMAIN report  PROVE Heard(i)'
    <3>1. report'[i] = report[i]
      BY <1>3, ReadingFacts
    <3> QED
      BY <1>a, <2>1, <3>1, StillHeard
  <2>3. ASSUME NEW i \in DOMAIN report' \ DOMAIN report  PROVE Heard(i)'
    <3>1. report'[i].pid = p /\ Says(p, head, tail, report'[i].event)
      BY <1>3, ReadingFacts
    <3> QED
      BY <1>3, <2>1, <3>1, NowHeard
  <2> QED
    BY <1>b, <2>2, <2>3
<1> QED
  BY <1>1, <1>2, <1>3, StepKinds

-----------------------------------------------------------------------------
(* The files.                                                              *)

\* A file found in a bin directory is told.
LEMMA ReadingProbe ==
  ASSUME Typed, NEW p \in Task, NEW head \in program[p], NEW tail \in Tails(head), Reading(p, head, tail),
         head.call = "stat", tail.errno = "ok", IsExecutableProbe(head.path)
  PROVE  \E i \in DOMAIN report' : report'[i].event = Opened(head.path, None, FALSE)
<1>1. PICK es : es = LineEvents(p, head, tail)
  OBVIOUS
<1>2. es = <<Opened(head.path, None, FALSE)>>
  BY <1>1, LineOfStat DEF StatEvents, Errno
<1>3. Len(es) = 1 /\ es[1] = Opened(head.path, None, FALSE)
  BY <1>2, OneIsSeq
<1>4. /\ Len(report) \in Nat
      /\ DOMAIN report' = 1 .. Len(report) + Len(es)
      /\ \A k \in 1 .. Len(es) : report'[Len(report) + k] = Envelope(p, executables', es[k])
  BY <1>1, ReadingEvents
<1>5. Len(report) + 1 \in DOMAIN report' /\ report'[Len(report) + 1] = Envelope(p, executables', es[1])
  <2>1. Len(report) + 1 \in DOMAIN report'
    BY <1>3, <1>4
  <2>2. 1 \in 1 .. Len(es)
    BY <1>3
  <2> QED
    BY <1>4, <2>1, <2>2
<1>6. report'[Len(report) + 1].event = Opened(head.path, None, FALSE)
  BY <1>3, <1>5 DEF Envelope
<1> QED
  BY <1>5, <1>6

\* What was told or shown stays so as the call and event logs grow.
LEMMA StillTold ==
  ASSUME DOMAIN done \subseteq DOMAIN done', \A j \in DOMAIN done : done'[j] = done[j],
         DOMAIN report \subseteq DOMAIN report', \A i \in DOMAIN report : report'[i] = report[i]
  PROVE  /\ \A e : Told(e) => Told(e)'
         /\ \A head, tail : Shown(head, tail) => Shown(head, tail)'
<1>1. \A e : Told(e) => Told(e)'
  BY DEF Told, Of
<1>2. \A head, tail : Shown(head, tail) => Shown(head, tail)'
  BY DEF Shown
<1> QED
  BY <1>1, <1>2

LEMMA FilesStep ==
  ASSUME ObserverTypeOK, Typed, Waiting, FilesTold, FilesFound, ObserverNext
  PROVE  FilesTold' /\ FilesFound'
<1> DEFINE AllTold  == \A e : \A i \in DOMAIN report' : report'[i].event = e => Told(e)'
           AllShown == \A head, tail : \A j \in DOMAIN done' :
                         done'[j].head = head /\ done'[j].tail = tail => Shown(head, tail)'
<1>a. SUFFICES AllTold /\ AllShown
  BY DEF FilesTold, FilesFound
<1>1. CASE Silent
  <2>1. UNCHANGED <<done, report>>
    BY <1>1 DEF Silent
  <2>2. \A e : Told(e) => Told(e)'
    BY <2>1, StillTold
  <2>3. \A head, tail : Shown(head, tail) => Shown(head, tail)'
    BY <2>1, StillTold
  <2> QED
    BY <2>1, <2>2, <2>3 DEF FilesTold, FilesFound
<1>2. ASSUME NEW p \in Task, Leaving(p)  PROVE AllTold /\ AllShown
  <2>1. /\ done' = done /\ Len(report) \in Nat /\ DOMAIN report = 1 .. Len(report) /\ DOMAIN report' = 1 .. Len(report) + 1
        /\ \A i \in DOMAIN report : report'[i] = report[i]
        /\ report'[Len(report) + 1].event.kind = "exited"
    BY <1>2, LeavingFacts
  <2>2. DOMAIN report \subseteq DOMAIN report'
    BY <2>1
  <2>3. ASSUME NEW e, NEW i \in DOMAIN report', report'[i].event = e  PROVE Told(e)'
    <3>1. CASE i \in DOMAIN report
      <4>1. Told(e)
        BY <2>1, <2>3, <3>1 DEF FilesTold
      <4> QED
        BY <2>1, <2>2, <4>1, StillTold
    <3>2. CASE e.kind = "exited"
      BY <3>2 DEF Told
    <3> QED
      BY <2>1, <2>3, <3>1, <3>2
  <2>4. ASSUME NEW head, NEW tail, NEW j \in DOMAIN done', done'[j].head = head, done'[j].tail = tail
        PROVE  Shown(head, tail)'
    <3>1. Shown(head, tail)
      BY <2>1, <2>4 DEF FilesFound
    <3> QED
      BY <2>1, <2>2, <3>1, StillTold
  <2> QED
    BY <2>3, <2>4
<1>3. ASSUME NEW p \in Task, NEW head \in program[p], NEW tail \in Tails(head), Reading(p, head, tail)
      PROVE  AllTold /\ AllShown
  <2>1. /\ DOMAIN report \subseteq DOMAIN report' /\ \A i \in DOMAIN report : report'[i] = report[i]
        /\ \A i \in DOMAIN report' \ DOMAIN report : Says(p, head, tail, report'[i].event)
        /\ \A j \in DOMAIN done : done'[j] = done[j]
    BY <1>3, ReadingFacts
  <2>2. PICK n \in DOMAIN done' : /\ DOMAIN done' = DOMAIN done \cup {n}
                                  /\ done'[n].head = head /\ done'[n].tail = tail
    <3>1. DOMAIN done' = DOMAIN done \cup {Len(done) + 1}
      BY <1>3, ReadingFacts
    <3>2. done'[Len(done) + 1] = [pid |-> p, head |-> head, tail |-> tail]
      BY <1>3, ReadingFacts
    <3> QED
      BY <3>1, <3>2
  <2>3. ASSUME NEW e, NEW i \in DOMAIN report', report'[i].event = e  PROVE Told(e)'
    <3>1. CASE i \in DOMAIN report
      <4>1. Told(e)
        BY <2>1, <2>3, <3>1 DEF FilesTold
      <4> QED
        BY <2>1, <2>2, <4>1, StillTold
    <3>2. CASE i \notin DOMAIN report
      <4>1. Says(p, head, tail, e)
        BY <2>1, <2>3, <3>2
      <4> QED
        BY <2>2, <4>1 DEF Says, Told, Of
    <3> QED
      BY <3>1, <3>2
  <2>4. Shown(head, tail)'
    <3>1. head.call = "execve" /\ tail.errno = "ok" => \E i \in DOMAIN report' : report'[i].event = Execed(head.path, None)
      <4>1. SUFFICES ASSUME head.call = "execve", tail.errno = "ok"
                     PROVE  \E i \in DOMAIN report' : report'[i].event = Execed(head.path, None)
        OBVIOUS
      <4>2. DOMAIN report' = DOMAIN report \cup {Len(report) + 1}
        BY <1>3, <4>1, ReadingExec
      <4>3. report'[Len(report) + 1].event = Execed(head.path, None)
        BY <1>3, <4>1, ReadingExec
      <4> QED
        BY <4>2, <4>3
    <3>2. head.call = "stat" /\ tail.errno = "ok" /\ IsExecutableProbe(head.path)
            => \E i \in DOMAIN report' : report'[i].event = Opened(head.path, None, FALSE)
      BY <1>3, ReadingProbe
    <3> QED
      BY <3>1, <3>2 DEF Shown
  <2>5. ASSUME NEW h, NEW t, NEW j \in DOMAIN done', done'[j].head = h, done'[j].tail = t
        PROVE  Shown(h, t)'
    <3>1. CASE j \in DOMAIN done
      <4>1. Shown(h, t)
        BY <2>1, <2>5, <3>1 DEF FilesFound
      <4> QED
        BY <2>1, <2>2, <4>1, StillTold
    <3>2. CASE h = head /\ t = tail
      BY <2>4, <3>2
    <3> QED
      BY <2>2, <2>5, <3>1, <3>2
  <2> QED
    BY <2>3, <2>5
<1> QED
  BY <1>1, <1>2, <1>3, StepKinds

-----------------------------------------------------------------------------
(* The events are true.                                                    *)

LEMMA TracedStep ==
  ASSUME TracedInv, ObserverNext
  PROVE  TracedInv'
<1> USE DEF TracedInv
<1>1. ObserverTypeOK'
  BY TypeStep
<1>2. Typed'
  BY TypedStep
<1>3. Waiting'
  BY HeadsStep
<1>4. Matched'
  BY MatchedStep
<1>5. Running'
  BY RunningStep
<1>6. Attributed'
  BY <1>2, <1>5, AttributedStep
<1>7. Peers'
  BY PeersStep
<1>8. ServersAreResolvers'
  BY ServersStep
<1>9. FilesTold' /\ FilesFound'
  BY FilesStep
<1> QED
  BY <1>1, <1>2, <1>3, <1>4, <1>5, <1>6, <1>7, <1>8, <1>9

LEMMA TracedStutters == TracedInv /\ UNCHANGED observerVars => TracedInv'
<1> SUFFICES ASSUME TracedInv, UNCHANGED observerVars  PROVE TracedInv'
  OBVIOUS
<1>1. ObserverTypeOK' /\ Typed' /\ Waiting'
  <2>1. ObserverTypeOK'
    BY DEF observerVars, kernel, parser, TracedInv, ObserverTypeOK
  <2>2. Typed'
    <3>1. UNCHANGED <<done, report, program, files, inflight>> /\ \A head : Tails(head)' = Tails(head)
      BY DEF observerVars, kernel, parser, Tails, FileErrno
    <3> QED
      BY <3>1 DEF TracedInv, Typed
  <2>3. Waiting'
    BY DEF observerVars, kernel, parser, TracedInv, Waiting
  <2> QED
    BY <2>1, <2>2, <2>3
<1>2. UNCHANGED <<done, report, executables, dnsPeers>>
  BY DEF observerVars, kernel, parser
<1>3. Matched' /\ Running' /\ Attributed'
  <2>1. \A q : Execs(q)' = Execs(q) /\ ExecsTold(q)' = ExecsTold(q)
    BY <1>2 DEF Execs, ExecsTold
  <2>2. Matched'
    BY <1>2 DEF TracedInv, Matched, Connects, ConnectsTold
  <2>3. Running'
    BY <1>2, <2>1 DEF TracedInv, Running
  <2>4. \A i : NamesItsProgram(i)' = NamesItsProgram(i)
    BY <1>2, <2>1 DEF NamesItsProgram
  <2>5. /\ Attributed' <=> \A i \in DOMAIN report' : NamesItsProgram(i)'
        /\ Attributed <=> \A i \in DOMAIN report : NamesItsProgram(i)
    BY DEF Attributed, NamesItsProgram
  <2> QED
    BY <1>2, <2>2, <2>3, <2>4, <2>5 DEF TracedInv
<1>4. Peers' /\ ServersAreResolvers' /\ FilesTold' /\ FilesFound'
  <2>1. \A n, p, fd, address : LastResolver(n, p, fd, address)' = LastResolver(n, p, fd, address)
    BY <1>2 DEF LastResolver, Naming, StatedIn
  <2>2. \A n, i : Carries(n, i)' = Carries(n, i)
    BY <1>2 DEF Carries
  <2>3. \A n, server : ServedBy(n, server)' = ServedBy(n, server)
    BY <1>2, <2>1 DEF ServedBy, StatedIn
  <2>4. Peers'
    BY <1>2, <2>1 DEF TracedInv, Peers
  <2>5. ServersAreResolvers'
    BY <1>2, <2>2, <2>3 DEF TracedInv, ServersAreResolvers
  <2>6. FilesTold' /\ FilesFound'
    BY <1>2 DEF TracedInv, FilesTold, FilesFound, Told, Shown, Of
  <2> QED
    BY <2>4, <2>5, <2>6
<1> QED
  BY <1>1, <1>3, <1>4 DEF TracedInv

-----------------------------------------------------------------------------
(* Aggregation.                                                            *)

\* The least of a set that is in a part of it is the least of the part.
LEMMA LeastOfPart ==
  ASSUME NEW K \in SUBSET Nat, NEW L \in SUBSET K, K # {}, Least(K) \in L
  PROVE  Least(L) = Least(K)
<1>1. \A j \in K : Least(K) <= j
  BY LeastIsLeast
<1>2. Least(L) \in L /\ \A j \in L : Least(L) <= j
  BY LeastIsLeast
<1>3. Least(K) <= Least(L) /\ Least(L) <= Least(K) /\ Least(K) \in Nat /\ Least(L) \in Nat
  BY <1>1, <1>2
<1> QED
  BY <1>3

\* Events of one signature are one event, the servers of a query apart.
LEMMA Signatures ==
  ASSUME NEW e, NEW f, SignatureOf(e) = SignatureOf(f)
  PROVE  /\ e.kind # "dns" => e = f
         /\ e.kind = "dns" => f.kind = "dns" /\ f.name = e.name /\ f.answer = e.answer
<1>1. \A x : x.kind = "dns" => SignatureOf(x) = <<x.kind, x.name, x.answer>>
  BY Zenon DEF SignatureOf
<1>2. \A x : x.kind # "dns" => SignatureOf(x) = <<x>>
  BY Zenon DEF SignatureOf
<1>3. \A x, a, b, c : <<x>> # <<a, b, c>>
  <2>1. \A x : Len(<<x>>) = 1
    OBVIOUS
  <2>2. \A a, b, c : Len(<<a, b, c>>) = 3
    OBVIOUS
  <2> QED
    BY <2>1, <2>2
<1>4. CASE e.kind # "dns" /\ f.kind # "dns"
  <2>1. <<e>> = <<f>>
    BY <1>2, <1>4
  <2> QED
    BY <1>4, <2>1
<1>5. CASE e.kind = "dns" /\ f.kind = "dns"
  <2>1. <<e.kind, e.name, e.answer>> = <<f.kind, f.name, f.answer>>
    BY <1>1, <1>5
  <2> QED
    BY <1>5, <2>1
<1>6. CASE e.kind = "dns" /\ f.kind # "dns"
  BY <1>1, <1>2, <1>3, <1>6
<1>7. CASE e.kind # "dns" /\ f.kind = "dns"
  BY <1>1, <1>2, <1>3, <1>7
<1> QED
  BY <1>4, <1>5, <1>6, <1>7

\* The positions of events are numbers.
LEMMA WholeIsNat ==
  ASSUME IsSeq(report)
  PROVE  Whole \in SUBSET Nat /\ Kept \in SUBSET Whole /\ \A i \in Whole : \A j \in 1 .. i - 1 : j \in Whole /\ j < i
<1>1. DOMAIN report = 1 .. Len(report) /\ Len(report) \in Nat
  BY SeqFacts
<1> QED
  BY <1>1 DEF Whole, Kept

\* An event that collapses and is not noise is kept, or an earlier one of
\* its signature is.
LEMMA KeptOne ==
  ASSUME IsSeq(report), NEW i \in Whole, ~ Noise(EventAt(i)), Collapses(EventAt(i))
  PROVE  \E k \in Kept : k <= i /\ SignatureOf(EventAt(k)) = SignatureOf(EventAt(i))
<1> DEFINE K == {j \in Whole : ~ Noise(EventAt(j)) /\ SignatureOf(EventAt(j)) = SignatureOf(EventAt(i))}
           k == Least(K)
<1>1. K \in SUBSET Nat /\ i \in K
  BY WholeIsNat
<1>2. k \in K /\ \A j \in K : k <= j
  <2> HIDE DEF K
  <2> QED
    BY <1>1, LeastIsLeast
<1>3. ASSUME NEW j \in 1 .. k - 1  PROVE Noise(EventAt(j)) \/ SignatureOf(EventAt(j)) # SignatureOf(EventAt(k))
  <2>1. j \in Whole /\ j < k /\ k \in Nat
    BY <1>1, <1>2, WholeIsNat
  <2>2. j \notin K
    <3> HIDE DEF k
    <3>1. j \in Nat
      BY <2>1, WholeIsNat
    <3> QED
      BY <1>2, <2>1, <3>1
  <2>3. SignatureOf(EventAt(k)) = SignatureOf(EventAt(i))
    BY <1>2
  <2> HIDE DEF k
  <2> QED
    BY <2>1, <2>2, <2>3
<1> HIDE DEF k
<1>4. k \in Kept
  BY <1>2, <1>3 DEF Kept
<1> QED
  BY <1>1, <1>2, <1>4

\* An event of the first of a set that its signature decides is kept.
LEMMA FirstIsKept ==
  ASSUME IsSeq(report), NEW K \in SUBSET Whole, NEW i \in K,
         \A j \in K : i <= j,
         ~ Noise(EventAt(i)), Collapses(EventAt(i)),
         \A j \in Whole : SignatureOf(EventAt(j)) = SignatureOf(EventAt(i)) => j \in K
  PROVE  i \in Kept
<1>1. PICK k \in Kept : k <= i /\ SignatureOf(EventAt(k)) = SignatureOf(EventAt(i))
  BY KeptOne
<1>2. k \in K /\ k \in Nat /\ i \in Nat
  BY <1>1, WholeIsNat
<1>3. k = i
  BY <1>1, <1>2
<1> QED
  BY <1>1, <1>3

\* Only reads that succeed are noise.
LEMMA NoNoise ==
  ASSUME NEW e, e.kind # "open" \/ e.errno # None
  PROVE  ~ Noise(e)
BY DEF Noise

\* Aggregation leaves every address the name it had.
LEMMA NamesKept ==
  ASSUME IsSeq(report), NEW address
  PROVE  NameOf(Kept, address) = NameOf(Whole, address)
<1> DEFINE W == {i \in OfKind(Whole, "dns") : EventAt(i).answer = address}
           N == {i \in OfKind(Kept, "dns") : EventAt(i).answer = address}
<1>1. W \in SUBSET Nat /\ N \in SUBSET W /\ W \in SUBSET Whole
  BY WholeIsNat DEF OfKind
<1>2. CASE W = {}
  <2>1. N = {}
    BY <1>1, <1>2
  <2> QED
    BY <1>2, <2>1 DEF NameOf
<1>3. CASE W # {}
  <2> DEFINE i == Least(W)
  <2>1. i \in W /\ \A j \in W : i <= j
    <3> HIDE DEF W
    <3> QED
      BY <1>1, <1>3, LeastIsLeast
  <2>2. EventAt(i).kind = "dns" /\ EventAt(i).answer = address
    BY <2>1 DEF OfKind
  <2>3. ~ Noise(EventAt(i)) /\ Collapses(EventAt(i))
    BY <2>2, NoNoise DEF Collapses
  <2>4. \A j \in Whole : SignatureOf(EventAt(j)) = SignatureOf(EventAt(i)) => j \in W
    BY <2>2, Signatures DEF OfKind
  <2>5. i \in Kept
    <3> HIDE DEF W
    <3> QED
      BY <1>1, <2>1, <2>3, <2>4, FirstIsKept
  <2>6. i \in N
    BY <2>2, <2>5 DEF OfKind
  <2>7. Least(N) = i
    <3> HIDE DEF W, N
    <3> QED
      BY <1>1, <1>3, <2>6, LeastOfPart
  <2> QED
    BY <1>3, <2>6, <2>7 DEF NameOf
<1> QED
  BY <1>2, <1>3

\* A connect keeps its identity, and an event like it is kept.
LEMMA ConnectsKept ==
  ASSUME IsSeq(report), NEW i \in Outward(Whole)
  PROVE  /\ ~ Noise(EventAt(i)) /\ Collapses(EventAt(i)) /\ EventAt(i).kind = "connect"
         /\ Identity(Kept, i) = Identity(Whole, i)
         /\ \A j \in Whole : SignatureOf(EventAt(j)) = SignatureOf(EventAt(i)) =>
              j \in Outward(Whole) /\ EventAt(j) = EventAt(i) /\ Identity(Whole, j) = Identity(Whole, i)
         /\ \E k \in Outward(Kept) : EventAt(k) = EventAt(i) /\ Identity(Whole, k) = Identity(Whole, i)
<1>1. i \in Whole /\ EventAt(i).kind = "connect" /\ EventAt(i).peer.port \notin {53, 0}
  BY DEF Outward, OfKind
<1>2. ~ Noise(EventAt(i)) /\ Collapses(EventAt(i))
  BY <1>1, NoNoise DEF Collapses
<1>3. Identity(Kept, i) = Identity(Whole, i)
  BY NamesKept DEF Identity
<1>4. ASSUME NEW j \in Whole, SignatureOf(EventAt(j)) = SignatureOf(EventAt(i))
      PROVE  j \in Outward(Whole) /\ EventAt(j) = EventAt(i) /\ Identity(Whole, j) = Identity(Whole, i)
  <2>1. EventAt(j) = EventAt(i)
    BY <1>1, <1>4, Signatures
  <2> QED
    BY <1>1, <2>1 DEF Outward, OfKind, Identity
<1>5. PICK k \in Kept : SignatureOf(EventAt(k)) = SignatureOf(EventAt(i))
  BY <1>1, <1>2, KeptOne
<1>6. k \in Whole
  BY WholeIsNat
<1>7. k \in Outward(Kept) /\ EventAt(k) = EventAt(i) /\ Identity(Whole, k) = Identity(Whole, i)
  BY <1>4, <1>5, <1>6 DEF Outward, OfKind
<1> QED
  BY <1>1, <1>2, <1>3, <1>4, <1>7

\* The attempts that are kept are those of the whole trace that are kept.
LEMMA AttemptsKept ==
  ASSUME IsSeq(report), NEW d
  PROVE  /\ Attempts(Whole, d) \in SUBSET Whole /\ Attempts(Whole, d) \in SUBSET Outward(Whole)
         /\ Attempts(Kept, d) \in SUBSET Attempts(Whole, d)
         /\ Attempts(Kept, d) = {i \in Attempts(Whole, d) : i \in Kept}
<1>1. Kept \in SUBSET Whole
  BY WholeIsNat
<1>2. \A i : i \in Outward(Kept) <=> i \in Outward(Whole) /\ i \in Kept
  BY <1>1 DEF Outward, OfKind
<1>3. \A i \in Outward(Whole) : Identity(Kept, i) = Identity(Whole, i)
  BY ConnectsKept
<1>4. \A i : i \in Attempts(Kept, d) <=> i \in Attempts(Whole, d) /\ i \in Kept
  BY <1>2, <1>3 DEF Attempts
<1>5. Attempts(Whole, d) \in SUBSET Whole /\ Attempts(Whole, d) \in SUBSET Outward(Whole)
  BY DEF Attempts, Outward, OfKind
<1> QED
  BY <1>4, <1>5

LEMMA DestinationsKept ==
  ASSUME IsSeq(report)
  PROVE  Destinations(Kept) = Destinations(Whole)
<1>1. ASSUME NEW d \in Destinations(Kept)  PROVE d \in Destinations(Whole)
  <2>1. PICK i \in Outward(Kept) : d = Identity(Kept, i)
    BY DEF Destinations
  <2>2. i \in Outward(Whole)
    BY WholeIsNat DEF Outward, OfKind
  <2>3. d = Identity(Whole, i)
    BY <2>1, <2>2, ConnectsKept
  <2> QED
    BY <2>2, <2>3 DEF Destinations
<1>2. ASSUME NEW d \in Destinations(Whole)  PROVE d \in Destinations(Kept)
  <2>1. PICK i \in Outward(Whole) : d = Identity(Whole, i)
    BY DEF Destinations
  <2>2. PICK k \in Outward(Kept) : Identity(Whole, k) = Identity(Whole, i)
    BY ConnectsKept
  <2>3. k \in Outward(Whole)
    BY WholeIsNat DEF Outward, OfKind
  <2>4. d = Identity(Kept, k)
    BY <2>1, <2>2, <2>3, ConnectsKept
  <2> QED
    BY <2>4 DEF Destinations
<1> QED
  BY <1>1, <1>2

\* That all attempts failed is as true of those kept.
LEMMA VerdictKept ==
  ASSUME IsSeq(report), NEW d
  PROVE  EveryAttemptFailed(Kept, d) <=> EveryAttemptFailed(Whole, d)
<1> DEFINE W == Attempts(Whole, d)
           N == Attempts(Kept, d)
<1>1. /\ EveryAttemptFailed(Whole, d) <=> W # {} /\ \A i \in W : IsFailure(EventAt(i))
      /\ EveryAttemptFailed(Kept, d) <=> N # {} /\ \A i \in N : IsFailure(EventAt(i))
  BY DEF EveryAttemptFailed, Failures
<1>2. N \in SUBSET W /\ N = {i \in W : i \in Kept}
  BY AttemptsKept
<1>3. ASSUME NEW i \in W  PROVE \E k \in N : EventAt(k) = EventAt(i)
  <2>1. i \in Outward(Whole) /\ Identity(Whole, i) = d
    BY DEF Attempts
  <2>2. PICK k \in Outward(Kept) : EventAt(k) = EventAt(i) /\ Identity(Whole, k) = Identity(Whole, i)
    BY <2>1, ConnectsKept
  <2>3. k \in Outward(Whole) /\ k \in Kept
    BY WholeIsNat DEF Outward, OfKind
  <2>4. k \in N
    BY <1>2, <2>1, <2>2, <2>3 DEF Attempts
  <2> QED
    BY <2>2, <2>4
<1> HIDE DEF W, N
<1> QED
  BY <1>1, <1>2, <1>3

\* The first attempt is kept, and with it who controls the destination.
LEMMA ControlKept ==
  ASSUME IsSeq(report), NEW d \in Destinations(Whole)
  PROVE  ExternallyControlled(Kept, d) = ExternallyControlled(Whole, d)
<1> DEFINE W == Attempts(Whole, d)
           N == Attempts(Kept, d)
           i == Least(W)
<1>1. W \in SUBSET Whole /\ W \in SUBSET Outward(Whole) /\ N \in SUBSET W /\ N = {j \in W : j \in Kept}
  BY AttemptsKept
<1>2. W \in SUBSET Nat /\ W # {}
  <2>1. W # {}
    BY DEF Destinations, Attempts
  <2> HIDE DEF W
  <2> QED
    BY <1>1, <2>1, WholeIsNat
<1>3. i \in W /\ \A j \in W : i <= j
  <2> HIDE DEF W
  <2> QED
    BY <1>2, LeastIsLeast
<1> HIDE DEF i
<1>4. /\ ~ Noise(EventAt(i)) /\ Collapses(EventAt(i))
      /\ \A j \in Whole : SignatureOf(EventAt(j)) = SignatureOf(EventAt(i)) =>
           j \in Outward(Whole) /\ Identity(Whole, j) = Identity(Whole, i)
  BY <1>1, <1>3, ConnectsKept
<1>5. \A j \in Whole : SignatureOf(EventAt(j)) = SignatureOf(EventAt(i)) => j \in W
  BY <1>3, <1>4 DEF Attempts
<1> HIDE DEF W, N
<1>6. i \in Kept
  BY <1>1, <1>3, <1>4, <1>5, FirstIsKept
<1>7. i \in N
  BY <1>1, <1>3, <1>6
<1>8. Least(N) = Least(W)
  BY <1>1, <1>2, <1>7, LeastOfPart DEF i
<1> QED
  BY <1>8 DEF ExternallyControlled, W, N

\* Every failure is kept, or an event like it is.
LEMMA FailuresKept ==
  ASSUME IsSeq(report), NEW i \in Whole, IsFailure(EventAt(i))
  PROVE  \E j \in Kept : IsFailure(EventAt(j)) /\ EventAt(j) = EventAt(i)
<1> DEFINE e == EventAt(i)
<1>1. e.kind # "dns"
  <2>1. SUFFICES ASSUME e.kind = "dns"  PROVE FALSE
    OBVIOUS
  <2>2. e.kind \notin {"open", "exec"} /\ e.kind \notin {"connect", "unix"} /\ e.kind # "exited"
    BY <2>1
  <2>3. ~ IsFailure(e)
    <3> HIDE DEF e
    <3> QED
      BY <2>2, Zenon DEF IsFailure
  <2> QED
    BY <2>3
<1>2. ~ Noise(e)
  <2>1. CASE e.kind = "open"
    <3>1. e.kind \in {"open", "exec"}
      BY <2>1
    <3>2. e.kind \notin {"connect", "unix"} /\ e.kind # "exited"
      BY <2>1
    <3>3. IsFailure(e) => e.errno # None
      <4> HIDE DEF e
      <4> QED
        BY <3>1, <3>2, Zenon DEF IsFailure
    <3> QED
      BY <3>3, NoNoise
  <2>2. CASE e.kind # "open"
    BY <2>2, NoNoise
  <2> QED
    BY <2>1, <2>2
<1>3. CASE Collapses(e)
  <2>1. PICK k \in Kept : SignatureOf(EventAt(k)) = SignatureOf(e)
    BY <1>2, <1>3, KeptOne
  <2>2. EventAt(k) = e
    BY <1>1, <2>1, Signatures
  <2> QED
    BY <2>2
<1>4. CASE ~ Collapses(e)
  BY <1>2, <1>4 DEF Kept
<1> QED
  BY <1>3, <1>4

LEMMA AggregationHolds ==
  ASSUME IsSeq(report)
  PROVE  AggregationIsFaithful
BY DestinationsKept, VerdictKept, ControlKept, FailuresKept DEF AggregationIsFaithful

\* The names are those a resolver answered.
LEMMA GroupingHolds ==
  ASSUME TracedInv
  PROVE  GroupedByName
<1>1. IsSeq(report) /\ \A k \in OfKind(Whole, "dns") : EventAt(k).name # None
  BY DEF TracedInv, Typed, FilesTold, Told, OfKind, Whole, EventAt
<1>2. ASSUME NEW i \in Outward(Kept), NEW j \in Outward(Kept), EventAt(i).peer = EventAt(j).peer
      PROVE  Identity(Kept, i) = Identity(Kept, j)
  BY <1>2 DEF Identity
<1>3. ASSUME NEW i \in Outward(Kept), NEW m \in OfKind(Whole, "dns"), EventAt(m).answer = EventAt(i).peer.address
      PROVE  \E k \in OfKind(Whole, "dns") :
               EventAt(k).answer = EventAt(i).peer.address /\ Identity(Kept, i)[1] = EventAt(k).name
  <2> DEFINE address == EventAt(i).peer.address
             W       == {k \in OfKind(Whole, "dns") : EventAt(k).answer = address}
             k       == Least(W)
  <2>1. W \in SUBSET Nat /\ m \in W
    BY <1>1, <1>3, WholeIsNat DEF OfKind
  <2>2. k \in W
    <3> HIDE DEF W
    <3> QED
      BY <2>1, LeastIsLeast
  <2>3. NameOf(Whole, address) = EventAt(k).name
    BY <2>1 DEF NameOf
  <2>4. NameOf(Kept, address) = EventAt(k).name /\ EventAt(k).name # None
    BY <1>1, <2>2, <2>3, NamesKept
  <2>5. Identity(Kept, i)[1] = EventAt(k).name
    BY <2>4 DEF Identity
  <2> QED
    BY <2>2, <2>5
<1> QED
  BY <1>2, <1>3 DEF GroupedByName

-----------------------------------------------------------------------------
(* The executables.                                                        *)

\* A file event that is not noise is kept, or one equal to it is.
LEMMA FileKept ==
  ASSUME IsSeq(report), NEW i \in Whole, EventAt(i).kind \in {"exec", "open"}, ~ Noise(EventAt(i))
  PROVE  \E k \in Kept : EventAt(k) = EventAt(i)
<1>1. PICK k \in Kept : SignatureOf(EventAt(k)) = SignatureOf(EventAt(i))
  BY KeptOne DEF Collapses
<1>2. EventAt(k) = EventAt(i)
  BY <1>1, Signatures
<1> QED
  BY <1>2

\* What was run, and what was come upon in a bin directory, is found.
LEMMA RunIsFound ==
  ASSUME TracedInv, NEW j \in Made("execve", "ok")
  PROVE  Basename(Of(j)) \in ToolsFound(Kept)
<1>1. PICK i \in DOMAIN report : report[i].event = Execed(Of(j), None)
  BY DEF TracedInv, FilesFound, Shown, Made, Of
<1>2. i \in Whole /\ EventAt(i) = Execed(Of(j), None)
  BY <1>1 DEF Whole, EventAt
<1>3. EventAt(i).kind = "exec" /\ EventAt(i).errno = None /\ EventAt(i).path = Of(j)
  BY <1>2 DEF Execed
<1>4. ~ Noise(EventAt(i)) /\ IsSeq(report)
  BY <1>3, NoNoise DEF TracedInv, Typed
<1>5. PICK k \in Kept : EventAt(k) = EventAt(i)
  BY <1>2, <1>3, <1>4, FileKept
<1> QED
  BY <1>3, <1>5 DEF ToolsFound, RanOk, OfKind, NameAt

LEMMA ProbeIsFound ==
  ASSUME TracedInv, NEW j \in Made("stat", "ok"), Dirname(Of(j)) \in BinDir, Basename(Of(j)) \notin Dotted
  PROVE  Basename(Of(j)) \in ToolsFound(Kept)
<1>1. PICK i \in DOMAIN report : report[i].event = Opened(Of(j), None, FALSE)
  BY DEF TracedInv, FilesFound, Shown, Made, Of, IsExecutableProbe
<1>2. i \in Whole /\ EventAt(i) = Opened(Of(j), None, FALSE)
  BY <1>1 DEF Whole, EventAt
<1>3. EventAt(i).kind = "open" /\ EventAt(i).errno = None /\ EventAt(i).path = Of(j)
  BY <1>2 DEF Opened
<1>4. ~ Noise(EventAt(i)) /\ IsSeq(report)
  BY <1>3, NoiseAssumption DEF TracedInv, Typed, Noise
<1>5. PICK k \in Kept : EventAt(k) = EventAt(i)
  BY <1>2, <1>3, <1>4, FileKept
<1> QED
  BY <1>3, <1>5 DEF ToolsFound, OfKind, NameAt

\* What an event says of an absent or a running program is a call's result.
LEMMA CallOfEvent ==
  ASSUME TracedInv, NEW i \in Whole, EventAt(i).kind \in {"exec", "open"}
  PROVE  \E j \in DOMAIN done :
           /\ Of(j) = EventAt(i).path
           /\ EventAt(i).errno = "ENOENT" => done[j].tail.errno = "ENOENT"
           /\ EventAt(i).kind = "exec" /\ EventAt(i).errno = None => j \in Made("execve", "ok")
<1>1. Told(EventAt(i))
  BY DEF TracedInv, FilesTold, Whole, EventAt
<1>2. ASSUME NEW j \in DOMAIN done, done[j].head.call \in {"execve", "openat", "stat"}
      PROVE  /\ Errno(done[j].tail) = "ENOENT" => done[j].tail.errno = "ENOENT"
             /\ Errno(done[j].tail) = None => done[j].tail.errno \in {"ok", "?"}
  <2>1. done[j].tail \in Tails(done[j].head)
    BY DEF TracedInv, Typed
  <2> QED
    BY <1>2, <2>1, FileTails, NoneAssumption DEF Errno
<1>3. CASE EventAt(i).kind = "exec"
  <2>1. PICK j \in DOMAIN done : /\ done[j].head.call = "execve" /\ done[j].tail.errno # "?"
                                 /\ EventAt(i) = Execed(Of(j), Errno(done[j].tail))
    BY <1>1, <1>3 DEF Told
  <2>2. EventAt(i).path = Of(j) /\ EventAt(i).errno = Errno(done[j].tail)
    BY <2>1 DEF Execed
  <2> QED
    BY <1>2, <2>1, <2>2 DEF Made
<1>4. CASE EventAt(i).kind = "open"
  <2>1. PICK j \in DOMAIN done : /\ done[j].head.call \in {"openat", "stat"}
                                 /\ EventAt(i).path = Of(j) /\ EventAt(i).errno = Errno(done[j].tail)
    BY <1>1, <1>4 DEF Told
  <2> QED
    BY <1>2, <1>4, <2>1
<1> QED
  BY <1>3, <1>4

LEMMA CandidatesHold ==
  ASSUME TracedInv
  PROVE  CandidatesAreTrue
<1>1. IsSeq(report) /\ Kept \in SUBSET Whole
  BY WholeIsNat DEF TracedInv, Typed
<1>2. ASSUME NEW n \in Found(Kept)
      PROVE  \E i \in Made("execve", "ok") : Basename(Of(i)) = n /\ Dirname(Of(i)) \notin Inside
  <2>1. PICK i \in RanOk(Kept) : NameAt(i) = n /\ Dirname(EventAt(i).path) \notin Inside
    BY DEF Found
  <2>2. i \in Whole /\ EventAt(i).kind = "exec" /\ EventAt(i).errno = None
    BY <1>1 DEF RanOk, OfKind
  <2>3. PICK j \in DOMAIN done : Of(j) = EventAt(i).path /\ j \in Made("execve", "ok")
    BY <2>2, CallOfEvent
  <2> QED
    BY <2>1, <2>3 DEF NameAt
<1>3. ASSUME NEW n \in Missing(Kept)
      PROVE  \E i \in DOMAIN done : done[i].tail.errno = "ENOENT" /\ Basename(Of(i)) = n
  <2>1. PICK i \in Kept : EventAt(i).kind \in {"exec", "open"} /\ EventAt(i).errno = "ENOENT" /\ NameAt(i) = n
    <3>1. n \in {NameAt(i) : i \in Missed(Kept, "exec")} \/ n \in Scanned(Kept)
      BY DEF Missing
    <3>2. CASE n \in {NameAt(i) : i \in Missed(Kept, "exec")}
      BY <3>2 DEF Missed, OfKind
    <3>3. CASE n \in Scanned(Kept)
      <4> DEFINE dirs == {Dirname(EventAt(i).path) : i \in {j \in Missed(Kept, "open") : NameAt(j) = n}}
      <4>1. Cardinality(dirs) >= 2
        BY <3>3 DEF Scanned
      <4>2. dirs # {}
        <5>1. Cardinality({}) = 0
          BY FS_EmptySet
        <5> HIDE DEF dirs
        <5> QED
          BY <4>1, <5>1
      <4>3. PICK i \in Missed(Kept, "open") : NameAt(i) = n
        BY <4>2
      <4> QED
        BY <4>3 DEF Missed, OfKind
    <3> QED
      BY <3>1, <3>2, <3>3
  <2>2. i \in Whole
    BY <1>1
  <2>3. PICK j \in DOMAIN done : Of(j) = EventAt(i).path /\ done[j].tail.errno = "ENOENT"
    BY <2>1, <2>2, CallOfEvent
  <2> QED
    BY <2>1, <2>3 DEF NameAt
<1>4. \A n \in Missing(Kept) : n \notin ToolsFound(Kept)
  BY DEF Missing
<1>5. \A n \in Missing(Kept) : \A i \in Made("execve", "ok") : Basename(Of(i)) # n
  BY <1>4, RunIsFound
<1>6. \A n \in Missing(Kept) : \A i \in Made("stat", "ok") :
        Basename(Of(i)) = n => Dirname(Of(i)) \notin BinDir \/ n \in Dotted
  BY <1>4, ProbeIsFound
<1> QED
  BY <1>2, <1>3, <1>5, <1>6 DEF CandidatesAreTrue

-----------------------------------------------------------------------------
(* The shim.                                                               *)

\* The shim links every other tool to where the search path first holds it.
ShimIsBuilt == hidden # None => shim = [f \in Linked(hidden) |-> LinkTarget(f)]

LEMMA ShimHolds ==
  ASSUME ShimIsBuilt
  PROVE  ShimHidesOne
<1> SUFFICES ASSUME hidden # None
             PROVE  /\ ByShim(hidden) = None
                    /\ \A f \in File \ {hidden} :
                         /\ ByShim(f) # None => ByShim(f) = ByPath(f)
                         /\ Holding(f) # {} /\ Least(Holding(f)) \in Runnable(f) => ByShim(f) = ByPath(f)
  BY DEF ShimHidesOne
<1>1. DOMAIN shim = Linked(hidden) /\ \A f \in Linked(hidden) : shim[f] = SearchPath[Least(Holding(f))]
  BY DEF ShimIsBuilt, LinkTarget
<1>2. ByShim(hidden) = None
  BY <1>1 DEF ByShim, Linked
<1>3. ASSUME NEW f \in File \ {hidden}
      PROVE  /\ ByShim(f) # None => ByShim(f) = ByPath(f)
             /\ Holding(f) # {} /\ Least(Holding(f)) \in Runnable(f) => ByShim(f) = ByPath(f)
  <2> DEFINE H == Holding(f)
             R == Runnable(f)
  <2>1. H \in SUBSET Nat /\ R \in SUBSET H
    BY PathAssumption DEF Holding, Runnable, Stands
  <2>2. \A i \in H : i \in R <=> files[<<SearchPath[i], f>>] = "executable"
    BY DEF Holding, Runnable
  <2>3. f \in Linked(hidden) <=> H # {}
    BY DEF Linked
  <2>4. CASE H = {}
    <3>1. ByShim(f) = None
      BY <1>1, <2>3, <2>4 DEF ByShim
    <3> QED
      BY <2>4, <3>1 DEF H
  <2>5. CASE H # {}
    <3> HIDE DEF H, R
    <3>1. Least(H) \in H
      BY <2>1, <2>5, LeastIsLeast
    <3>2. shim[f] = SearchPath[Least(H)] /\ f \in DOMAIN shim
      BY <1>1, <2>3, <2>5 DEF H
    <3>3. CASE Least(H) \in R
      <4>1. Least(R) = Least(H)
        BY <2>1, <2>5, <3>3, LeastOfPart
      <4>2. ByPath(f) = SearchPath[Least(H)]
        BY <3>3, <4>1 DEF ByPath, R
      <4>3. ByShim(f) = shim[f]
        BY <2>2, <3>1, <3>2, <3>3 DEF ByShim
      <4> QED
        BY <3>2, <4>2, <4>3
    <3>4. CASE Least(H) \notin R
      <4>1. ByShim(f) = None
        BY <2>2, <3>1, <3>2, <3>4 DEF ByShim
      <4> QED
        BY <3>4, <4>1 DEF H, R
    <3> QED
      BY <3>3, <3>4
  <2> QED
    BY <2>4, <2>5
<1> QED
  BY <1>2, <1>3

-----------------------------------------------------------------------------
(* The laboratory.                                                         *)

LabInv == TracedInv /\ ShimIsBuilt

LEMMA LabAlways == LabSpec => []LabInv
<1>1. LabInit => LabInv
  BY InitHolds DEF LabInit, LabInv, ShimIsBuilt
<1>2. LabInv /\ [LabNext]_<<observerVars, shimVars>> => LabInv'
  <2> SUFFICES ASSUME LabInv, [LabNext]_<<observerVars, shimVars>>  PROVE LabInv'
    OBVIOUS
  <2>1. CASE Traced
    <3>1. TracedInv'
      BY <2>1, TracedStep DEF Traced, LabInv
    <3>2. ShimIsBuilt'
      BY <2>1 DEF Traced, shimVars, ShimIsBuilt
    <3> QED
      BY <3>1, <3>2 DEF LabInv
  <2>2. ASSUME NEW name \in File, BuildShim(name)  PROVE LabInv'
    <3>1. TracedInv'
      BY <2>2, TracedStutters DEF BuildShim, LabInv
    <3>2. files' = files
      BY <2>2 DEF BuildShim, observerVars, kernel
    <3>3. hidden' = name /\ shim' = [f \in Linked(name) |-> LinkTarget(f)]
      BY <2>2 DEF BuildShim
    <3>4. Linked(name)' = Linked(name) /\ \A f : LinkTarget(f)' = LinkTarget(f)
      BY <3>2 DEF Linked, LinkTarget, Holding, Stands
    <3>5. ShimIsBuilt'
      BY <3>3, <3>4 DEF ShimIsBuilt
    <3> QED
      BY <3>1, <3>5 DEF LabInv
  <2>3. CASE UNCHANGED <<observerVars, shimVars>>
    <3>1. TracedInv'
      BY <2>3, TracedStutters DEF LabInv
    <3>2. ShimIsBuilt'
      BY <2>3 DEF LabInv, ShimIsBuilt, shimVars, observerVars, kernel, Linked, LinkTarget, Holding, Stands
    <3> QED
      BY <3>1, <3>2 DEF LabInv
  <2> QED
    BY <2>1, <2>2, <2>3 DEF LabNext
<1> QED
  BY <1>1, <1>2, PTL DEF LabSpec

\* Observer, EventsAreTrue: however the lines of the tasks interleave, every
\* connect that ended is told once, in order, with its own address and, where
\* strace could tell it, its own result; an event names the program its task
\* ran then; and a name is told of a datagram that carried it, with the server
\* the datagram states or the resolver last named on its descriptor.
THEOREM EventsHold == LabSpec => []EventsAreTrue
<1>1. LabInv => EventsAreTrue
  <2>1. Matched => Stitched
    <3>1. \A peer, result : Connected(peer, result).peer = peer /\ Connected(peer, result).result = result
      BY DEF Connected
    <3>2. ASSUME Matched, NEW i \in Connects
          PROVE  \E j \in ConnectsTold : /\ Place(Connects, i) = Place(ConnectsTold, j)
                                         /\ report[j].pid = done[i].pid
                                         /\ report[j].event.peer = done[i].head.peer
                                         /\ report[j].event.result = ResultLabel(done[i].tail)
      BY <3>1, <3>2 DEF Matched
    <3>3. Matched => Cardinality(Connects) = Cardinality(ConnectsTold)
      BY DEF Matched
    <3> QED
      BY <3>2, <3>3 DEF Stitched
  <2> QED
    BY <2>1 DEF LabInv, TracedInv, EventsAreTrue
<1> QED
  BY <1>1, LabAlways, PTL

\* Observations, DestinationsAreFaithful: aggregation changes no destination,
\* verdict or owner, and destinations have the names resolvers answered.
THEOREM DestinationsHold == LabSpec => []DestinationsAreFaithful
<1>1. LabInv => DestinationsAreFaithful
  BY AggregationHolds, GroupingHolds DEF LabInv, TracedInv, Typed, DestinationsAreFaithful
<1> QED
  BY <1>1, LabAlways, PTL

\* Observations, CandidatesAreTrue: a tool reported found ran, and one
\* reported missing was looked for and never found.
THEOREM ExecutablesHold == LabSpec => []CandidatesAreTrue
<1>1. LabInv => CandidatesAreTrue
  BY CandidatesHold DEF LabInv
<1> QED
  BY <1>1, LabAlways, PTL

\* Observations, ShimHidesOne: the shim hides the tool it is built for; another
\* tool it resolves is the one PATH resolves; and a tool whose first file on
\* PATH can be run is resolved.
THEOREM ShimsHold == LabSpec => []ShimHidesOne
<1>1. LabInv => ShimHidesOne
  BY ShimHolds DEF LabInv
<1> QED
  BY <1>1, LabAlways, PTL
=============================================================================
