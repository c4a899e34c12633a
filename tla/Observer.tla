------------------------------- MODULE Observer -------------------------------
(***************************************************************************)
(* The strace observer (crates/ovid-observer: strace.rs, dns.rs).           *)
(*                                                                         *)
(* Tasks make system calls; strace writes a line for each, or two when      *)
(* another task's line comes between (unfinished, resumed).  The parser      *)
(* reads the lines in one pass with a buffer of interrupted calls, tables    *)
(* of bound and resolver sockets by task and descriptor, and the program     *)
(* each task runs.  It is modelled as reading each line when it is written:   *)
(* a pass over the finished file does the same.                             *)
(*                                                                         *)
(* A line's text is its head (what strace prints when the call starts) and   *)
(* its tail (what it prints when it ends); an errno "?" is a result strace    *)
(* could not tell.  Every task is a process of its own: descriptors shared   *)
(* by threads or across a fork are left out.  Seeded mistake: StitchByCall.  *)
(***************************************************************************)
EXTENDS Naturals, Sequences, FiniteSets

CONSTANTS
  Task,        \* what strace prefixes lines with
  Workloads,   \* what may be traced: a program, that is the heads each task
               \* may start, and what stands at each path
  Dir, File,   \* a path is a directory and a file name
  BinDir,      \* directories named bin or sbin
  SharedObject, Dotted,  \* file names of those shapes
  Reply,       \* the tails a network call may get
  MaxLines,    \* bound on the lines written
  None         \* an absent value

Files     == {"execve", "openat"}
Datagrams == {"sendto", "recvfrom"}

ASSUME FilesAssumption == \A w \in Workloads : w.files \in [Dir \X File -> {"absent", "plain", "executable"}]

\* A call on a socket has a descriptor, and a connect an address.
ASSUME ProgramAssumption ==
  \A w \in Workloads, p \in Task : \A head \in w.program[p] :
    /\ head # None
    /\ head.call \in {"connect", "bind", "listen"} \cup Datagrams => "fd" \in DOMAIN head
    /\ head.call = "connect" => head.peer # None /\ head.peer.family \in {"inet", "unix", "other"}

ASSUME BoundAssumption == MaxLines \in Nat
ASSUME NoneAssumption == None \notin {"ENOENT", "EACCES"}

VARIABLES
  program,     \* the workload of this run
  files,       \* what stands at each path: absent, plain, executable
  alive,       \* tasks that have not exited
  inflight,    \* the call of a task that strace has printed only the head of
  done,        \* history: the calls that ended, with their results, in order
  lines,       \* raw_line_count
  unfinished, bound, dnsPeers, executables,  \* Parser
  report,      \* the events, in order
  unparsed     \* unparsed_lines

parser == <<unfinished, bound, dnsPeers, executables>>
kernel == <<program, files, alive, inflight, done>>
observerVars == <<kernel, lines, parser, report, unparsed>>

Path == Dir \X File
Dirname(path)  == path[1]
Basename(path) == path[2]

Put(table, key, value) == [k \in DOMAIN table \cup {key} |-> IF k = key THEN value ELSE table[k]]
Drop(table, key)       == [k \in DOMAIN table \ {key} |-> table[k]]
Lookup(table, key)     == IF key \in DOMAIN table THEN table[key] ELSE None

\* The how-manieth of a set of numbers one of them is.
Place(I, i) == Cardinality({j \in I : j <= i})

(***************************************************************************)
(* Events.                                                                  *)
(***************************************************************************)
Opened(path, errno, write) == [kind |-> "open", path |-> path, errno |-> errno, write |-> write]
Mapped(path)               == [kind |-> "mapped", path |-> path]
Execed(path, errno)        == [kind |-> "exec", path |-> path, errno |-> errno]
Exited(code)               == [kind |-> "exited", code |-> code]
Connected(peer, result)    == [kind |-> "connect", peer |-> peer, result |-> result]
UnixConnected(peer, result) == [kind |-> "unix", peer |-> peer, result |-> result]
Bound(peer)                == [kind |-> "bound", peer |-> peer]
Listening(peer)            == [kind |-> "listening", peer |-> peer]
Query(name, answer, server) == [kind |-> "dns", name |-> name, answer |-> answer, server |-> server]

\* BoundaryEvent::is_failure
IsFailure(e) ==
  CASE e.kind \in {"open", "exec"}     -> e.errno # None
    [] e.kind \in {"connect", "unix"}  -> e.result # "success"
    [] e.kind = "exited"               -> e.code # 0
    [] OTHER                           -> FALSE

(***************************************************************************)
(* One call's line.                                                         *)
(***************************************************************************)
Resolver(peer) == peer.family = "inet" /\ peer.port = 53

\* The errno printed after a negative result, as the expressions capture it.
Errno(tail) == IF tail.errno \in {"ok", "?"} THEN None ELSE tail.errno

\* call_result: a result that is not a number reads as zero.
Succeeded(tail)   == tail.errno \in {"ok", "?"}
ResultLabel(tail) == IF Succeeded(tail) THEN "success" ELSE tail.errno

IsExecutableProbe(path) == Dirname(path) \in BinDir /\ Basename(path) \notin Dotted

\* The expressions for execve and open match a numeric result only.
FileEvents(head, tail) ==
  LET read == tail.errno = "ok" /\ ~head.write
      so   == Basename(head.path) \in SharedObject
  IN  IF tail.errno = "?" THEN <<>>
      ELSE IF read /\ so THEN <<Mapped(head.path)>>
      ELSE <<Opened(head.path, Errno(tail), head.write)>>

StatEvents(head, tail) ==
  IF Errno(tail) # None \/ (tail.errno = "ok" /\ IsExecutableProbe(head.path))
  THEN <<Opened(head.path, Errno(tail), FALSE)>>
  ELSE <<>>

ConnectEvents(head, tail) ==
  CASE head.peer.family = "inet"  -> <<Connected(head.peer, ResultLabel(tail))>>
    [] head.peer.family = "unix"  -> <<UnixConnected(head.peer, ResultLabel(tail))>>
    [] head.peer.family = "other" -> <<>>

\* parse_dns_packet: what of a payload is a standard lookup of a host name.
\* The answers are those that fit in what strace printed.
LookupTypes == {"A", "AAAA", "CNAME", "ANY", "HTTPS"}
IsPacket(payload) ==
  /\ payload # None
  /\ payload.opcode = 0
  /\ payload.questions \in 1 .. 4
  /\ payload.question # None
  /\ payload.qtype \in LookupTypes
  /\ payload.class \in {"IN", "ANY"}

AnswersIn(payload) ==
  LET fit       == {i \in 1 .. 32 : i \in DOMAIN payload.answers /\ \A j \in 1 .. i : payload.answers[j].type # "cut"}
      addresses == {i \in fit : payload.answers[i].type \in {"A", "AAAA"}}
  IN  [k \in 1 .. Cardinality(addresses) |-> payload.answers[CHOOSE i \in addresses : Place(addresses, i) = k]]

PacketEvents(payload, server) ==
  IF ~IsPacket(payload) THEN <<>>
  ELSE IF payload.response
       THEN [i \in DOMAIN AnswersIn(payload) |-> Query(payload.question, AnswersIn(payload)[i].address, server)]
       ELSE <<Query(payload.question, None, server)>>

\* parse_datagram: the first address in the line, or else the remembered
\* resolver.
Stated(head, tail) == IF head.peer # None THEN head.peer ELSE tail.peer
DatagramServer(p, head, tail) ==
  LET peer == Stated(head, tail)
  IN  IF peer = None THEN Lookup(dnsPeers, <<p, head.fd>>)
      ELSE IF Resolver(peer) THEN peer.address ELSE None

DatagramEvents(p, head, tail) ==
  LET server == DatagramServer(p, head, tail)
  IN  IF server = None THEN <<>>
      ELSE PacketEvents(head.payload, server) \o PacketEvents(tail.payload, server)

\* The arms of parse_line for a call whose line is complete.
LineEvents(p, head, tail) ==
  CASE head.call = "execve" -> IF tail.errno = "?" THEN <<>> ELSE <<Execed(head.path, Errno(tail))>>
    [] head.call = "openat" -> FileEvents(head, tail)
    [] head.call = "stat"   -> StatEvents(head, tail)
    [] head.call = "connect" -> ConnectEvents(head, tail)
    [] head.call = "bind"   -> IF head.peer.family = "inet" /\ Succeeded(tail) THEN <<Bound(head.peer)>> ELSE <<>>
    [] head.call = "listen" -> IF Succeeded(tail) /\ <<p, head.fd>> \in DOMAIN bound
                               THEN <<Listening(bound[<<p, head.fd>>])>> ELSE <<>>
    [] head.call \in Datagrams -> DatagramEvents(p, head, tail)
    [] OTHER -> <<>>

LineUnparsed(head, tail) == head.call \in Files /\ tail.errno = "?"

RemembersPeer(head, tail) ==
  \/ /\ head.call = "connect"
     /\ Resolver(head.peer)
  \/ /\ head.call \in Datagrams
     /\ Stated(head, tail) # None
     /\ Resolver(Stated(head, tail))

PeersAfter(p, head, tail) ==
  IF RemembersPeer(head, tail)
  THEN Put(dnsPeers, <<p, head.fd>>, Stated(head, tail).address)
  ELSE dnsPeers

BoundAfter(p, head, tail) ==
  IF head.call = "bind" /\ head.peer.family = "inet" /\ Succeeded(tail)
  THEN Put(bound, <<p, head.fd>>, head.peer)
  ELSE bound

ExecutablesAfter(p, head, tail) ==
  IF head.call = "execve" /\ tail.errno = "ok" THEN Put(executables, p, head.path) ELSE executables

\* push_event
Envelope(p, table, e) == [pid |-> p, executable |-> Lookup(table, p), event |-> e]
Push(p, table, events) == report \o [i \in DOMAIN events |-> Envelope(p, table, events[i])]

(***************************************************************************)
(* parse_line.                                                              *)
(***************************************************************************)
ReadCall(p, head, tail) ==
  /\ dnsPeers' = PeersAfter(p, head, tail)
  /\ bound' = BoundAfter(p, head, tail)
  /\ executables' = ExecutablesAfter(p, head, tail)
  /\ report' = Push(p, executables', LineEvents(p, head, tail))
  /\ unparsed' = unparsed + IF LineUnparsed(head, tail) THEN 1 ELSE 0

ReadHead(p, head) ==
  /\ unfinished' = Put(unfinished, <<p, head.call>>, head)
  /\ UNCHANGED <<bound, dnsPeers, executables, report, unparsed>>

\* A resumed line whose head was never seen is ignored.
StitchByCall(p, call, tail) ==
  LET keys == {k \in DOMAIN unfinished : k[2] = call}
  IN  \E k \in keys :
        /\ unfinished' = Drop(unfinished, k)
        /\ ReadCall(p, unfinished[k], tail)
Stitch(p, call, tail) ==
  IF <<p, call>> \in DOMAIN unfinished
  THEN /\ unfinished' = Drop(unfinished, <<p, call>>)
       /\ ReadCall(p, unfinished[<<p, call>>], tail)
  ELSE UNCHANGED <<parser, report, unparsed>>

(***************************************************************************)
(* The traced processes.                                                    *)
(***************************************************************************)
\* The file system decides what a call on a path returns.
FileErrno(head) ==
  CASE files[head.path] = "absent" -> "ENOENT"
    [] files[head.path] = "plain" /\ head.call = "execve" -> "EACCES"
    [] OTHER -> "ok"

Tails(head) ==
  IF head.call \in Files \cup {"stat"}
  THEN {[errno |-> FileErrno(head), peer |-> None, payload |-> None], [errno |-> "?", peer |-> None, payload |-> None]}
  ELSE Reply[head.call]

NewLine == lines < MaxLines /\ lines' = lines + 1

Ended(p, head, tail) == done' = Append(done, [pid |-> p, head |-> head, tail |-> tail])

ObserverInit ==
  /\ \E w \in Workloads : program = w.program /\ files = w.files
  /\ alive = Task
  /\ inflight = [p \in Task |-> None]
  /\ done = <<>> /\ lines = 0
  /\ unfinished = <<>> /\ bound = <<>> /\ dnsPeers = <<>> /\ executables = <<>>
  /\ report = <<>> /\ unparsed = 0

\* A call printed on one line.
Call(p) ==
  /\ NewLine /\ p \in alive /\ inflight[p] = None
  /\ \E head \in program[p] : \E tail \in Tails(head) :
       Ended(p, head, tail) /\ ReadCall(p, head, tail)
  /\ UNCHANGED <<program, files, alive, inflight, unfinished>>

\* Another task's line comes before the result.
Interrupt(p) ==
  /\ NewLine /\ p \in alive /\ inflight[p] = None
  /\ \E head \in program[p] :
       inflight' = [inflight EXCEPT ![p] = head] /\ ReadHead(p, head)
  /\ UNCHANGED <<program, files, alive, done>>

Resume(p) ==
  /\ NewLine /\ p \in alive /\ inflight[p] # None
  /\ \E tail \in Tails(inflight[p]) :
       Ended(p, inflight[p], tail) /\ Stitch(p, inflight[p].call, tail)
  /\ inflight' = [inflight EXCEPT ![p] = None]
  /\ UNCHANGED <<program, files, alive>>

\* Exit between calls, or a kill at any time.
Exit(p) ==
  /\ NewLine /\ p \in alive
  /\ alive' = alive \ {p}
  /\ \E code \in IF inflight[p] = None THEN {0, 1} ELSE {1} : report' = Push(p, executables, <<Exited(code)>>)
  /\ UNCHANGED <<program, files, inflight, done, parser, unparsed>>

\* A line that is not of the grammar.
Garble ==
  /\ NewLine /\ unparsed' = unparsed + 1
  /\ UNCHANGED <<kernel, parser, report>>

ObserverNext == Garble \/ \E p \in Task : Call(p) \/ Interrupt(p) \/ Resume(p) \/ Exit(p)

ObserverSpec == ObserverInit /\ [][ObserverNext]_observerVars

(***************************************************************************)
(* Properties.                                                              *)
(***************************************************************************)
\* strace.rs, Parser: its tables are typed, and the heads it keeps are
\* those of the calls that were interrupted.
ObserverTypeOK ==
  /\ lines \in 0 .. MaxLines /\ unparsed \in 0 .. lines
  /\ alive \subseteq Task
  /\ DOMAIN bound \cup DOMAIN dnsPeers \subseteq UNION {{<<p, h.fd>> : h \in {c \in program[p] : "fd" \in DOMAIN c}} : p \in Task}
  /\ DOMAIN executables \subseteq Task
  /\ DOMAIN unfinished = {<<p, inflight[p].call>> : p \in {q \in Task : inflight[q] # None}}
  /\ \A i \in DOMAIN report : report[i].pid \in Task

ConnectsTold == {i \in DOMAIN report : report[i].event.kind = "connect"}
Connects     == {i \in DOMAIN done : done[i].head.call = "connect" /\ done[i].head.peer.family = "inet"}

\* strace.rs:219-238: however the lines of the tasks interleave, the connects
\* reported are the connects that ended, in that order, each by its own task
\* with its own address, and with its own result where strace could tell it.
Stitched ==
  /\ Cardinality(Connects) = Cardinality(ConnectsTold)
  /\ \A i \in Connects : \E j \in ConnectsTold :
       /\ Place(Connects, i) = Place(ConnectsTold, j)
       /\ report[j].pid = done[i].pid
       /\ report[j].event.peer = done[i].head.peer
       /\ done[i].tail.errno # "?" => report[j].event.result = ResultLabel(done[i].tail)

\* event.rs:65-66: a connect in progress or whose result is not known is told
\* without one.
UnknownIsNotGuessed ==
  \A i \in Connects, j \in ConnectsTold :
    Place(Connects, i) = Place(ConnectsTold, j) /\ done[i].tail.errno \in {"?", "EINPROGRESS"} =>
      report[j].event.result = None

\* The execs of a task that succeeded, as they ended and as they were told.
Execs(p)     == {j \in DOMAIN done : done[j].pid = p /\ done[j].head.call = "execve" /\ done[j].tail.errno = "ok"}
ExecsTold(p) == {j \in DOMAIN report : report[j].pid = p /\ report[j].event.kind = "exec" /\ report[j].event.errno = None}

\* strace.rs:96-123: an event names the program its task ran at the time.  If
\* a task had n execs succeed up to an event, that is the n-th it made.
Attributed ==
  \A i \in DOMAIN report :
    LET p    == report[i].pid
        told == {j \in ExecsTold(p) : j <= i}
    IN  IF told = {} THEN report[i].executable = None
        ELSE \E j \in Execs(p) :
               Place(Execs(p), j) = Cardinality(told) /\ report[i].executable = done[j].head.path

\* The address a call states, and the calls of a task on a descriptor that do.
StatedIn(n) == Stated(done[n].head, done[n].tail)
Naming(p, fd) ==
  {n \in DOMAIN done : /\ done[n].pid = p /\ done[n].head.call \in {"connect"} \cup Datagrams
                       /\ done[n].head.fd = fd /\ StatedIn(n) # None}

\* The resolver last named on a descriptor before a call.
LastResolver(n, p, fd, address) ==
  \E j \in Naming(p, fd) :
    /\ j < n /\ Resolver(StatedIn(j)) /\ StatedIn(j).address = address
    /\ \A k \in Naming(p, fd) : j < k /\ k < n => ~Resolver(StatedIn(k))

\* A datagram carries what an event tells.
Carries(n, i) ==
  LET server == report[i].event.server
  IN  /\ done[n].pid = report[i].pid /\ done[n].head.call \in Datagrams
      /\ \E payload \in {done[n].head.payload, done[n].tail.payload} :
           \E k \in DOMAIN PacketEvents(payload, server) : PacketEvents(payload, server)[k] = report[i].event

\* The server of a datagram is the peer its line states, or else the resolver
\* last named on its descriptor.
ServedBy(n, server) ==
  IF StatedIn(n) = None
  THEN LastResolver(n, done[n].pid, done[n].head.fd, server)
  ELSE Resolver(StatedIn(n)) /\ StatedIn(n).address = server

\* strace.rs:421-477: a name comes from a datagram that was sent or received,
\* with the answer it carries and the resolver last named on its own task's
\* descriptor.  Nothing is cleared when a descriptor is used again: the peer of
\* such a datagram need not be that resolver any more.
ServersAreResolvers ==
  \A i \in DOMAIN report :
    report[i].event.kind = "dns" => \E n \in DOMAIN done : Carries(n, i) /\ ServedBy(n, report[i].event.server)

\* What the report says happened did, by whom and with whom it says.
EventsAreTrue == ObserverTypeOK /\ Stitched /\ Attributed /\ ServersAreResolvers
=============================================================================
