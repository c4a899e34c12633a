------------------------------ MODULE MCObserver ------------------------------
(***************************************************************************)
(* An instance of Observations: two tasks, three workloads.                 *)
(***************************************************************************)
EXTENDS Observations

Inet(address, port) == [family |-> "inet", address |-> address, port |-> port]
Unix == [family |-> "unix", address |-> "sock", port |-> 0]

Path2(call, dir, f)   == [call |-> call, path |-> <<dir, f>>, write |-> FALSE]
Connect(fd, peer)     == [call |-> "connect", fd |-> fd, peer |-> peer]
Data(call, fd, peer, payload) == [call |-> call, fd |-> fd, peer |-> peer, payload |-> payload]

Packet(response, answers) ==
  [opcode |-> 0, questions |-> 1, question |-> "name", qtype |-> "A", class |-> "IN",
   response |-> response, answers |-> answers]
A(address) == [type |-> "A", address |-> address]
Asking     == Packet(FALSE, <<>>)
Answering  == Packet(TRUE, <<[type |-> "CNAME", address |-> None], A("a"), [type |-> "cut", address |-> None], A("b")>>)
Renaming   == [Answering EXCEPT !.question = "other"]
Reversal   == [Asking EXCEPT !.qtype = "PTR"]

\* Two tasks connect to one address that a resolver names; a descriptor of a
\* resolver is used again for another peer.
Network ==
  [p |-> {Connect(3, Inet("r", 53)), Data("recvfrom", 3, None, None), Connect(3, Inet("a", 443))},
   q |-> {Connect(3, Inet("a", 443)), Data("sendto", 4, Inet("s", 53), Asking)}]
Tools ==
  [p |-> {Path2("execve", "bin", "tool"), Path2("execve", "sbin", "tool"), Path2("openat", "proc", "lib.so")},
   q |-> {Path2("stat", "bin", "tool"), Path2("stat", "sbin", "tool"), Path2("execve", "work", "make")}]
Server ==
  [p |-> {[call |-> "bind", fd |-> 3, peer |-> Inet("any", 80)], [call |-> "listen", fd |-> 3], [call |-> "socket"]},
   q |-> {Connect(4, Unix), Data("sendto", 3, None, Reversal), Connect(3, Inet("local", 80))}]

MCReply ==
  LET Plain(errnos) == {[errno |-> e, peer |-> None, payload |-> None] : e \in errnos}
  IN  [call \in {"connect", "bind", "listen", "socket", "sendto", "recvfrom"} |->
         CASE call = "connect"  -> Plain({"ok", "ECONNREFUSED", "EINPROGRESS", "?"})
           [] call = "recvfrom" -> {[errno |-> "ok", peer |-> None, payload |-> m] : m \in {Answering, Renaming, None}}
                                  \cup {[errno |-> "ok", peer |-> peer, payload |-> Renaming] : peer \in {Inet("s", 53), Inet("a", 443)}}
           [] call = "listen"   -> Plain({"ok", "EADDRINUSE"})
           [] OTHER             -> Plain({"ok"})]

\* Where tool and make stand.
Standing(present) ==
  [path \in {"bin", "sbin", "work", "proc"} \X {"tool", "make", "lib.so"} |->
     IF path \in DOMAIN present THEN present[path] ELSE "absent"]
MCFileSystems ==
  {Standing([path \in {<<"work", "make">>, <<"bin", "make">>, <<"bin", "tool">>, <<"proc", "lib.so">>} |-> "executable"]),
   Standing([path \in {<<"work", "make">>, <<"bin", "make">>, <<"sbin", "make">>, <<"sbin", "tool">>, <<"bin", "tool">>} |->
               IF path = <<"bin", "tool">> THEN "plain" ELSE "executable"]),
   Standing([path \in {<<"sbin", "make">>, <<"sbin", "tool">>, <<"bin", "make">>} |-> IF path[1] = "bin" THEN "plain" ELSE "executable"]),
   Standing([path \in {} |-> "absent"])}
MCWorkloads ==
  [program : {Tools}, files : MCFileSystems] \cup [program : {Network, Server}, files : {Standing([path \in {} |-> "absent"])}]
MCSearchPath == <<"bin", "sbin">>
=============================================================================
