-------------------------------- MODULE Ledger --------------------------------
(***************************************************************************)
(* The evidence ledger (crates/ovid-evidence: ledger.rs, record.rs): a file  *)
(* of one record per line, each naming the digest of the one before it, and  *)
(* the handles of the commands that have it open.  A handle keeps the head    *)
(* and an index in memory; it reads the file once, when it is opened.         *)
(*                                                                         *)
(* writeln! is two writes, the record and the end of its line, and a write    *)
(* can stop short (a full disk).  An entry of `file` is a record with what    *)
(* became of its line: whole if all of it was written, ended if a line end    *)
(* follows it.  Digests do not collide: a record's stands for the record, and *)
(* is its id here.                                                          *)
(* Seeded mistake: OpenAtNone.                                               *)
(***************************************************************************)
EXTENDS Naturals, Sequences, FiniteSets

CONSTANTS Cmd, None
ASSUME CommandAssumption == Cmd \subseteq Nat /\ None \notin Cmd

VARIABLES
  file,    \* the lines of evidence.jsonl
  handle   \* EvidenceLedger of each command: head, index, count; owing is
           \* TRUE between the two writes of an append

ledgerVars == <<file, handle>>

Closed == [open |-> FALSE, head |-> None, index |-> {}, count |-> 0, owing |-> FALSE]

LastId == IF file = <<>> THEN None ELSE file[Len(file)].id
Written == {file[i].id : i \in DOMAIN file}

\* Every line parses: it holds one record, all of it.
Readable ==
  \A i \in DOMAIN file : file[i].whole /\ (i < Len(file) => file[i].ended)

\* verify_chain, on a file that can be read.
Chained ==
  \A i \in DOMAIN file : file[i].previous = IF i = 1 THEN None ELSE file[i - 1].id

LedgerInit ==
  /\ file = <<>>
  /\ handle = [c \in Cmd |-> Closed]

\* open: reads every record, or fails on the first line it cannot parse.
OpenAtNone(c) ==
  /\ Readable
  /\ handle' = [handle EXCEPT ![c] = [Closed EXCEPT !.open = TRUE, !.index = Written]]
  /\ UNCHANGED file
Open(c) ==
  /\ Readable
  /\ handle' = [handle EXCEPT ![c] = [Closed EXCEPT !.open = TRUE, !.head = LastId, !.index = Written]]
  /\ UNCHANGED file

\* IdGenerator::next
NextId(c) == <<c, handle[c].count + 1>>

Idle(c) == handle[c].open /\ ~handle[c].owing

\* append, first write: the record linked to the head this handle knows.
Entry(c, tier, whole) ==
  [id |-> NextId(c), previous |-> handle[c].head, tier |-> tier, whole |-> whole, ended |-> FALSE]
WriteRecord(c, tier) ==
  /\ Idle(c)
  /\ file' = Append(file, Entry(c, tier, TRUE))
  /\ handle' = [handle EXCEPT ![c].owing = TRUE]

\* append, second write: the line end lands wherever the file ends now.
EndLine(c) ==
  /\ handle[c].owing
  /\ file' = [file EXCEPT ![Len(file)].ended = TRUE]
  /\ handle' = [handle EXCEPT ![c].owing = FALSE, ![c].count = @ + 1,
                              ![c].head = NextId(c), ![c].index = @ \cup {NextId(c)}]

\* append, cut short: it returns an error and part of a record stays.
WriteShort(c, tier) ==
  /\ Idle(c)
  /\ file' = Append(file, Entry(c, tier, FALSE))
  /\ UNCHANGED handle
=============================================================================
