-------------------------------- MODULE Bundle --------------------------------
(***************************************************************************)
(* The bundle directory and the commands that write and read it             *)
(* (crates/ovid-cli: prove_cmd.rs, inspect_cmd.rs; ovid-evidence claim.rs):   *)
(* prove, inspect, replay and explain, run one after another or at once, each *)
(* of which may be killed at any point or fail.  Files are written by          *)
(* fs::write, which empties a file before it fills it.                       *)
(*                                                                         *)
(* The analysis itself is one conclusion and a world with one of four         *)
(* outcomes; how it is reached is in Prove.  ovid.yaml, timings.json and        *)
(* compose.yaml are left out: nothing reads them.                            *)
(* Seeded mistakes: ClaimAhead, SkipLock, VerifyAnyway.                       *)
(***************************************************************************)
EXTENDS Ledger

CONSTANTS
  Torn,         \* the content of a file that was emptied and not yet filled
  Kind,         \* the commands that may run: prove, inspect, replay, explain
  MaxRevision,  \* bound on the revisions of the source
  MaxOverlap    \* bound on the commands started once one has overlapped another

\* Every command that journals does so once.
Record == {<<c, 1>> : c \in Cmd}
Claims == [by : Cmd, support : Record]

\* What is written to a file is neither an absent file nor an emptied one.
ASSUME BundleAssumption ==
  /\ Kind \subseteq {"prove", "inspect", "replay", "explain"}
  /\ MaxRevision \in Nat \ {0}
  /\ None # Torn
  /\ \A claims \in SUBSET Claims : claims \notin {None, Torn}
  /\ \A proof \in [by : Cmd, revision : 1 .. MaxRevision] : proof \notin {None, Torn}
  /\ \A lock \in [by : Cmd, revision : 1 .. MaxRevision,
                  status : {"proposed", "replay-failed", "verified"}] : lock \notin {None, Torn}

VARIABLES
  revision,  \* the source tree as it is now
  cmd,       \* each command: its kind, what it does next, what it read
  disk,      \* proof.json, claims.json, world.lock.yaml, ovid.json
  replayed,  \* history: the clean replays that passed
  locked,    \* history: the analyses that wrote a lock
  saved,     \* history: the claims that were ever saved
  alone,     \* history: no two commands ran at once so far
  cut        \* history: an append was stopped before its line end

history == <<replayed, locked, saved, alone, cut>>
vars == <<ledgerVars, revision, cmd, disk, history>>

Complete(f) == disk[f] \notin {None, Torn}

Waiting == [kind |-> None, at |-> "waiting", revision |-> 0, world |-> None, proof |-> 0,
            claims |-> {}, lock |-> None, passed |-> FALSE, missing |-> {}]

At(c, kind, place) == cmd[c].kind = kind /\ cmd[c].at = place
\* A command that ends leaves nothing of what it held in memory.
Ended(c, how)      == [Waiting EXCEPT !.kind = cmd[c].kind, !.at = how]
Go(c, place) ==
  cmd' = [cmd EXCEPT ![c] = IF place \in {"done", "failed"} THEN Ended(c, place)
                            ELSE [@ EXCEPT !.at = place]]
Over(c)    == cmd[c].at \in {"done", "failed"}
Running    == {c \in Cmd : cmd[c].at # "waiting" /\ ~Over(c)}
Started    == {c \in Cmd : cmd[c].at # "waiting"}
Newest(c)  == c \in Started /\ \A d \in Started : d <= c

Init ==
  /\ LedgerInit
  /\ revision = 1
  /\ cmd = [c \in Cmd |-> Waiting]
  /\ disk = [f \in {"proof", "claims", "lock", "manifest"} |-> None]
  /\ replayed = {} /\ locked = {} /\ saved = {} /\ alone = TRUE /\ cut = FALSE

FirstStep(kind) ==
  CASE kind = "prove"  -> "acquire" [] kind = "inspect" -> "open"
    [] kind = "replay" -> "proof"   [] kind = "explain" -> "open"

\* main: the user runs a command.  They are numbered in the order they start.
Start(c) ==
  /\ cmd[c].at = "waiting" /\ \A d \in Cmd : d < c => d \in Started
  /\ (Running = {} /\ alone) \/ Cardinality(Started) < MaxOverlap
  /\ \E kind \in Kind : cmd' = [cmd EXCEPT ![c] = [Waiting EXCEPT !.kind = kind, !.at = FirstStep(kind)]]
  /\ alone' = (alone /\ Running = {})
  /\ UNCHANGED <<ledgerVars, revision, disk, replayed, locked, saved, cut>>

Commit ==
  /\ revision < MaxRevision /\ revision' = revision + 1
  /\ UNCHANGED <<ledgerVars, cmd, disk, history>>

\* A command is killed, or returns an error (`?`) and exits.
Stop(c) ==
  /\ c \in Running
  /\ Go(c, "failed")
  /\ cut' = (cut \/ handle[c].owing)
  /\ UNCHANGED <<ledgerVars, revision, disk, replayed, locked, saved, alone>>

(***************************************************************************)
(* Steps of any command.                                                    *)
(***************************************************************************)
Only(changed) == changed /\ UNCHANGED <<ledgerVars, revision, disk, history>>

OpenLedger(c, next) ==
  /\ IF Readable THEN Open(c) /\ Go(c, next) ELSE Go(c, "failed") /\ UNCHANGED ledgerVars
  /\ UNCHANGED <<revision, disk, history>>

Journal(c, tier) ==
  /\ WriteRecord(c, tier)
  /\ UNCHANGED <<revision, cmd, disk, history>>

JournalShort(c, tier) ==
  /\ WriteShort(c, tier)
  /\ Go(c, "failed") /\ cut' = TRUE
  /\ UNCHANGED <<revision, disk, replayed, locked, saved, alone>>

Journaled(c, next) ==
  /\ EndLine(c)
  /\ Go(c, next)
  /\ UNCHANGED <<revision, disk, history>>

\* fs::write
Truncate(c, f, next) ==
  /\ disk' = [disk EXCEPT ![f] = Torn]
  /\ Go(c, next)
  /\ UNCHANGED <<ledgerVars, revision, history>>

Fill(c, f, content, next) ==
  /\ disk' = [disk EXCEPT ![f] = content]
  /\ Go(c, next)
  /\ UNCHANGED <<ledgerVars, revision>>

(***************************************************************************)
(* ClaimStore.                                                              *)
(***************************************************************************)
Stored == IF disk["claims"] = None THEN {} ELSE disk["claims"]

\* upsert: a claim has an id of its own and is supported by what the command
\* journaled last.
ClaimAhead(c) == [by |-> c, support |-> NextId(c)]
NewClaim(c) == [by |-> c, support |-> handle[c].head]

\* open, then upsert of the claims the analysis gives.
ReadClaims(c, claims, next) ==
  Only(IF disk["claims"] = Torn THEN Go(c, "failed")
       ELSE cmd' = [cmd EXCEPT ![c].claims = Stored \cup claims, ![c].at = next])

SaveClaims(c, next) ==
  /\ Fill(c, "claims", cmd[c].claims, next)
  /\ saved' = saved \cup cmd[c].claims
  /\ UNCHANGED <<replayed, locked, alone, cut>>

(***************************************************************************)
(* ovid prove                                                               *)
(***************************************************************************)
ProveAcquire(c) ==
  /\ At(c, "prove", "acquire")
  /\ Only(cmd' = [cmd EXCEPT ![c].revision = revision, ![c].at = "open"])

ProveOpen(c) == At(c, "prove", "open") /\ OpenLedger(c, "journal")

\* The conclusion is a T0 record; then the world is synthesized, and perhaps
\* replayed.  A label is given or not.
ProveJournal(c) == At(c, "prove", "journal") /\ (Journal(c, "T0") \/ JournalShort(c, "T0") \/ Journaled(c, "world"))

ProveWorld(c) ==
  /\ At(c, "prove", "world")
  /\ \E world \in {None, "proposed", "replay-failed", "verified"} :
       /\ cmd' = [cmd EXCEPT ![c].world = world, ![c].at = "proof"]
       /\ replayed' = replayed \cup
            IF world = "verified" THEN {[analysis |-> c, revision |-> cmd[c].revision]} ELSE {}
  /\ UNCHANGED <<ledgerVars, revision, disk, locked, saved, alone, cut>>

ProveProof(c) ==
  \/ At(c, "prove", "proof") /\ Truncate(c, "proof", "proof filling")
  \/ /\ At(c, "prove", "proof filling")
     /\ Fill(c, "proof", [by |-> c, revision |-> cmd[c].revision], "claims")
     /\ UNCHANGED history

SkipLock(c) == "manifest"
AfterClaims(c) == IF cmd[c].world = None THEN "manifest" ELSE "lock"

ProveClaims(c) ==
  \/ At(c, "prove", "claims") /\ \E claims \in {{}, {NewClaim(c)}} : ReadClaims(c, claims, "claims writing")
  \/ At(c, "prove", "claims writing") /\ Truncate(c, "claims", "claims filling")
  \/ At(c, "prove", "claims filling") /\ SaveClaims(c, AfterClaims(c))

ProveLock(c) ==
  \/ At(c, "prove", "lock") /\ Truncate(c, "lock", "lock filling")
  \/ /\ At(c, "prove", "lock filling")
     /\ Fill(c, "lock", [by |-> c, revision |-> cmd[c].revision, status |-> cmd[c].world], "manifest")
     /\ locked' = locked \cup {c}
     /\ UNCHANGED <<replayed, saved, alone, cut>>

Manifest(c) == [by |-> c, mode |-> cmd[c].kind, head |-> handle[c].head, status |-> cmd[c].world]
WriteManifest(c) ==
  \/ cmd[c].kind \in {"prove", "inspect"} /\ cmd[c].at = "manifest" /\ Truncate(c, "manifest", "manifest filling")
  \/ cmd[c].at = "manifest filling" /\ Fill(c, "manifest", Manifest(c), "done") /\ UNCHANGED history

(***************************************************************************)
(* ovid inspect: the claims are read when the bundle is opened.               *)
(***************************************************************************)
InspectOpen(c) ==
  \/ At(c, "inspect", "open") /\ OpenLedger(c, "store")
  \/ At(c, "inspect", "store") /\ ReadClaims(c, {}, "journal")

InspectJournal(c) ==
  At(c, "inspect", "journal") /\ (Journal(c, "T4") \/ JournalShort(c, "T4") \/ Journaled(c, "claims"))

InspectClaims(c) ==
  \/ /\ At(c, "inspect", "claims")
     /\ Only(cmd' = [cmd EXCEPT ![c].claims = @ \cup {NewClaim(c)}, ![c].at = "claims writing"])
  \/ At(c, "inspect", "claims writing") /\ Truncate(c, "claims", "claims filling")
  \/ At(c, "inspect", "claims filling") /\ SaveClaims(c, "manifest")

(***************************************************************************)
(* ovid replay: the scope is that of proof.json, the tree is the current one. *)
(***************************************************************************)
ReplayRead(c) ==
  /\ At(c, "replay", "proof")
  /\ Only(IF Complete("proof")
          THEN cmd' = [cmd EXCEPT ![c].proof = disk["proof"].by, ![c].at = "acquire"]
          ELSE Go(c, "failed"))

ReplayAcquire(c) ==
  /\ At(c, "replay", "acquire")
  /\ Only(cmd' = [cmd EXCEPT ![c].revision = revision, ![c].at = "open"])

ReplayOpen(c) == At(c, "replay", "open") /\ OpenLedger(c, "run")

ReplayRun(c) ==
  /\ At(c, "replay", "run")
  /\ \E passed \in BOOLEAN :
       /\ cmd' = [cmd EXCEPT ![c].passed = passed, ![c].at = "journal"]
       /\ replayed' = replayed \cup
            IF passed THEN {[analysis |-> cmd[c].proof, revision |-> cmd[c].revision]} ELSE {}
  /\ UNCHANGED <<ledgerVars, revision, disk, locked, saved, alone, cut>>

ReplayJournal(c) ==
  At(c, "replay", "journal") /\ (Journal(c, "T0") \/ JournalShort(c, "T0") \/ Journaled(c, "lock"))

\* A lock that is missing or does not parse is left as it is.
ReplayLock(c) ==
  \/ /\ At(c, "replay", "lock")
     /\ Only(IF Complete("lock")
             THEN cmd' = [cmd EXCEPT ![c].lock = disk["lock"], ![c].at = "lock writing"]
             ELSE Go(c, "done"))
  \/ At(c, "replay", "lock writing") /\ Truncate(c, "lock", "lock filling")

VerifyAnyway(c) == [cmd[c].lock EXCEPT !.status = "verified"]
Updated(c) == [cmd[c].lock EXCEPT !.status = IF cmd[c].passed THEN "verified" ELSE "replay-failed"]
ReplayUpdate(c) ==
  /\ At(c, "replay", "lock filling")
  /\ Fill(c, "lock", Updated(c), "done")
  /\ UNCHANGED history

(***************************************************************************)
(* ovid explain: the ledger is opened before the claims.                     *)
(***************************************************************************)
Missing(c) == {claim.support : claim \in Stored} \ handle[c].index
Explain(c) ==
  \/ At(c, "explain", "open") /\ OpenLedger(c, "claims")
  \/ /\ At(c, "explain", "claims")
     /\ Only(IF disk["claims"] = Torn THEN Go(c, "failed")
             ELSE cmd' = [cmd EXCEPT ![c] = [Ended(c, "done") EXCEPT !.missing = Missing(c)]])

Next ==
  \/ Commit
  \/ \E c \in Cmd :
       \/ Start(c) \/ Stop(c)
       \/ ProveAcquire(c) \/ ProveOpen(c) \/ ProveJournal(c) \/ ProveWorld(c) \/ ProveProof(c)
       \/ ProveClaims(c) \/ ProveLock(c) \/ WriteManifest(c)
       \/ InspectOpen(c) \/ InspectJournal(c) \/ InspectClaims(c)
       \/ ReplayRead(c) \/ ReplayAcquire(c) \/ ReplayOpen(c) \/ ReplayRun(c) \/ ReplayJournal(c)
       \/ ReplayLock(c) \/ ReplayUpdate(c)
       \/ Explain(c)

Spec == Init /\ [][Next]_vars

TypeOK ==
  /\ \A i \in DOMAIN file :
       /\ file[i].id \in Record /\ file[i].previous \in Record \cup {None}
       /\ file[i].tier \in {"T0", "T4"} /\ file[i].whole \in BOOLEAN /\ file[i].ended \in BOOLEAN
  /\ \A c \in Cmd : handle[c].index \subseteq Record /\ handle[c].head \in Record \cup {None}
  /\ revision \in 1 .. MaxRevision
  /\ \A c \in Cmd : cmd[c].kind \in Kind \cup {None} /\ cmd[c].claims \subseteq Claims
  /\ Complete("claims") => disk["claims"] \subseteq Claims
  /\ saved \subseteq Claims /\ locked \subseteq Cmd
  /\ replayed \subseteq [analysis : Cmd, revision : 1 .. MaxRevision]

\* The chain verifies for every command (verify_chain), so long as commands
\* did not overlap and none was stopped inside an append: whatever else fails
\* or is killed, the next one can open the ledger and continues the chain.
ChainHolds ==
  alone /\ ~cut =>
    /\ Readable /\ Chained
    /\ \A c \in Running : Idle(c) => handle[c].head = LastId /\ handle[c].index = Written

\* The manifest is written last: until another command starts, one that can be
\* read means that the rest of its bundle is in place, and the head it
\* publishes is the head of the chain.
ManifestSeals ==
  alone /\ Complete("manifest") =>
    LET sealed == disk["manifest"] IN
    Newest(sealed.by) =>
      /\ sealed.head = LastId
      /\ Complete("claims")
      /\ sealed.mode = "prove" => Complete("proof") /\ disk["proof"].by = sealed.by
      /\ sealed.status # None =>
           Complete("lock") /\ disk["lock"].by = sealed.by /\ disk["lock"].status = sealed.status

\* A claim is saved only after the record that supports it is in the ledger, a
\* proved one's host-enforced: with any overlap of commands and any crash.
ClaimsResolve ==
  \A claim \in saved : \E i \in DOMAIN file :
    /\ file[i].id = claim.support /\ file[i].whole
    /\ cmd[claim.by].kind = "prove" => file[i].tier = "T0"

\* Commands run one after another keep each other's claims.
ClaimsKept == alone /\ Complete("claims") => disk["claims"] = saved

\* A lock reads verified only if a clean replay passed of its own analysis, or
\* of a later one that wrote no lock.
LockEarned ==
  alone /\ Complete("lock") /\ disk["lock"].status = "verified" =>
    \E run \in replayed :
      \/ run.analysis = disk["lock"].by
      \/ run.analysis > disk["lock"].by /\ run.analysis \notin locked

\* explain reads the ledger before the claims, so evidence it calls missing can
\* only have been written since; with one command at a time none is missing.
ExplainResolves ==
  \A c \in Cmd : cmd[c].missing \subseteq Written /\ (alone => cmd[c].missing = {})

\* Claims are typed, supported, kept, and explained.
ClaimsHold == TypeOK /\ ClaimsResolve /\ ClaimsKept /\ ExplainResolves

\* "A lock is only labeled verified after a clean replay succeeds": a replay of
\* the analysis whose lock it is.
VerifiedLockReplayed ==
  Complete("lock") /\ disk["lock"].status = "verified" =>
    \E run \in replayed : run.analysis = disk["lock"].by
=============================================================================
