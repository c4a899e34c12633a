------------------------------ MODULE BundleProofs ------------------------------
(***************************************************************************)
(* Theorems about Bundle for any number of commands, of any kinds, with any   *)
(* overlap, any kills and any failures: the claims of the bundle are typed,   *)
(* supported by the ledger, kept and explained; and, so long as no two        *)
(* commands overlap, the chain verifies, the manifest vouches for the rest    *)
(* and a verified lock is earned.                                           *)
(***************************************************************************)
EXTENDS Bundle, SequenceTheorems, TLAPS

-----------------------------------------------------------------------------
(* Types.                                                                   *)

Line   == [id : Record, previous : Record \cup {None}, tier : {"T0", "T4"},
           whole : BOOLEAN, ended : BOOLEAN]
Handle == [open : BOOLEAN, head : Record \cup {None}, index : SUBSET Record, count : Nat, owing : BOOLEAN]
Status == {None, "proposed", "replay-failed", "verified"}
Proof  == [by : Cmd, revision : Nat]
Lock   == [by : Cmd, revision : Nat, status : Status]
Place  == {"waiting", "acquire", "open", "store", "journal", "world", "proof", "proof filling", "claims",
           "claims writing", "claims filling", "lock", "lock writing", "lock filling", "manifest",
           "manifest filling", "run", "done", "failed"}
Held   == [kind : Kind \cup {None}, at : Place, revision : Nat, world : Status, proof : Nat,
           claims : SUBSET Claims, lock : Lock \cup {None}, passed : BOOLEAN, missing : SUBSET Record]

Typed ==
  /\ file \in Seq(Line)
  /\ handle \in [Cmd -> Handle]
  /\ cmd \in [Cmd -> Held]
  /\ revision \in 1 .. MaxRevision
  /\ disk = [f \in {"proof", "claims", "lock", "manifest"} |-> disk[f]]
  /\ Complete("proof") => disk["proof"] \in Proof
  /\ Complete("claims") => disk["claims"] \subseteq Claims
  /\ Complete("lock") => disk["lock"] \in Lock
  /\ saved \subseteq Claims /\ locked \subseteq Cmd
  /\ replayed \subseteq [analysis : Cmd, revision : 1 .. MaxRevision]
  /\ alone \in BOOLEAN

-----------------------------------------------------------------------------
(* The inductive invariant: what the bundle holds, and what each command that *)
(* is under way has read and written.                                       *)

\* The evidence of a claim is in the ledger, all of it.
Backed(claim) ==
  /\ cmd[claim.by].at # "waiting"
  /\ \E i \in DOMAIN file :
       /\ file[i].id = claim.support /\ file[i].whole
       /\ cmd[claim.by].kind = "prove" => file[i].tier = "T0"

Shelved ==
  /\ \A claim \in saved : Backed(claim)
  /\ Complete("claims") => \A claim \in disk["claims"] : Backed(claim)
  /\ disk["claims"] = None => saved = {}
  /\ alone /\ Complete("claims") => disk["claims"] = saved
  /\ alone => \A c, d \in Running : c = d

\* What a command knows of itself at each place it can be.
Placed(c) ==
  /\ cmd[c].at \in {"journal", "store", "run"} => handle[c].count = 0
  /\ cmd[c].at = "store" => ~handle[c].owing
  /\ cmd[c].at \in {"open", "run", "journal", "world"} /\ cmd[c].kind \in {"prove", "replay"} =>
       cmd[c].revision \in 1 .. MaxRevision
  /\ cmd[c].at \in {"acquire", "open", "run"} /\ cmd[c].kind = "replay" => cmd[c].proof \in Cmd
  /\ cmd[c].at \in {"lock writing", "lock filling"} /\ cmd[c].kind = "replay" => cmd[c].lock \in Lock

\* A command about to claim something has journaled what it will cite.
Cites(c) ==
  \/ cmd[c].kind = "prove" /\ cmd[c].at \in {"world", "proof", "proof filling", "claims"}
  \/ cmd[c].kind = "inspect" /\ cmd[c].at = "claims"

\* One between the two writes of an append has written its record.
Owes(c) == cmd[c].at = "journal" /\ cmd[c].kind \in {"prove", "inspect"} /\ handle[c].owing

Evidenced(c) ==
  /\ \A claim \in cmd[c].claims : Backed(claim)
  /\ Cites(c) => Backed(NewClaim(c))
  /\ Owes(c) => Backed([by |-> c, support |-> NextId(c)])
  /\ cmd[c].missing \subseteq Written

\* One that has read the claims of the bundle.
HasRead(c) ==
  \/ cmd[c].kind = "prove" /\ cmd[c].at \in {"claims writing", "claims filling"}
  \/ cmd[c].kind = "inspect" /\ cmd[c].at \in {"journal", "claims", "claims writing", "claims filling"}

\* With no other command about, what it has read is still what is there.
UpToDate(c) ==
  alone =>
    /\ HasRead(c) => saved \subseteq cmd[c].claims
    /\ At(c, "explain", "claims") => handle[c].index = Written
    /\ cmd[c].missing = {}

Local(c) == Placed(c) /\ Evidenced(c) /\ UpToDate(c)

Inv == Typed /\ Shelved /\ \A c \in Cmd : Local(c)

-----------------------------------------------------------------------------
(* What every step of a command leaves in place.                            *)

\* The ledger keeps its records.
Keeps ==
  /\ file' \in Seq(Line)
  /\ DOMAIN file \subseteq DOMAIN file'
  /\ \A i \in DOMAIN file :
       file'[i].id = file[i].id /\ file'[i].whole = file[i].whole /\ file'[i].tier = file[i].tier

\* Only c moves, and a command that has started keeps its kind.
Moves(c) ==
  /\ handle' \in [Cmd -> Handle] /\ cmd' \in [Cmd -> Held]
  /\ \A d \in Cmd \ {c} : cmd'[d] = cmd[d] /\ handle'[d] = handle[d]
  /\ cmd[c].at # "waiting" => cmd'[c].at # "waiting" /\ cmd'[c].kind = cmd[c].kind

\* With no overlap so far, c is the command that is running.
Sole(c) == alone' => alone /\ Running \subseteq {c}

\* A file that is not written keeps its records.
LEMMA FileKept == ASSUME Typed, file' = file PROVE Keeps
BY DEF Typed, Keeps

\* What is backed stays backed.
LEMMA BackedKept ==
  ASSUME Typed, NEW c \in Cmd, Moves(c), Keeps,
         NEW claim, claim.by \in Cmd, Backed(claim)
  PROVE  Backed(claim)'
<1>1. cmd'[claim.by].at # "waiting" /\ cmd'[claim.by].kind = cmd[claim.by].kind
  BY DEF Moves, Backed
<1>2. PICK i \in DOMAIN file :
        /\ file[i].id = claim.support /\ file[i].whole
        /\ cmd[claim.by].kind = "prove" => file[i].tier = "T0"
  BY DEF Backed
<1>3. i \in DOMAIN file' /\ file'[i].id = claim.support /\ file'[i].whole
      /\ (cmd'[claim.by].kind = "prove" => file'[i].tier = "T0")
  BY <1>1, <1>2 DEF Keeps
<1> QED BY <1>1, <1>3 DEF Backed

\* Records in the ledger stay there.
LEMMA WrittenKept == ASSUME Keeps PROVE Written \subseteq Written'
BY DEF Keeps, Written

\* A step of c disturbs nothing another command knows.
LEMMA OthersKept ==
  ASSUME Inv, NEW c \in Cmd, Moves(c), Keeps, Sole(c)
  PROVE  \A d \in Cmd \ {c} : Local(d)'
<1> SUFFICES ASSUME NEW d \in Cmd \ {c} PROVE Local(d)'
  OBVIOUS
<1>1. Typed /\ Local(d) /\ cmd'[d] = cmd[d] /\ handle'[d] = handle[d]
  BY DEF Inv, Moves
<1>2. Placed(d)'
  BY <1>1 DEF Local, Placed
<1>3. Evidenced(d)'
  <2>1. \A claim \in cmd[d].claims : claim.by \in Cmd
    BY <1>1 DEF Typed, Held, Claims
  <2>2. \A claim \in cmd'[d].claims : Backed(claim)'
    BY <1>1, <2>1, BackedKept DEF Local, Evidenced
  <2>3. Cites(d)' => Backed(NewClaim(d))'
    <3> SUFFICES ASSUME Cites(d)' PROVE Backed(NewClaim(d))'
      OBVIOUS
    <3>1. Backed([by |-> d, support |-> handle[d].head])
      BY <1>1 DEF Cites, Local, Evidenced, NewClaim
    <3>2. Backed([by |-> d, support |-> handle[d].head])'
      BY <1>1, <3>1, BackedKept DEF Backed, Moves, Keeps
    <3> QED BY <3>2, <1>1 DEF NewClaim
  <2>4. Owes(d)' => Backed([by |-> d, support |-> NextId(d)])'
    BY <1>1, BackedKept DEF Owes, Local, Evidenced, Backed, Moves, Keeps, NextId
  <2>5. cmd'[d].missing \subseteq Written'
    BY <1>1, WrittenKept DEF Local, Evidenced
  <2> QED BY <2>2, <2>3, <2>4, <2>5 DEF Evidenced
<1>4. UpToDate(d)'
  <2> SUFFICES ASSUME alone' PROVE (HasRead(d)' => saved' \subseteq cmd'[d].claims)
                                   /\ (At(d, "explain", "claims")' => (handle[d].index = Written)')
                                   /\ cmd'[d].missing = {}
    BY DEF UpToDate
  <2>1. d \notin Running /\ alone
    BY DEF Sole
  <2>2. ~HasRead(d)' /\ ~At(d, "explain", "claims")'
    BY <1>1, <2>1 DEF Running, Over, HasRead, At
  <2>3. cmd'[d].missing = {}
    BY <1>1, <2>1 DEF Local, UpToDate
  <2> QED BY <2>2, <2>3
<1> QED BY <1>2, <1>3, <1>4 DEF Local

\* What is on the shelf stays there in a step that writes no claims.
LEMMA ShelfKept ==
  ASSUME Inv, NEW c \in Running, Moves(c), Keeps,
         saved' = saved, disk'["claims"] = disk["claims"], alone' = alone
  PROVE  Shelved'
<1>1. Typed /\ Shelved /\ c \in Cmd
  BY DEF Inv, Running
<1>2. \A claim \in saved' : Backed(claim)'
  BY <1>1, BackedKept DEF Typed, Shelved, Claims
<1>3. Complete("claims")' => \A claim \in disk'["claims"] : Backed(claim)'
  BY <1>1, BackedKept DEF Typed, Shelved, Claims, Complete
<1>4. Running' \subseteq Running
  BY DEF Running, Over, Moves
<1> QED BY <1>1, <1>2, <1>3, <1>4 DEF Shelved, Complete

\* A step of a command that is running, told by what it does to the command.
LEMMA StepKept ==
  ASSUME Inv, NEW c \in Running, Moves(c), Keeps, alone' = alone,
         Typed', Shelved', Local(c)'
  PROVE  Inv'
<1>1. Sole(c) /\ c \in Cmd
  BY DEF Inv, Shelved, Sole, Running
<1>2. \A d \in Cmd \ {c} : Local(d)'
  BY <1>1, OthersKept
<1> QED BY <1>1, <1>2 DEF Inv

-----------------------------------------------------------------------------
(* The steps of any command.                                                *)

\* Going on changes where a command is; ending empties its memory.
LEMMA Going ==
  ASSUME Typed, NEW c \in Running, NEW place \in Place, place # "waiting", Go(c, place)
  PROVE  /\ cmd' \in [Cmd -> Held] /\ \A d \in Cmd \ {c} : cmd'[d] = cmd[d]
         /\ cmd'[c].kind = cmd[c].kind /\ cmd'[c].at = place
         /\ place \notin {"done", "failed"} => cmd'[c] = [cmd[c] EXCEPT !.at = place]
         /\ place \in {"done", "failed"} => cmd'[c].claims = {} /\ cmd'[c].missing = {}
<1>1. c \in Cmd /\ cmd[c] \in Held
  BY DEF Typed, Running
<1>2. CASE place \in {"done", "failed"}
  <2>1. Ended(c, place) \in Held
    BY <1>1 DEF Ended, Waiting, Held, Status
  <2>2. cmd' = [cmd EXCEPT ![c] = Ended(c, place)]
    BY <1>2 DEF Go
  <2>3. Ended(c, place).kind = cmd[c].kind /\ Ended(c, place).at = place
        /\ Ended(c, place).claims = {} /\ Ended(c, place).missing = {}
    BY DEF Ended, Waiting
  <2> QED BY <1>1, <1>2, <2>1, <2>2, <2>3 DEF Typed
<1>3. CASE place \notin {"done", "failed"}
  <2>1. [cmd[c] EXCEPT !.at = place] \in Held
    BY <1>1 DEF Held
  <2>2. cmd' = [cmd EXCEPT ![c] = [cmd[c] EXCEPT !.at = place]]
    BY <1>3 DEF Go
  <2>3. [cmd[c] EXCEPT !.at = place].kind = cmd[c].kind /\ [cmd[c] EXCEPT !.at = place].at = place
    BY <1>1 DEF Held
  <2> QED BY <1>1, <1>3, <2>1, <2>2, <2>3 DEF Typed
<1> QED BY <1>2, <1>3

\* A command that has ended knows nothing.
LEMMA EndedKnowsNothing ==
  ASSUME NEW c, (cmd[c].at)' \in {"done", "failed"}, (cmd[c].claims)' = {}, (cmd[c].missing)' = {}
  PROVE  Local(c)'
BY DEF Local, Placed, Evidenced, UpToDate, HasRead, At, Cites, Owes

\* A step in which nothing changes but c, and c ends.
LEMMA EndKept ==
  ASSUME Inv, NEW c \in Running, NEW how \in {"done", "failed"}, Go(c, how), Keeps,
         handle' = handle, UNCHANGED <<revision, disk, replayed, locked, saved, alone>>
  PROVE  Inv'
<1>1. Typed /\ c \in Cmd
  BY DEF Inv, Running
<1>2. /\ cmd' \in [Cmd -> Held] /\ \A d \in Cmd \ {c} : cmd'[d] = cmd[d]
      /\ cmd'[c].kind = cmd[c].kind /\ cmd'[c].at = how
      /\ cmd'[c].claims = {} /\ cmd'[c].missing = {}
  <2>1. how \in Place /\ how # "waiting"
    BY DEF Place
  <2> QED BY <1>1, <2>1, Going
<1>3. Moves(c)
  BY <1>1, <1>2 DEF Typed, Moves
<1>4. Typed'
  BY <1>1, <1>2 DEF Keeps, Typed, Complete
<1>5. Shelved'
  BY <1>3, ShelfKept
<1>6. Local(c)'
  BY <1>2, EndedKnowsNothing
<1> QED BY <1>3, <1>4, <1>5, <1>6, StepKept

\* A step in which nothing changes but what c holds.
LEMMA HeldKept ==
  ASSUME Inv, NEW c \in Running, Moves(c), Local(c)',
         replayed' \subseteq [analysis : Cmd, revision : 1 .. MaxRevision],
         UNCHANGED <<ledgerVars, revision, disk, locked, saved, alone>>
  PROVE  Inv'
<1>1. Typed /\ c \in Cmd
  BY DEF Inv, Running
<1>2. Keeps
  BY <1>1, FileKept DEF ledgerVars
<1>3. Typed'
  BY <1>1 DEF ledgerVars, Typed, Complete, Moves
<1>4. Shelved'
  BY <1>2, ShelfKept
<1> QED BY <1>2, <1>3, <1>4, StepKept

\* What c holds is as well supported after a step of its own.
LEMMA ClaimsStayBacked ==
  ASSUME Inv, NEW c \in Running, Moves(c), Keeps, cmd'[c].claims \subseteq cmd[c].claims
  PROVE  \A claim \in cmd'[c].claims : Backed(claim)'
<1>1. Typed /\ c \in Cmd /\ Local(c) /\ cmd[c].claims \subseteq Claims
  BY DEF Inv, Running, Typed, Held
<1> QED BY <1>1, BackedKept DEF Local, Evidenced, Claims

\* What a command found missing is still written.
LEMMA MissingStaysWritten ==
  ASSUME Inv, NEW c \in Running, Keeps, cmd'[c].missing \subseteq cmd[c].missing
  PROVE  cmd'[c].missing \subseteq Written'
<1>1. Local(c)
  BY DEF Inv, Running
<1> QED BY <1>1, WrittenKept DEF Local, Evidenced

\* What a command is about to cite stays backed while its handle is untouched.
LEMMA CitesKept ==
  ASSUME Inv, NEW c \in Running, Moves(c), Keeps, handle' = handle, Cites(c)
  PROVE  Backed(NewClaim(c))'
<1>1. Typed /\ Local(c) /\ c \in Cmd
  BY DEF Inv, Running
<1>2. Backed([by |-> c, support |-> handle[c].head])
  BY <1>1 DEF Local, Evidenced, NewClaim
<1>3. Backed([by |-> c, support |-> handle[c].head])'
  BY <1>1, <1>2, BackedKept DEF Backed, Moves, Keeps
<1> QED BY <1>3 DEF NewClaim

\* OpenLedger: the command goes on with a fresh handle, or ends.
LEMMA OpenKept ==
  ASSUME Inv, NEW c \in Running, NEW next \in {"journal", "store", "run", "claims"},
         OpenLedger(c, next), cmd[c].at = "open",
         next = "journal" => cmd[c].kind = "prove",
         next = "store" => cmd[c].kind = "inspect",
         next = "run" => cmd[c].kind = "replay",
         next = "claims" => cmd[c].kind = "explain"
  PROVE  Inv'
<1>1. Typed /\ Local(c) /\ c \in Cmd
  BY DEF Inv, Running
<1>2. file' = file /\ UNCHANGED <<revision, disk, replayed, locked, saved, alone>>
  BY DEF OpenLedger, Open, ledgerVars, history
<1>3. Keeps
  BY <1>1, <1>2, FileKept
<1>4. CASE Readable
  <2>1. Open(c) /\ Go(c, next) /\ next \in Place /\ next # "waiting" /\ next \notin {"done", "failed"}
    BY <1>4 DEF OpenLedger, Place
  <2>2. /\ cmd' \in [Cmd -> Held] /\ \A d \in Cmd \ {c} : cmd'[d] = cmd[d]
        /\ cmd'[c].kind = cmd[c].kind /\ cmd'[c].at = next
        /\ cmd'[c] = [cmd[c] EXCEPT !.at = next]
    BY <1>1, <2>1, Going
  <2>3. LastId \in Record \cup {None} /\ Written \subseteq Record
    <3>1. \A i \in DOMAIN file : file[i].id \in Record
      <4>1. \A i \in DOMAIN file : file[i] \in Line
        BY <1>1 DEF Typed
      <4> QED BY <4>1 DEF Line
    <3>2. file # <<>> => Len(file) \in DOMAIN file
      BY <1>1 DEF Typed
    <3> QED BY <3>1, <3>2 DEF LastId, Written
  <2>4. DEFINE fresh == [Closed EXCEPT !.open = TRUE, !.head = LastId, !.index = Written]
  <2>5. fresh \in Handle /\ fresh.count = 0 /\ fresh.owing = FALSE /\ fresh.index = Written
    BY <2>3 DEF Closed, Handle
  <2>6. handle' = [handle EXCEPT ![c] = fresh]
    BY <2>1 DEF Open
  <2>7. /\ handle' \in [Cmd -> Handle] /\ \A d \in Cmd \ {c} : handle'[d] = handle[d]
        /\ handle'[c] = fresh
    <3> HIDE DEF fresh
    <3> QED BY <1>1, <2>5, <2>6 DEF Typed
  <2>8. Moves(c)
    BY <2>2, <2>7 DEF Moves
  <2>9. Typed'
    BY <1>1, <1>2, <2>2, <2>7 DEF Typed, Complete
  <2>10. Shelved'
    BY <1>2, <1>3, <2>8, ShelfKept
  <2>11. cmd'[c].claims = cmd[c].claims /\ cmd'[c].missing = cmd[c].missing
         /\ cmd'[c].revision = cmd[c].revision /\ cmd'[c].proof = cmd[c].proof
    BY <1>1, <2>2 DEF Typed, Held
  <2>12. Placed(c)'
    BY <1>1, <2>2, <2>5, <2>7, <2>11 DEF Local, Placed
  <2>13. Evidenced(c)'
    <3>1. ~Cites(c)' /\ ~Owes(c)'
      BY <2>2, <2>5, <2>7 DEF Cites, Owes
    <3> QED BY <1>3, <2>8, <2>11, <3>1, ClaimsStayBacked, MissingStaysWritten DEF Evidenced
  <2>14. UpToDate(c)'
    <3>1. Written' = Written
      BY <1>2 DEF Written
    <3>2. ~HasRead(c)'
      BY <2>2 DEF HasRead
    <3>3. (handle[c].index)' = Written
      BY <2>5, <2>7
    <3>4. alone => cmd[c].missing = {}
      BY <1>1 DEF Local, UpToDate
    <3> QED BY <1>2, <2>11, <3>1, <3>2, <3>3, <3>4 DEF UpToDate
  <2>15. Local(c)'
    BY <2>12, <2>13, <2>14 DEF Local
  <2> QED BY <1>2, <1>3, <2>8, <2>9, <2>10, <2>15, StepKept
<1>5. CASE ~Readable
  <2>1. Go(c, "failed") /\ handle' = handle
    BY <1>5 DEF OpenLedger, ledgerVars
  <2> QED BY <1>2, <1>3, <2>1, EndKept
<1> QED BY <1>4, <1>5

\* A command at its journaling step gives the record its one id.
LEMMA OwnRecord ==
  ASSUME Inv, NEW c \in Running, cmd[c].at = "journal"
  PROVE  NextId(c) = <<c, 1>> /\ NextId(c) \in Record
<1>1. c \in Cmd /\ handle[c].count = 0
  BY DEF Inv, Local, Placed, Running
<1>2. <<c, 1>> \in Record
  BY <1>1 DEF Record
<1>3. handle[c].count + 1 = 1
  BY <1>1
<1> QED BY <1>2, <1>3 DEF NextId

\* An entry of the ledger at the end of it.
LEMMA Appended ==
  ASSUME Typed, NEW e \in Line, file' = Append(file, e)
  PROVE  Keeps /\ Len(file) + 1 \in DOMAIN file' /\ file'[Len(file) + 1] = e
<1>1. file \in Seq(Line)
  BY DEF Typed
<1>2. /\ file' \in Seq(Line) /\ DOMAIN file' = 1 .. Len(file) + 1
      /\ file'[Len(file) + 1] = e /\ \A i \in 1 .. Len(file) : file'[i] = file[i]
  BY <1>1
<1> QED BY <1>1, <1>2 DEF Keeps

\* The entry of an append is a line of the ledger.
LEMMA EntryTyped ==
  ASSUME Inv, NEW c \in Running, cmd[c].at = "journal", NEW tier \in {"T0", "T4"}, NEW whole \in BOOLEAN
  PROVE  Entry(c, tier, whole) \in Line
<1>1. c \in Cmd /\ handle[c] \in Handle
  BY DEF Inv, Typed, Running
<1> QED BY <1>1, OwnRecord DEF Entry, Line, Handle

\* The record of an append; its line end is still to come.
LEMMA JournalKept ==
  ASSUME Inv, NEW c \in Running, cmd[c].at = "journal", NEW tier \in {"T0", "T4"},
         cmd[c].kind = "prove" => tier = "T0", Journal(c, tier)
  PROVE  Inv'
<1>1. Typed /\ Local(c) /\ c \in Cmd /\ handle[c] \in Handle
  BY DEF Inv, Running, Typed
<1>2. /\ file' = Append(file, Entry(c, tier, TRUE)) /\ Entry(c, tier, TRUE) \in Line
      /\ handle' = [handle EXCEPT ![c].owing = TRUE]
      /\ UNCHANGED <<revision, cmd, disk, replayed, locked, saved, alone>>
  BY EntryTyped DEF Journal, WriteRecord, history
<1>3. Keeps /\ Len(file) + 1 \in DOMAIN file' /\ file'[Len(file) + 1] = Entry(c, tier, TRUE)
  BY <1>1, <1>2, Appended
<1>4. /\ handle' \in [Cmd -> Handle] /\ \A d \in Cmd \ {c} : handle'[d] = handle[d]
      /\ handle'[c] = [handle[c] EXCEPT !.owing = TRUE]
  <2>1. [handle[c] EXCEPT !.owing = TRUE] \in Handle
    BY <1>1 DEF Handle
  <2> QED BY <1>1, <1>2, <2>1 DEF Typed
<1>5. /\ (handle[c].head)' = handle[c].head /\ (handle[c].count)' = handle[c].count
      /\ (handle[c].owing)' = TRUE
  BY <1>1, <1>4 DEF Handle
<1>6. Moves(c)
  BY <1>1, <1>2, <1>4 DEF Moves, Typed
<1>7. Typed'
  BY <1>1, <1>2, <1>3, <1>4 DEF Typed, Complete, Keeps
<1>8. Shelved'
  BY <1>2, <1>3, <1>6, ShelfKept
<1>9. Local(c)'
  <2>1. Placed(c)'
    BY <1>1, <1>2, <1>5 DEF Local, Placed
  <2>2. ~Cites(c)'
    BY <1>2 DEF Cites
  <2>3. Backed([by |-> c, support |-> NextId(c)])'
    <3>1. NextId(c)' = NextId(c)
      BY <1>5 DEF NextId
    <3>2. /\ file'[Len(file) + 1].id = NextId(c) /\ file'[Len(file) + 1].whole
          /\ file'[Len(file) + 1].tier = tier
      BY <1>3 DEF Entry
    <3> QED BY <1>2, <1>3, <3>1, <3>2 DEF Backed
  <2>4. Evidenced(c)'
    BY <1>2, <1>3, <1>6, <2>2, <2>3, ClaimsStayBacked, MissingStaysWritten DEF Evidenced
  <2>5. UpToDate(c)'
    BY <1>1, <1>2 DEF Local, UpToDate, HasRead, At
  <2> QED BY <2>1, <2>4, <2>5 DEF Local
<1> QED BY <1>2, <1>3, <1>6, <1>7, <1>8, <1>9, StepKept

\* An append cut short ends the command.
LEMMA ShortKept ==
  ASSUME Inv, NEW c \in Running, cmd[c].at = "journal", NEW tier \in {"T0", "T4"}, JournalShort(c, tier)
  PROVE  Inv'
<1>1. Typed
  BY DEF Inv
<1>2. /\ file' = Append(file, Entry(c, tier, FALSE)) /\ Entry(c, tier, FALSE) \in Line
      /\ handle' = handle /\ Go(c, "failed")
      /\ UNCHANGED <<revision, disk, replayed, locked, saved, alone>>
  BY EntryTyped DEF JournalShort, WriteShort
<1>3. Keeps
  BY <1>1, <1>2, Appended
<1> QED BY <1>2, <1>3, EndKept

\* The end of an append: the command can cite its record.
LEMMA JournaledKept ==
  ASSUME Inv, NEW c \in Running, cmd[c].at = "journal", NEW next \in {"world", "claims", "lock"},
         Journaled(c, next),
         next = "world" => cmd[c].kind = "prove",
         next = "claims" => cmd[c].kind = "inspect",
         next = "lock" => cmd[c].kind = "replay"
  PROVE  Inv'
<1>1. Typed /\ Local(c) /\ c \in Cmd /\ handle[c] \in Handle /\ handle[c].owing
  BY DEF Inv, Running, Typed, Journaled, EndLine
<1>2. UNCHANGED <<revision, disk, replayed, locked, saved, alone>>
  BY DEF Journaled, history
<1>3. Keeps
  <2>1. file' = [file EXCEPT ![Len(file)].ended = TRUE] /\ file \in Seq(Line)
    BY <1>1 DEF Journaled, EndLine, Typed
  <2>2. \A e \in Line : [e EXCEPT !.ended = TRUE] \in Line
    BY DEF Line
  <2>3. /\ DOMAIN file' = DOMAIN file /\ file' \in Seq(Line)
        /\ \A i \in DOMAIN file : file'[i] = file[i] \/ file'[i] = [file[i] EXCEPT !.ended = TRUE]
    <3>1. DOMAIN file = 1 .. Len(file) /\ file \in [1 .. Len(file) -> Line] /\ Len(file) \in Nat
      BY <2>1
    <3>2. file' = [i \in 1 .. Len(file) |->
                     IF i = Len(file) THEN [file[i] EXCEPT !.ended = TRUE] ELSE file[i]]
      BY <2>1, <3>1
    <3>3. file' \in [1 .. Len(file) -> Line]
      BY <2>2, <3>1, <3>2
    <3>4. file' \in Seq(Line)
      BY <3>1, <3>3, SeqDef
    <3> QED BY <3>1, <3>2, <3>4
  <2>4. \A i \in DOMAIN file : file[i] \in Line
    BY <2>1
  <2>5. \A e \in Line : LET f == [e EXCEPT !.ended = TRUE] IN
           f.id = e.id /\ f.whole = e.whole /\ f.tier = e.tier
    BY DEF Line
  <2> QED BY <2>3, <2>4, <2>5 DEF Keeps
<1>4. next \in Place /\ next # "waiting" /\ next \notin {"done", "failed"} /\ Go(c, next)
  BY DEF Place, Journaled
<1>5. /\ cmd' \in [Cmd -> Held] /\ \A d \in Cmd \ {c} : cmd'[d] = cmd[d]
      /\ cmd'[c].kind = cmd[c].kind /\ cmd'[c].at = next /\ cmd'[c] = [cmd[c] EXCEPT !.at = next]
  BY <1>1, <1>4, Going
<1>6. cmd'[c].claims = cmd[c].claims /\ cmd'[c].missing = cmd[c].missing /\ cmd'[c].revision = cmd[c].revision
  BY <1>1, <1>5 DEF Typed, Held
<1>7. Owes(c) => /\ cmd'[c].at # "waiting"
                 /\ \E i \in DOMAIN file' : /\ file'[i].id = NextId(c) /\ file'[i].whole
                                            /\ cmd'[c].kind = "prove" => file'[i].tier = "T0"
  <2> SUFFICES ASSUME Owes(c)
               PROVE  \E i \in DOMAIN file' : /\ file'[i].id = NextId(c) /\ file'[i].whole
                                              /\ cmd'[c].kind = "prove" => file'[i].tier = "T0"
    BY <1>4, <1>5
  <2>1. Backed([by |-> c, support |-> NextId(c)])
    BY <1>1 DEF Local, Evidenced
  <2>2. PICK i \in DOMAIN file : /\ file[i].id = NextId(c) /\ file[i].whole
                                 /\ cmd[c].kind = "prove" => file[i].tier = "T0"
    BY <2>1 DEF Backed
  <2> QED BY <1>3, <1>5, <2>2 DEF Keeps
<1>8. DEFINE new == [open |-> handle[c].open, head |-> NextId(c), index |-> handle[c].index \cup {NextId(c)},
                     count |-> handle[c].count + 1, owing |-> FALSE]
<1>9. new \in Handle /\ new.head = NextId(c)
  <2>1. NextId(c) \in Record
    BY OwnRecord
  <2> QED BY <1>1, <2>1 DEF Handle
<1>10. handle' = [handle EXCEPT ![c] = new]
  <2>1. handle' = [handle EXCEPT ![c].owing = FALSE, ![c].count = @ + 1,
                                 ![c].head = NextId(c), ![c].index = @ \cup {NextId(c)}]
    BY DEF Journaled, EndLine
  <2>2. handle \in [Cmd -> Handle]
    BY <1>1 DEF Typed
  <2> QED BY <1>1, <2>1, <2>2 DEF Handle
<1>11. /\ handle' \in [Cmd -> Handle] /\ \A d \in Cmd \ {c} : handle'[d] = handle[d]
       /\ (handle[c].head)' = NextId(c)
  <2> HIDE DEF new
  <2> QED BY <1>1, <1>9, <1>10 DEF Typed
<1> HIDE DEF new
<1>12. Moves(c)
  BY <1>5, <1>11 DEF Moves
<1>13. Typed'
  BY <1>1, <1>2, <1>3, <1>5, <1>11 DEF Typed, Complete, Keeps
<1>14. Shelved'
  BY <1>2, <1>3, <1>12, ShelfKept
<1>15. Local(c)'
  <2>1. Placed(c)'
    BY <1>1, <1>2, <1>5, <1>6 DEF Local, Placed
  <2>2. Cites(c)' => Backed(NewClaim(c))'
    <3> SUFFICES ASSUME Cites(c)' PROVE Backed([by |-> c, support |-> handle[c].head])'
      BY DEF NewClaim
    <3>1. Owes(c)
      BY <1>1, <1>5 DEF Cites, Owes
    <3> QED BY <1>7, <1>11, <3>1 DEF Backed
  <2>3. ~Owes(c)'
    BY <1>5 DEF Owes
  <2>4. Evidenced(c)'
    BY <1>3, <1>6, <1>12, <2>2, <2>3, ClaimsStayBacked, MissingStaysWritten DEF Evidenced
  <2>5. UpToDate(c)'
    BY <1>1, <1>2, <1>5, <1>6 DEF Local, UpToDate, HasRead, At
  <2> QED BY <2>1, <2>4, <2>5 DEF Local
<1> QED BY <1>2, <1>3, <1>12, <1>13, <1>14, <1>15, StepKept

\* A command that goes on to write keeps what it knows.
LEMMA GoesOn ==
  ASSUME Inv, NEW c \in Running,
         NEW next \in {"proof filling", "claims", "claims filling", "lock", "lock filling", "manifest",
                       "manifest filling"},
         Go(c, next), UNCHANGED <<ledgerVars, alone>>,
         next = "proof filling" => At(c, "prove", "proof"),
         next = "claims" => At(c, "prove", "proof filling"),
         next = "claims filling" => HasRead(c) /\ saved' = saved,
         next = "lock filling" => cmd[c].kind = "prove" \/ cmd[c].at = "lock writing"
  PROVE  Moves(c) /\ Keeps /\ Local(c)'
<1>1. Typed /\ Local(c) /\ c \in Cmd /\ cmd[c] \in Held
  BY DEF Inv, Running, Typed
<1>2. Keeps
  BY <1>1, FileKept DEF ledgerVars
<1>3. next \in Place /\ next # "waiting" /\ next \notin {"done", "failed"}
  BY DEF Place
<1>4. /\ cmd' \in [Cmd -> Held] /\ \A d \in Cmd \ {c} : cmd'[d] = cmd[d]
      /\ cmd'[c].kind = cmd[c].kind /\ cmd'[c].at = next /\ cmd'[c] = [cmd[c] EXCEPT !.at = next]
  BY <1>1, <1>3, Going
<1>5. cmd'[c].claims = cmd[c].claims /\ cmd'[c].missing = cmd[c].missing /\ cmd'[c].lock = cmd[c].lock
  BY <1>1, <1>4 DEF Held
<1>6. Moves(c)
  BY <1>1, <1>3, <1>4 DEF Moves, Typed, ledgerVars
<1>7. Placed(c)'
  BY <1>1, <1>4, <1>5 DEF Local, Placed
<1>8. Evidenced(c)'
  <2>1. Cites(c)' => Cites(c)
    BY <1>4 DEF Cites, At
  <2>2. Cites(c) => Backed(NewClaim(c))'
    BY <1>2, <1>6, CitesKept DEF ledgerVars
  <2>3. ~Owes(c)'
    BY <1>4 DEF Owes
  <2> QED BY <1>2, <1>5, <1>6, <2>1, <2>2, <2>3, ClaimsStayBacked, MissingStaysWritten DEF Evidenced
<1>9. UpToDate(c)'
  <2>1. HasRead(c)' => HasRead(c) /\ saved' = saved
    BY <1>4 DEF HasRead, At
  <2>2. ~At(c, "explain", "claims")'
    BY <1>4 DEF At
  <2> QED BY <1>1, <1>5, <2>1, <2>2 DEF Local, UpToDate
<1> QED BY <1>2, <1>6, <1>7, <1>8, <1>9 DEF Local

FileName == {"proof", "claims", "lock", "manifest"}

\* A file is emptied.
LEMMA TruncateKept ==
  ASSUME Inv, NEW c \in Running, NEW f \in FileName,
         NEW next \in {"proof filling", "claims filling", "lock filling", "manifest filling"},
         Truncate(c, f, next),
         next = "proof filling" => At(c, "prove", "proof"),
         next = "claims filling" => HasRead(c),
         next = "lock filling" => cmd[c].kind = "prove" \/ cmd[c].at = "lock writing"
  PROVE  Inv'
<1>1. Typed /\ Shelved /\ c \in Cmd
  BY DEF Inv, Running
<1>2. /\ disk' = [disk EXCEPT ![f] = Torn] /\ Go(c, next)
      /\ UNCHANGED <<ledgerVars, revision, replayed, locked, saved, alone>>
  BY DEF Truncate, history
<1>3. Moves(c) /\ Keeps /\ Local(c)'
  BY <1>2, GoesOn
<1>4. /\ disk' = [g \in FileName |-> disk'[g]] /\ disk'[f] = Torn
      /\ \A g \in FileName \ {f} : disk'[g] = disk[g]
  BY <1>1, <1>2 DEF Typed, FileName
<1>5. \A g \in FileName : Complete(g)' => disk'[g] = disk[g] /\ Complete(g)
  BY <1>4 DEF Complete
<1>6. Typed'
  BY <1>1, <1>2, <1>3, <1>4, <1>5 DEF Typed, FileName, Moves, ledgerVars
<1>7. Shelved'
  <2>1. CASE f = "claims"
    <3>1. ~Complete("claims")' /\ disk'["claims"] # None
      BY <1>4, <2>1, BundleAssumption DEF Complete
    <3>2. \A claim \in saved' : Backed(claim)'
      BY <1>1, <1>2, <1>3, BackedKept DEF Typed, Shelved, Claims
    <3>3. Running' \subseteq Running
      BY <1>3 DEF Running, Over, Moves
    <3> QED BY <1>1, <1>2, <3>1, <3>2, <3>3 DEF Shelved
  <2>2. CASE f # "claims"
    <3>1. disk'["claims"] = disk["claims"]
      BY <1>4, <2>2 DEF FileName
    <3> QED BY <1>2, <1>3, <3>1, ShelfKept
  <2> QED BY <2>1, <2>2
<1> QED BY <1>2, <1>3, <1>6, <1>7, StepKept

\* A file other than the claims is filled.
LEMMA FillKept ==
  ASSUME Inv, NEW c \in Running, NEW f \in FileName \ {"claims"}, NEW content,
         f = "proof" => content \in Proof, f = "lock" => content \in Lock,
         NEW next \in {"claims", "manifest", "done"}, Fill(c, f, content, next),
         next = "claims" => At(c, "prove", "proof filling"),
         locked' \in SUBSET Cmd, UNCHANGED <<replayed, saved, alone>>
  PROVE  Inv'
<1>1. Typed /\ Shelved /\ c \in Cmd
  BY DEF Inv, Running
<1>2. /\ disk' = [disk EXCEPT ![f] = content] /\ Go(c, next)
      /\ UNCHANGED <<ledgerVars, revision>>
  BY DEF Fill
<1>3. Moves(c) /\ Keeps /\ Local(c)'
  <2>1. CASE next = "done"
    <3>1. next \in Place /\ next # "waiting" /\ next \in {"done", "failed"}
      BY <2>1 DEF Place
    <3>2. /\ cmd' \in [Cmd -> Held] /\ \A d \in Cmd \ {c} : cmd'[d] = cmd[d]
          /\ cmd'[c].kind = cmd[c].kind /\ cmd'[c].at = next
          /\ cmd'[c].claims = {} /\ cmd'[c].missing = {}
      BY <1>1, <1>2, <3>1, Going
    <3>3. Local(c)'
      <4>1. (cmd[c].at)' \in {"done", "failed"} /\ (cmd[c].claims)' = {} /\ (cmd[c].missing)' = {}
        BY <3>1, <3>2
      <4> QED BY ONLY <4>1, EndedKnowsNothing
    <3>4. Moves(c)
      BY <1>1, <1>2, <3>1, <3>2 DEF Moves, Typed, ledgerVars
    <3> QED BY <1>1, <1>2, <3>3, <3>4, FileKept DEF ledgerVars
  <2>2. CASE next # "done"
    BY <1>2, <2>2, GoesOn
  <2> QED BY <2>1, <2>2
<1>4. /\ disk' = [g \in FileName |-> disk'[g]] /\ disk'[f] = content
      /\ \A g \in FileName \ {f} : disk'[g] = disk[g]
  BY <1>1, <1>2 DEF Typed, FileName
<1>5. \A g \in FileName \ {f} : Complete(g)' => disk'[g] = disk[g] /\ Complete(g)
  BY <1>4 DEF Complete
<1>6. Typed'
  BY <1>1, <1>2, <1>3, <1>4, <1>5 DEF Typed, FileName, Moves, ledgerVars
<1>7. Shelved'
  <2>1. disk'["claims"] = disk["claims"]
    BY <1>4 DEF FileName
  <2> QED BY <1>2, <1>3, <2>1, ShelfKept
<1> QED BY <1>2, <1>3, <1>6, <1>7, StepKept

\* What a command may claim is a claim, and is backed.
LEMMA OwnClaim ==
  ASSUME Inv, NEW c \in Running, Cites(c)
  PROVE  NewClaim(c) \in Claims /\ Backed(NewClaim(c))
<1>1. Typed /\ Local(c) /\ c \in Cmd
  BY DEF Inv, Running
<1>2. Backed(NewClaim(c))
  BY <1>1 DEF Local, Evidenced
<1>3. handle[c].head \in Record
  <2>1. PICK i \in DOMAIN file : file[i].id = handle[c].head
    BY <1>2 DEF Backed, NewClaim
  <2>2. file[i] \in Line
    BY <1>1 DEF Typed
  <2> QED BY <2>1, <2>2 DEF Line
<1> QED BY <1>1, <1>2, <1>3 DEF NewClaim, Claims

\* The claims on the shelf, for a command that can read them.
LEMMA StoredHeld ==
  ASSUME Inv, disk["claims"] # Torn
  PROVE  /\ Stored \subseteq Claims /\ \A claim \in Stored : Backed(claim)
         /\ alone => Stored = saved
BY DEF Inv, Typed, Shelved, Stored, Complete

\* The claims are read, with some of the command's own.
LEMMA ReadKept ==
  ASSUME Inv, NEW c \in Running, NEW own \in SUBSET Claims, \A claim \in own : Backed(claim),
         NEW next \in {"claims writing", "journal"}, ReadClaims(c, own, next),
         next = "claims writing" => At(c, "prove", "claims"),
         next = "journal" => At(c, "inspect", "store")
  PROVE  Inv'
<1>1. Typed /\ Local(c) /\ c \in Cmd /\ cmd[c] \in Held
  BY DEF Inv, Running, Typed
<1>2. UNCHANGED <<ledgerVars, revision, disk, history>>
  BY DEF ReadClaims, Only
<1>3. Keeps
  BY <1>1, <1>2, FileKept DEF ledgerVars
<1>4. CASE disk["claims"] = Torn
  <2>1. Go(c, "failed")
    BY <1>4 DEF ReadClaims, Only
  <2> QED BY <1>2, <1>3, <2>1, EndKept DEF ledgerVars, history
<1>5. CASE disk["claims"] # Torn
  <2>1. cmd' = [cmd EXCEPT ![c].claims = Stored \cup own, ![c].at = next]
    BY <1>5 DEF ReadClaims, Only
  <2>2. Stored \cup own \subseteq Claims /\ \A claim \in Stored \cup own : Backed(claim)
    BY <1>5, StoredHeld
  <2>3. next \in Place /\ next # "waiting"
    BY DEF Place
  <2>4. [cmd[c] EXCEPT !.claims = Stored \cup own, !.at = next] \in Held
    BY <1>1, <2>2, <2>3 DEF Held
  <2>5. cmd' = [cmd EXCEPT ![c] = [cmd[c] EXCEPT !.claims = Stored \cup own, !.at = next]]
    BY <1>1, <2>1 DEF Typed, Held
  <2>6. /\ cmd' \in [Cmd -> Held] /\ \A d \in Cmd \ {c} : cmd'[d] = cmd[d]
        /\ cmd'[c] = [cmd[c] EXCEPT !.claims = Stored \cup own, !.at = next]
    BY <1>1, <2>4, <2>5 DEF Typed
  <2>7. /\ cmd'[c].kind = cmd[c].kind /\ cmd'[c].at = next /\ cmd'[c].claims = Stored \cup own
        /\ cmd'[c].missing = cmd[c].missing /\ cmd'[c].revision = cmd[c].revision
    BY <1>1, <2>6 DEF Held
  <2>8. Moves(c)
    BY <1>1, <1>2, <2>3, <2>6, <2>7 DEF Moves, Typed, ledgerVars
  <2>9. Placed(c)'
    BY <1>1, <1>2, <2>7 DEF Local, Placed, At, ledgerVars
  <2>10. Evidenced(c)'
    <3>1. \A claim \in cmd'[c].claims : Backed(claim)'
      BY <1>1, <1>3, <2>2, <2>7, <2>8, BackedKept DEF Claims
    <3>2. ~Cites(c)'
      BY <2>7 DEF Cites, At
    <3>3. Owes(c)' => Backed([by |-> c, support |-> NextId(c)])'
      <4>1. next = "journal" => ~handle[c].owing
        BY <1>1 DEF Local, Placed, At
      <4> QED BY <1>2, <2>7, <4>1 DEF Owes, ledgerVars
    <3> QED BY <1>3, <2>7, <3>1, <3>2, <3>3, MissingStaysWritten DEF Evidenced
  <2>11. UpToDate(c)'
    BY <1>1, <1>2, <1>5, <2>7, StoredHeld DEF Local, UpToDate, At, history
  <2>12. Local(c)'
    BY <2>9, <2>10, <2>11 DEF Local
  <2> QED BY <1>1, <1>2, <2>8, <2>12, HeldKept DEF history, Typed
<1> QED BY <1>4, <1>5

\* The claims are saved: everything on the shelf is then what was ever saved,
\* if no other command was about.
LEMMA SaveKept ==
  ASSUME Inv, NEW c \in Running, HasRead(c), cmd[c].at = "claims filling",
         NEW next \in {"lock", "manifest"}, SaveClaims(c, next)
  PROVE  Inv'
<1>1. Typed /\ Shelved /\ Local(c) /\ c \in Cmd /\ cmd[c] \in Held
  BY DEF Inv, Running, Typed
<1>2. /\ disk' = [disk EXCEPT !["claims"] = cmd[c].claims] /\ saved' = saved \cup cmd[c].claims
      /\ Go(c, next) /\ UNCHANGED <<ledgerVars, revision, replayed, locked, alone>>
  BY DEF SaveClaims, Fill
<1>3. Moves(c) /\ Keeps /\ Local(c)'
  BY <1>2, GoesOn
<1>4. /\ disk' = [g \in FileName |-> disk'[g]] /\ disk'["claims"] = cmd[c].claims
      /\ \A g \in FileName \ {"claims"} : disk'[g] = disk[g]
  BY <1>1, <1>2 DEF Typed, FileName
<1>5. cmd[c].claims \subseteq Claims /\ \A claim \in cmd[c].claims : Backed(claim)
  BY <1>1 DEF Held, Local, Evidenced
<1>6. Typed'
  <2>1. \A g \in FileName \ {"claims"} : Complete(g)' => disk'[g] = disk[g] /\ Complete(g)
    BY <1>4 DEF Complete
  <2> QED BY <1>1, <1>2, <1>3, <1>4, <1>5, <2>1 DEF Typed, FileName, Moves, ledgerVars
<1>7. Shelved'
  <2>1. \A claim \in saved' : Backed(claim)'
    BY <1>1, <1>2, <1>3, <1>5, BackedKept DEF Typed, Shelved, Claims
  <2>2. \A claim \in disk'["claims"] : Backed(claim)'
    BY <1>2, <1>4, <2>1
  <2>3. disk'["claims"] # None
    BY <1>4, <1>5, BundleAssumption
  <2>4. alone' => disk'["claims"] = saved'
    BY <1>1, <1>2, <1>4 DEF Local, UpToDate
  <2>5. Running' \subseteq Running
    BY <1>1, <1>3 DEF Running, Over, Moves
  <2> QED BY <1>1, <1>2, <2>1, <2>2, <2>3, <2>4, <2>5 DEF Shelved
<1> QED BY <1>2, <1>3, <1>6, <1>7, StepKept

\* What c holds changes, but for its claims.
LEMMA MemoryKept ==
  ASSUME Inv, NEW c \in Running, NEW new \in Held, cmd' = [cmd EXCEPT ![c] = new],
         new.kind = cmd[c].kind, new.claims = cmd[c].claims, new.missing = cmd[c].missing,
         new.at # "waiting", Placed(c)', Cites(c)' => Cites(c), ~Owes(c)', ~HasRead(c)',
         ~At(c, "explain", "claims")',
         replayed' \subseteq [analysis : Cmd, revision : 1 .. MaxRevision],
         UNCHANGED <<ledgerVars, revision, disk, locked, saved, alone>>
  PROVE  Inv'
<1>1. Typed /\ Local(c) /\ c \in Cmd
  BY DEF Inv, Running
<1>2. cmd' \in [Cmd -> Held] /\ cmd'[c] = new /\ \A d \in Cmd \ {c} : cmd'[d] = cmd[d]
  BY <1>1 DEF Typed
<1>3. Moves(c)
  BY <1>1, <1>2 DEF Moves, Typed, ledgerVars
<1>4. Keeps
  BY <1>1, FileKept DEF ledgerVars
<1>5. Evidenced(c)'
  <2>1. Cites(c)' => Backed(NewClaim(c))'
    BY <1>3, <1>4, CitesKept DEF ledgerVars
  <2> QED BY <1>2, <1>3, <1>4, <2>1, ClaimsStayBacked, MissingStaysWritten DEF Evidenced
<1>6. UpToDate(c)'
  BY <1>1, <1>2 DEF Local, UpToDate
<1> QED BY <1>3, <1>5, <1>6, HeldKept DEF Local

\* The source tree is read.
LEMMA AcquireKept ==
  ASSUME Inv, NEW c \in Running, cmd[c].at = "acquire", cmd[c].kind \in {"prove", "replay"},
         Only(cmd' = [cmd EXCEPT ![c].revision = revision, ![c].at = "open"])
  PROVE  Inv'
<1>1. Typed /\ Local(c) /\ c \in Cmd /\ cmd[c] \in Held
  BY DEF Inv, Running, Typed
<1>2. cmd' = [cmd EXCEPT ![c] = [cmd[c] EXCEPT !.revision = revision, !.at = "open"]]
      /\ UNCHANGED <<ledgerVars, revision, disk, history>>
  BY <1>1 DEF Only, Typed, Held
<1>3. DEFINE new == [cmd[c] EXCEPT !.revision = revision, !.at = "open"]
<1>4. /\ new \in Held /\ new.kind = cmd[c].kind /\ new.at = "open" /\ new.claims = cmd[c].claims
      /\ new.missing = cmd[c].missing /\ new.revision = revision /\ new.proof = cmd[c].proof
  <2>1. "open" \in Place /\ revision \in Nat
    BY <1>1, BundleAssumption DEF Typed, Place
  <2> QED BY <1>1, <2>1 DEF Held
<1> HIDE DEF new
<1>5. cmd' = [cmd EXCEPT ![c] = new] /\ cmd'[c] = new
  BY <1>1, <1>2 DEF new, Typed
<1>6. Placed(c)' /\ ~Cites(c)' /\ ~Owes(c)' /\ ~HasRead(c)' /\ ~At(c, "explain", "claims")'
  BY <1>1, <1>4, <1>5 DEF Typed, Local, Placed, Cites, Owes, HasRead, At
<1> QED BY <1>1, <1>2, <1>4, <1>5, <1>6, MemoryKept DEF Typed, history

-----------------------------------------------------------------------------
(* ovid prove.                                                              *)

\* The world is synthesized, and perhaps replayed: the record to cite is written.
LEMMA ProveWorldKept ==
  ASSUME Inv, NEW c \in Running, ProveWorld(c)
  PROVE  Inv'
<1>1. Typed /\ Local(c) /\ c \in Cmd /\ cmd[c] \in Held /\ cmd[c].kind = "prove" /\ cmd[c].at = "world"
  BY DEF Inv, Running, Typed, ProveWorld, At
<1>2. PICK world \in Status :
        /\ cmd' = [cmd EXCEPT ![c].world = world, ![c].at = "proof"]
        /\ replayed' = replayed \cup
             IF world = "verified" THEN {[analysis |-> c, revision |-> cmd[c].revision]} ELSE {}
  BY DEF ProveWorld, Status
<1>3. UNCHANGED <<ledgerVars, revision, disk, locked, saved, alone>>
  BY DEF ProveWorld
<1>4. DEFINE new == [cmd[c] EXCEPT !.world = world, !.at = "proof"]
<1>5. /\ new \in Held /\ new.kind = cmd[c].kind /\ new.at = "proof" /\ new.claims = cmd[c].claims
      /\ new.missing = cmd[c].missing
  <2>1. "proof" \in Place
    BY DEF Place
  <2> QED BY <1>1, <2>1 DEF Held
<1>6. cmd' = [cmd EXCEPT ![c] = new]
  BY <1>1, <1>2 DEF Typed, Held
<1> HIDE DEF new
<1>7. cmd'[c] = new
  BY <1>1, <1>6 DEF Typed
<1>8. /\ Placed(c)' /\ Cites(c) /\ ~Owes(c)' /\ ~HasRead(c)' /\ ~At(c, "explain", "claims")'
  BY <1>1, <1>5, <1>7 DEF Placed, Cites, Owes, HasRead, At
<1>9. replayed' \subseteq [analysis : Cmd, revision : 1 .. MaxRevision]
  <2>1. cmd[c].revision \in 1 .. MaxRevision
    BY <1>1 DEF Local, Placed
  <2> QED BY <1>1, <1>2, <2>1 DEF Typed
<1> QED BY <1>1, <1>3, <1>5, <1>6, <1>8, <1>9, MemoryKept

\* Every step of prove but the manifest's.
LEMMA ProveKept ==
  ASSUME Inv, NEW c \in Running,
         \/ ProveAcquire(c) \/ ProveOpen(c) \/ ProveJournal(c) \/ ProveWorld(c) \/ ProveProof(c)
         \/ ProveClaims(c) \/ ProveLock(c)
  PROVE  Inv'
<1>1. Typed /\ Local(c) /\ c \in Cmd /\ cmd[c] \in Held
  BY DEF Inv, Running, Typed
<1>2. CASE ProveAcquire(c)
  BY <1>2, AcquireKept DEF ProveAcquire, At
<1>3. CASE ProveOpen(c)
  BY <1>3, OpenKept DEF ProveOpen, At
<1>4. CASE ProveJournal(c)
  BY <1>4, JournalKept, ShortKept, JournaledKept DEF ProveJournal, At
<1>5. CASE ProveWorld(c)
  BY <1>5, ProveWorldKept
<1>6. CASE ProveProof(c)
  <2>1. CASE At(c, "prove", "proof") /\ Truncate(c, "proof", "proof filling")
    BY <2>1, TruncateKept DEF FileName
  <2>2. CASE /\ At(c, "prove", "proof filling")
             /\ Fill(c, "proof", [by |-> c, revision |-> cmd[c].revision], "claims")
             /\ UNCHANGED history
    <3>1. [by |-> c, revision |-> cmd[c].revision] \in Proof
      BY <1>1 DEF Held, Proof
    <3> QED BY <1>1, <2>2, <3>1, FillKept DEF FileName, history, Typed
  <2> QED BY <1>6, <2>1, <2>2 DEF ProveProof
<1>7. CASE ProveClaims(c)
  <2>1. CASE At(c, "prove", "claims") /\ \E claims \in {{}, {NewClaim(c)}} : ReadClaims(c, claims, "claims writing")
    <3>1. PICK claims \in {{}, {NewClaim(c)}} : ReadClaims(c, claims, "claims writing")
      BY <2>1
    <3>2. NewClaim(c) \in Claims /\ Backed(NewClaim(c))
      BY <2>1, OwnClaim DEF At, Cites
    <3>3. claims \in SUBSET Claims /\ \A claim \in claims : Backed(claim)
      BY <3>1, <3>2
    <3> QED BY <2>1, <3>1, <3>3, ReadKept
  <2>2. CASE At(c, "prove", "claims writing") /\ Truncate(c, "claims", "claims filling")
    BY <2>2, TruncateKept DEF FileName, HasRead, At
  <2>3. CASE At(c, "prove", "claims filling") /\ SaveClaims(c, AfterClaims(c))
    <3>1. AfterClaims(c) \in {"lock", "manifest"}
      BY DEF AfterClaims
    <3> QED BY <2>3, <3>1, SaveKept DEF HasRead, At
  <2> QED BY <1>7, <2>1, <2>2, <2>3 DEF ProveClaims
<1>8. CASE ProveLock(c)
  <2>1. CASE At(c, "prove", "lock") /\ Truncate(c, "lock", "lock filling")
    BY <2>1, TruncateKept DEF FileName, At
  <2>2. CASE /\ At(c, "prove", "lock filling")
             /\ Fill(c, "lock", [by |-> c, revision |-> cmd[c].revision, status |-> cmd[c].world], "manifest")
             /\ locked' = locked \cup {c} /\ UNCHANGED <<replayed, saved, alone, cut>>
    <3>1. [by |-> c, revision |-> cmd[c].revision, status |-> cmd[c].world] \in Lock
      BY <1>1 DEF Held, Lock
    <3>2. locked' \in SUBSET Cmd
      BY <1>1, <2>2 DEF Typed
    <3> QED BY <2>2, <3>1, <3>2, FillKept DEF FileName
  <2> QED BY <1>8, <2>1, <2>2 DEF ProveLock
<1> QED BY <1>2, <1>3, <1>4, <1>5, <1>6, <1>7, <1>8

\* The manifest is written last.
LEMMA ManifestKept ==
  ASSUME Inv, NEW c \in Running, WriteManifest(c)
  PROVE  Inv'
<1>1. Typed
  BY DEF Inv
<1>2. CASE cmd[c].at = "manifest" /\ Truncate(c, "manifest", "manifest filling")
  BY <1>2, TruncateKept DEF FileName
<1>3. CASE cmd[c].at = "manifest filling" /\ Fill(c, "manifest", Manifest(c), "done") /\ UNCHANGED history
  BY <1>1, <1>3, FillKept DEF FileName, history, Typed
<1> QED BY <1>2, <1>3 DEF WriteManifest

-----------------------------------------------------------------------------
(* ovid inspect.                                                            *)

\* Its own claim is added to those it read when it opened the bundle.
LEMMA InspectClaimKept ==
  ASSUME Inv, NEW c \in Running, At(c, "inspect", "claims"),
         Only(cmd' = [cmd EXCEPT ![c].claims = @ \cup {NewClaim(c)}, ![c].at = "claims writing"])
  PROVE  Inv'
<1>1. /\ Typed /\ Local(c) /\ c \in Cmd /\ cmd[c] \in Held
      /\ cmd[c].kind = "inspect" /\ cmd[c].at = "claims"
  BY DEF Inv, Running, Typed, At
<1>2. NewClaim(c) \in Claims /\ Backed(NewClaim(c))
  BY OwnClaim DEF At, Cites
<1>3. DEFINE mine == cmd[c].claims \cup {NewClaim(c)}
<1>4. mine \subseteq Claims /\ \A claim \in mine : Backed(claim)
  BY <1>1, <1>2 DEF Held, Local, Evidenced
<1>5. cmd' = [cmd EXCEPT ![c] = [cmd[c] EXCEPT !.claims = mine, !.at = "claims writing"]]
      /\ UNCHANGED <<ledgerVars, revision, disk, history>>
  BY <1>1 DEF Only, Typed, Held
<1>6. cmd[c].claims \subseteq mine
  OBVIOUS
<1> HIDE DEF mine
<1>7. [cmd[c] EXCEPT !.claims = mine, !.at = "claims writing"] \in Held
  BY <1>1, <1>4 DEF Held, Place
<1>8. /\ cmd' \in [Cmd -> Held] /\ \A d \in Cmd \ {c} : cmd'[d] = cmd[d]
      /\ cmd'[c] = [cmd[c] EXCEPT !.claims = mine, !.at = "claims writing"]
  BY <1>1, <1>5, <1>7 DEF Typed
<1>9. /\ cmd'[c].kind = "inspect" /\ cmd'[c].at = "claims writing" /\ cmd'[c].claims = mine
      /\ cmd'[c].missing = cmd[c].missing
  BY <1>1, <1>8 DEF Held
<1>10. Moves(c)
  BY <1>1, <1>5, <1>8, <1>9 DEF Moves, Typed, ledgerVars
<1>11. Keeps
  BY <1>1, <1>5, FileKept DEF ledgerVars
<1>12. Placed(c)'
  BY <1>9 DEF Placed
<1>13. Evidenced(c)'
  <2>1. \A claim \in cmd'[c].claims : Backed(claim)'
    BY <1>1, <1>4, <1>9, <1>10, <1>11, BackedKept DEF Claims
  <2>2. ~Cites(c)' /\ ~Owes(c)'
    BY <1>9 DEF Cites, Owes
  <2> QED BY <1>9, <1>11, <2>1, <2>2, MissingStaysWritten DEF Evidenced
<1>14. UpToDate(c)'
  <2>1. alone => saved \subseteq cmd[c].claims /\ cmd[c].missing = {}
    BY <1>1 DEF Local, UpToDate, HasRead
  <2>2. ~At(c, "explain", "claims")'
    BY <1>9 DEF At
  <2> QED BY <1>5, <1>6, <1>9, <2>1, <2>2 DEF UpToDate, history
<1> QED BY <1>1, <1>5, <1>10, <1>12, <1>13, <1>14, HeldKept DEF history, Typed, Local

\* Every step of inspect but the manifest's.
LEMMA InspectKept ==
  ASSUME Inv, NEW c \in Running, InspectOpen(c) \/ InspectJournal(c) \/ InspectClaims(c)
  PROVE  Inv'
<1>1. CASE InspectOpen(c)
  <2>1. CASE At(c, "inspect", "open") /\ OpenLedger(c, "store")
    BY <2>1, OpenKept DEF At
  <2>2. CASE At(c, "inspect", "store") /\ ReadClaims(c, {}, "journal")
    BY <2>2, ReadKept DEF At
  <2> QED BY <1>1, <2>1, <2>2 DEF InspectOpen
<1>2. CASE InspectJournal(c)
  BY <1>2, JournalKept, ShortKept, JournaledKept DEF InspectJournal, At
<1>3. CASE InspectClaims(c)
  <2>1. CASE At(c, "inspect", "claims writing") /\ Truncate(c, "claims", "claims filling")
    BY <2>1, TruncateKept DEF FileName, HasRead, At
  <2>2. CASE At(c, "inspect", "claims filling") /\ SaveClaims(c, "manifest")
    BY <2>2, SaveKept DEF HasRead, At
  <2> QED BY <1>3, <2>1, <2>2, InspectClaimKept DEF InspectClaims
<1> QED BY <1>1, <1>2, <1>3

-----------------------------------------------------------------------------
(* ovid replay.                                                             *)

\* A replay learns which analysis it replays from a proof.json that parses.
LEMMA ReplayReadKept ==
  ASSUME Inv, NEW c \in Running, ReplayRead(c)
  PROVE  Inv'
<1>1. /\ Typed /\ Local(c) /\ c \in Cmd /\ cmd[c] \in Held
      /\ cmd[c].kind = "replay" /\ cmd[c].at = "proof"
  BY DEF Inv, Running, Typed, ReplayRead, At
<1>2. UNCHANGED <<ledgerVars, revision, disk, history>>
  BY DEF ReplayRead, Only
<1>3. CASE Complete("proof")
  <2>1. disk["proof"].by \in Cmd
    BY <1>1, <1>3 DEF Typed, Proof
  <2>2. DEFINE new == [cmd[c] EXCEPT !.proof = disk["proof"].by, !.at = "acquire"]
  <2>3. cmd' = [cmd EXCEPT ![c] = new]
    BY <1>1, <1>3 DEF ReplayRead, Only, Typed, Held
  <2>4. /\ new \in Held /\ new.kind = cmd[c].kind /\ new.at = "acquire" /\ new.claims = cmd[c].claims
        /\ new.missing = cmd[c].missing /\ new.proof = disk["proof"].by
    <3>1. "acquire" \in Place /\ disk["proof"].by \in Nat
      BY <2>1, CommandAssumption DEF Place
    <3> QED BY <1>1, <3>1 DEF Held
  <2> HIDE DEF new
  <2>5. cmd'[c] = new
    BY <1>1, <2>3 DEF Typed
  <2>6. Placed(c)' /\ ~Cites(c)' /\ ~Owes(c)' /\ ~HasRead(c)' /\ ~At(c, "explain", "claims")'
    BY <1>1, <2>1, <2>4, <2>5 DEF Placed, Cites, Owes, HasRead, At
  <2> QED BY <1>1, <1>2, <2>3, <2>4, <2>6, MemoryKept DEF Typed, history
<1>4. CASE ~Complete("proof")
  <2>1. Go(c, "failed")
    BY <1>4 DEF ReplayRead, Only
  <2> QED BY <1>1, <1>2, <2>1, FileKept, EndKept DEF history, ledgerVars
<1> QED BY <1>3, <1>4

\* A replay that passes is one of an analysis, at a revision of the source.
LEMMA ReplayRunKept ==
  ASSUME Inv, NEW c \in Running, ReplayRun(c)
  PROVE  Inv'
<1>1. /\ Typed /\ Local(c) /\ c \in Cmd /\ cmd[c] \in Held
      /\ cmd[c].kind = "replay" /\ cmd[c].at = "run"
  BY DEF Inv, Running, Typed, ReplayRun, At
<1>2. PICK passed \in BOOLEAN :
        /\ cmd' = [cmd EXCEPT ![c].passed = passed, ![c].at = "journal"]
        /\ replayed' = replayed \cup
             IF passed THEN {[analysis |-> cmd[c].proof, revision |-> cmd[c].revision]} ELSE {}
  BY DEF ReplayRun
<1>3. UNCHANGED <<ledgerVars, revision, disk, locked, saved, alone>>
  BY DEF ReplayRun
<1>4. DEFINE new == [cmd[c] EXCEPT !.passed = passed, !.at = "journal"]
<1>5. /\ new \in Held /\ new.kind = cmd[c].kind /\ new.at = "journal" /\ new.claims = cmd[c].claims
      /\ new.missing = cmd[c].missing /\ new.revision = cmd[c].revision
  <2>1. "journal" \in Place
    BY DEF Place
  <2> QED BY <1>1, <2>1 DEF Held
<1>6. cmd' = [cmd EXCEPT ![c] = new]
  BY <1>1, <1>2 DEF Typed, Held
<1> HIDE DEF new
<1>7. cmd'[c] = new /\ handle' = handle
  BY <1>1, <1>3, <1>6 DEF Typed, ledgerVars
<1>8. cmd[c].proof \in Cmd /\ cmd[c].revision \in 1 .. MaxRevision /\ handle[c].count = 0
  BY <1>1 DEF Local, Placed
<1>9. Placed(c)' /\ ~Cites(c)' /\ ~Owes(c)' /\ ~HasRead(c)' /\ ~At(c, "explain", "claims")'
  BY <1>1, <1>5, <1>7, <1>8 DEF Placed, Cites, Owes, HasRead, At
<1>10. replayed' \subseteq [analysis : Cmd, revision : 1 .. MaxRevision]
  BY <1>1, <1>2, <1>8 DEF Typed
<1> QED BY <1>1, <1>3, <1>5, <1>6, <1>9, <1>10, MemoryKept

\* A lock that parses is read, emptied and written back with a new status.
LEMMA ReplayLockKept ==
  ASSUME Inv, NEW c \in Running, ReplayLock(c) \/ ReplayUpdate(c)
  PROVE  Inv'
<1>1. Typed /\ Local(c) /\ c \in Cmd /\ cmd[c] \in Held
  BY DEF Inv, Running, Typed
<1>2. CASE /\ At(c, "replay", "lock")
           /\ Only(IF Complete("lock")
                   THEN cmd' = [cmd EXCEPT ![c].lock = disk["lock"], ![c].at = "lock writing"]
                   ELSE Go(c, "done"))
  <2>1. UNCHANGED <<ledgerVars, revision, disk, history>>
    BY <1>2 DEF Only
  <2>2. CASE Complete("lock")
    <3>1. disk["lock"] \in Lock
      BY <1>1, <2>2 DEF Typed
    <3>2. DEFINE new == [cmd[c] EXCEPT !.lock = disk["lock"], !.at = "lock writing"]
    <3>3. cmd' = [cmd EXCEPT ![c] = new]
      BY <1>1, <1>2, <2>2 DEF Only, Typed, Held
    <3>4. /\ new \in Held /\ new.kind = cmd[c].kind /\ new.at = "lock writing"
          /\ new.claims = cmd[c].claims /\ new.missing = cmd[c].missing /\ new.lock = disk["lock"]
      <4>1. "lock writing" \in Place
        BY DEF Place
      <4> QED BY <1>1, <3>1, <4>1 DEF Held
    <3> HIDE DEF new
    <3>5. cmd'[c] = new
      BY <1>1, <3>3 DEF Typed
    <3>6. Placed(c)' /\ ~Cites(c)' /\ ~Owes(c)' /\ ~HasRead(c)' /\ ~At(c, "explain", "claims")'
      BY <1>1, <3>1, <3>4, <3>5 DEF Placed, Cites, Owes, HasRead, At
    <3> QED BY <1>1, <2>1, <3>3, <3>4, <3>6, MemoryKept DEF Typed, history
  <2>3. CASE ~Complete("lock")
    <3>1. Go(c, "done")
      BY <1>2, <2>3 DEF Only
    <3> QED BY <1>1, <2>1, <3>1, FileKept, EndKept DEF history, ledgerVars
  <2> QED BY <2>2, <2>3
<1>3. CASE At(c, "replay", "lock writing") /\ Truncate(c, "lock", "lock filling")
  BY <1>3, TruncateKept DEF FileName, At
<1>4. CASE ReplayUpdate(c)
  <2>1. cmd[c].lock \in Lock
    BY <1>1, <1>4 DEF ReplayUpdate, Local, Placed, At
  <2>2. Updated(c) \in Lock
    BY <2>1 DEF Updated, Lock, Status
  <2> QED BY <1>1, <1>4, <2>2, FillKept DEF ReplayUpdate, FileName, history, Typed
<1> QED BY <1>2, <1>3, <1>4 DEF ReplayLock

\* Every step of replay.
LEMMA ReplayKept ==
  ASSUME Inv, NEW c \in Running,
         \/ ReplayRead(c) \/ ReplayAcquire(c) \/ ReplayOpen(c) \/ ReplayRun(c) \/ ReplayJournal(c)
         \/ ReplayLock(c) \/ ReplayUpdate(c)
  PROVE  Inv'
<1>1. CASE ReplayAcquire(c)
  BY <1>1, AcquireKept DEF ReplayAcquire, At
<1>2. CASE ReplayOpen(c)
  BY <1>2, OpenKept DEF ReplayOpen, At
<1>3. CASE ReplayJournal(c)
  BY <1>3, JournalKept, ShortKept, JournaledKept DEF ReplayJournal, At
<1> QED BY <1>1, <1>2, <1>3, ReplayReadKept, ReplayRunKept, ReplayLockKept

-----------------------------------------------------------------------------
(* ovid explain, and the steps of no command in particular.                   *)

\* explain opens the ledger before the claims, so what it finds missing is
\* written by now; with no other command about, nothing is missing.
LEMMA ExplainKept ==
  ASSUME Inv, NEW c \in Running, Explain(c)
  PROVE  Inv'
<1>1. Typed /\ Local(c) /\ c \in Cmd /\ cmd[c] \in Held
  BY DEF Inv, Running, Typed
<1>2. CASE At(c, "explain", "open") /\ OpenLedger(c, "claims")
  BY <1>2, OpenKept DEF At
<1>3. CASE /\ At(c, "explain", "claims")
           /\ Only(IF disk["claims"] = Torn THEN Go(c, "failed")
                   ELSE cmd' = [cmd EXCEPT ![c] = [Ended(c, "done") EXCEPT !.missing = Missing(c)]])
  <2>1. UNCHANGED <<ledgerVars, revision, disk, history>>
    BY <1>3 DEF Only
  <2>2. CASE disk["claims"] = Torn
    <3>1. Go(c, "failed")
      BY <1>3, <2>2 DEF Only
    <3> QED BY <1>1, <2>1, <3>1, FileKept, EndKept DEF history, ledgerVars
  <2>3. CASE disk["claims"] # Torn
    <3>1. Missing(c) \subseteq Written /\ Missing(c) \subseteq Record /\ (alone => Missing(c) = {})
      <4>1. \A claim \in Stored : claim.support \in Written
        BY <2>3, StoredHeld DEF Backed, Written
      <4>2. \A claim \in Stored : claim.support \in Record
        BY <2>3, StoredHeld DEF Claims
      <4>3. alone => handle[c].index = Written
        BY <1>1, <1>3 DEF Local, UpToDate
      <4> QED BY <4>1, <4>2, <4>3 DEF Missing
    <3>2. DEFINE new == [Ended(c, "done") EXCEPT !.missing = Missing(c)]
    <3>3. /\ new \in Held /\ new.kind = cmd[c].kind /\ new.at = "done" /\ new.claims = {}
          /\ new.missing = Missing(c)
      <4>1. /\ Ended(c, "done") \in Held /\ Ended(c, "done").kind = cmd[c].kind
            /\ Ended(c, "done").at = "done" /\ Ended(c, "done").claims = {}
        BY <1>1 DEF Ended, Waiting, Held, Status, Place
      <4> QED BY <3>1, <4>1 DEF Held
    <3>4. cmd' = [cmd EXCEPT ![c] = new]
      BY <1>3, <2>3 DEF Only
    <3> HIDE DEF new
    <3>5. cmd' \in [Cmd -> Held] /\ cmd'[c] = new /\ \A d \in Cmd \ {c} : cmd'[d] = cmd[d]
      BY <1>1, <3>3, <3>4 DEF Typed
    <3>6. Moves(c)
      BY <1>1, <2>1, <3>3, <3>5 DEF Moves, Typed, ledgerVars
    <3>7. Local(c)'
      <4>1. Placed(c)' /\ ~Cites(c)' /\ ~Owes(c)' /\ ~HasRead(c)' /\ ~At(c, "explain", "claims")'
        BY <3>3, <3>5 DEF Placed, Cites, Owes, HasRead, At
      <4>2. Written' = Written
        BY <2>1 DEF Written, ledgerVars
      <4>3. Evidenced(c)' /\ UpToDate(c)'
        BY <2>1, <3>1, <3>3, <3>5, <4>1, <4>2 DEF Evidenced, UpToDate, history
      <4> QED BY <4>1, <4>3 DEF Local
    <3> QED BY <1>1, <2>1, <3>6, <3>7, HeldKept DEF history, Typed
  <2> QED BY <2>2, <2>3
<1> QED BY <1>2, <1>3 DEF Explain

\* A command that starts knows nothing, and ends the peace if another runs.
LEMMA StartKept ==
  ASSUME Inv, NEW c \in Cmd, Start(c)
  PROVE  Inv'
<1>1. Typed /\ Shelved /\ cmd[c].at = "waiting"
  BY DEF Inv, Start
<1>2. PICK kind \in Kind : cmd' = [cmd EXCEPT ![c] = [Waiting EXCEPT !.kind = kind, !.at = FirstStep(kind)]]
  BY DEF Start
<1>3. /\ alone' = (alone /\ Running = {})
      /\ UNCHANGED <<ledgerVars, revision, disk, replayed, locked, saved>>
  BY DEF Start
<1>4. FirstStep(kind) \in {"acquire", "open", "proof"} /\ (FirstStep(kind) = "acquire" => kind = "prove")
      /\ (kind = "prove" => FirstStep(kind) = "acquire") /\ (kind = "replay" => FirstStep(kind) = "proof")
  BY BundleAssumption DEF FirstStep
<1>5. DEFINE new == [Waiting EXCEPT !.kind = kind, !.at = FirstStep(kind)]
<1>6. /\ new \in Held /\ new.kind = kind /\ new.at = FirstStep(kind) /\ new.claims = {}
      /\ new.missing = {}
  BY <1>4 DEF Waiting, Held, Status, Place
<1> HIDE DEF new
<1>7. cmd' \in [Cmd -> Held] /\ cmd'[c] = new /\ \A d \in Cmd \ {c} : cmd'[d] = cmd[d]
  BY <1>1, <1>2, <1>6 DEF Typed, new
<1>8. Moves(c)
  BY <1>1, <1>3, <1>7 DEF Moves, Typed, ledgerVars
<1>9. Keeps
  BY <1>1, <1>3, FileKept DEF ledgerVars
<1>10. Sole(c)
  BY <1>3 DEF Sole
<1>11. Typed'
  BY <1>1, <1>3, <1>8 DEF Typed, Complete, Moves, ledgerVars
<1>12. Shelved'
  <2>1. \A claim \in saved' : Backed(claim)'
    BY <1>1, <1>3, <1>8, <1>9, BackedKept DEF Typed, Shelved, Claims
  <2>2. Complete("claims")' => \A claim \in disk'["claims"] : Backed(claim)'
    BY <1>1, <1>3, <1>8, <1>9, BackedKept DEF Typed, Shelved, Claims, Complete
  <2>3. alone' => Running' \subseteq {c}
    BY <1>3, <1>7 DEF Running, Over
  <2> QED BY <1>1, <1>3, <2>1, <2>2, <2>3 DEF Shelved, Complete
<1>13. Local(c)'
  <2>1. Placed(c)' /\ ~Cites(c)' /\ ~Owes(c)' /\ ~HasRead(c)' /\ ~At(c, "explain", "claims")'
    BY <1>4, <1>6, <1>7 DEF Placed, Cites, Owes, HasRead, At
  <2>2. Evidenced(c)' /\ UpToDate(c)'
    BY <1>6, <1>7, <2>1 DEF Evidenced, UpToDate
  <2> QED BY <2>1, <2>2 DEF Local
<1>14. \A d \in Cmd \ {c} : Local(d)'
  BY <1>8, <1>9, <1>10, OthersKept
<1> QED BY <1>11, <1>12, <1>13, <1>14 DEF Inv

\* A step that changes nothing but the revision, or nothing at all.
LEMMA IdleKept ==
  ASSUME Inv, UNCHANGED <<ledgerVars, cmd, disk, replayed, locked, saved, alone>>,
         revision' \in 1 .. MaxRevision
  PROVE  Inv'
<1>1. Typed'
  BY DEF Inv, Typed, Complete, ledgerVars
<1>2. Shelved'
  BY DEF Inv, Shelved, Complete, Backed, Running, Over, ledgerVars
<1>3. \A c \in Cmd : Local(c)'
  <2> SUFFICES ASSUME NEW c \in Cmd PROVE Local(c)'
    OBVIOUS
  <2>1. Local(c) /\ UNCHANGED <<file, handle, cmd, saved, alone>>
    BY DEF Inv, ledgerVars
  <2>2. Placed(c)'
    BY <2>1 DEF Local, Placed
  <2>3. Evidenced(c)'
    BY <2>1 DEF Local, Evidenced, Backed, Cites, Owes, NewClaim, NextId, Written
  <2>4. UpToDate(c)'
    <3>1. Written' = Written /\ (HasRead(c)' => HasRead(c))
          /\ (At(c, "explain", "claims")' => At(c, "explain", "claims"))
      BY <2>1 DEF Written, HasRead, At
    <3>2. UpToDate(c)
      BY <2>1 DEF Local
    <3> QED BY <2>1, <3>1, <3>2 DEF UpToDate
  <2> QED BY <2>2, <2>3, <2>4 DEF Local
<1> QED BY <1>1, <1>2, <1>3 DEF Inv

\* An empty bundle.
LEMMA InitInv == Init => Inv
<1> SUFFICES ASSUME Init PROVE Inv
  OBVIOUS
<1>1. /\ file = <<>> /\ handle = [c \in Cmd |-> Closed] /\ cmd = [c \in Cmd |-> Waiting]
      /\ revision = 1 /\ disk = [f \in FileName |-> None]
      /\ replayed = {} /\ locked = {} /\ saved = {} /\ alone = TRUE
  BY DEF Init, LedgerInit, FileName
<1>2. Closed \in Handle /\ Waiting \in Held
  BY DEF Closed, Handle, Waiting, Held, Status, Place
<1>3. Typed
  <2>1. file \in Seq(Line)
    BY <1>1
  <2>2. revision \in 1 .. MaxRevision
    BY <1>1, BundleAssumption
  <2>3. ~Complete("proof") /\ ~Complete("claims") /\ ~Complete("lock")
    BY <1>1 DEF Complete, FileName
  <2>4. disk = [f \in FileName |-> disk[f]]
    BY <1>1
  <2> QED BY <1>1, <1>2, <2>1, <2>2, <2>3, <2>4 DEF Typed, FileName
<1>4. \A c \in Cmd : cmd[c].at = "waiting" /\ cmd[c].claims = {} /\ cmd[c].missing = {}
  BY <1>1 DEF Waiting
<1>5. Shelved
  BY <1>1, <1>4 DEF Shelved, Complete, FileName, Running
<1>6. \A c \in Cmd : Local(c)
  BY <1>4 DEF Local, Placed, Evidenced, UpToDate, Cites, Owes, HasRead, At
<1> QED BY <1>3, <1>5, <1>6 DEF Inv

\* Every step preserves the invariant.
LEMMA NextInv == Inv /\ [Next]_vars => Inv'
<1> SUFFICES ASSUME Inv, [Next]_vars PROVE Inv'
  OBVIOUS
<1>1. Typed
  BY DEF Inv
<1>2. CASE Commit
  <2>1. revision' \in 1 .. MaxRevision
    BY <1>1, <1>2, BundleAssumption DEF Commit, Typed
  <2> QED BY <1>2, <2>1, IdleKept DEF Commit, history
<1>3. ASSUME NEW c \in Cmd,
             \/ Start(c) \/ Stop(c)
             \/ ProveAcquire(c) \/ ProveOpen(c) \/ ProveJournal(c) \/ ProveWorld(c) \/ ProveProof(c)
             \/ ProveClaims(c) \/ ProveLock(c) \/ WriteManifest(c)
             \/ InspectOpen(c) \/ InspectJournal(c) \/ InspectClaims(c)
             \/ ReplayRead(c) \/ ReplayAcquire(c) \/ ReplayOpen(c) \/ ReplayRun(c) \/ ReplayJournal(c)
             \/ ReplayLock(c) \/ ReplayUpdate(c)
             \/ Explain(c)
      PROVE Inv'
  <2>1. CASE Start(c)
    BY <2>1, StartKept
  <2>2. CASE Stop(c)
    BY <1>1, <2>2, FileKept, EndKept DEF Stop, ledgerVars
  <2>3. ASSUME ~Start(c), ~Stop(c) PROVE c \in Running
    BY <1>3, <2>3 DEF ProveAcquire, ProveOpen, ProveJournal, ProveWorld, ProveProof, ProveClaims, ProveLock,
       WriteManifest, InspectOpen, InspectJournal, InspectClaims, ReplayRead, ReplayAcquire, ReplayOpen,
       ReplayRun, ReplayJournal, ReplayLock, ReplayUpdate, Explain, At, Running, Over
  <2> QED BY <1>3, <2>1, <2>2, <2>3, ProveKept, ManifestKept, InspectKept, ReplayKept, ExplainKept
<1>4. CASE UNCHANGED vars
  BY <1>1, <1>4, IdleKept DEF vars, history, Typed
<1> QED BY <1>2, <1>3, <1>4 DEF Next

-----------------------------------------------------------------------------
(* One command at a time: the invariant behind the ledger's chain, the      *)
(* manifest and the lock.                                                   *)

\* Commands start in order, so that the one that runs alone is the newest.
Queued ==
  /\ \A c \in Started, d \in Cmd : d < c => d \in Started
  /\ alone => \A c \in Running : Newest(c)
  /\ locked \subseteq Started

\* No handle before the start, no append but at the journaling step.
Tidy(c) ==
  /\ cmd[c].at = "waiting" => handle[c] = Closed
  /\ handle[c].owing => cmd[c].at \in {"journal", "failed"}

\* The handle of the command that runs alone knows the end of the ledger.
AtEnd(c) ==
  /\ handle[c].owing =>
       file # <<>> /\ LastId = NextId(c) /\ Written = handle[c].index \cup {NextId(c)}
  /\ Idle(c) => handle[c].head = LastId /\ handle[c].index = Written
  /\ cmd[c].kind \in {"prove", "inspect"} /\ cmd[c].at \notin {"acquire", "open"} => handle[c].open

\* The chain is whole, and only an append that is under way leaves it open.
Sound ==
  /\ Readable /\ Chained
  /\ file # <<>> /\ ~file[Len(file)].ended => \E c \in Running : handle[c].owing

\* The analysis a replay is of: that of the lock, or a later one without a lock.
Follows(analysis, by) == analysis = by \/ (analysis > by /\ analysis \notin locked)

Replayed(analysis) == \E run \in replayed : run.analysis = analysis

ProofIs(analysis) == Complete("proof") /\ disk["proof"].by = analysis

\* What prove, running alone, has put on disk by the time it is at a place.
ProveWrote(c) ==
  /\ cmd[c].at \in {"claims", "claims writing", "claims filling", "lock", "lock filling",
                    "manifest", "manifest filling"} => ProofIs(c)
  /\ cmd[c].at \in {"lock", "lock filling", "manifest", "manifest filling"} => Complete("claims")
  /\ cmd[c].at \notin {"manifest", "manifest filling"} => c \notin locked
  /\ cmd[c].at \in {"manifest", "manifest filling"} /\ cmd[c].world # None =>
       Complete("lock") /\ disk["lock"].by = c /\ disk["lock"].status = cmd[c].world
  /\ cmd[c].at \in {"acquire", "open", "journal", "world"} => cmd[c].world = None
  /\ cmd[c].at # "acquire" => cmd[c].revision \in 1 .. MaxRevision
  /\ cmd[c].at \notin {"acquire", "open", "journal", "world"} /\ cmd[c].world = "verified" =>
       Replayed(c)

InspectWrote(c) ==
  /\ cmd[c].world = None
  /\ cmd[c].at \in {"manifest", "manifest filling"} => Complete("claims")

\* What replay, running alone, has read of the disk.
ReplayReads(c) ==
  /\ cmd[c].at # "proof" => ProofIs(cmd[c].proof)
  /\ cmd[c].at \in {"journal", "lock", "lock writing", "lock filling"} /\ cmd[c].passed =>
       Replayed(cmd[c].proof)
  /\ cmd[c].at \in {"lock writing", "lock filling"} =>
       cmd[c].lock.by \in Started /\ Follows(cmd[c].proof, cmd[c].lock.by)

\* What the command that runs alone has done by the time it is at a place.
Did(c) ==
  /\ cmd[c].kind = "prove" => ProveWrote(c)
  /\ cmd[c].kind = "inspect" => InspectWrote(c)
  /\ cmd[c].kind = "replay" => ReplayReads(c)
  /\ cmd[c].at \in {"manifest", "manifest filling"} => cmd[c].kind \in {"prove", "inspect"}

\* A manifest by the newest command is by one that has ended.
Sealed ==
  Complete("manifest") =>
    /\ disk["manifest"].by \in Started
    /\ Newest(disk["manifest"].by) => disk["manifest"].by \notin Running

\* What the lock on disk says, and what a replay would read there.
LockSound ==
  Complete("lock") =>
    /\ disk["lock"].by \in Started
    /\ Complete("proof") => Follows(disk["proof"].by, disk["lock"].by)

InOrder ==
  /\ Queued /\ \A c \in Cmd : Tidy(c)
  /\ alone => (\A c \in Running : AtEnd(c) /\ Did(c)) /\ Sealed /\ LockSound
  /\ alone /\ ~cut => Sound
  /\ ManifestSeals /\ LockEarned

\* What a running command's step leaves of who is running.
LEMMA Runners ==
  ASSUME Inv, NEW c \in Running, Moves(c)
  PROVE  /\ c \in Cmd /\ Started' = Started /\ Running' \subseteq Running
         /\ c \in Running' <=> cmd'[c].at \notin {"done", "failed"}
         /\ \A d : Newest(d)' <=> Newest(d)
         /\ alone => Running = {c}
<1>1. c \in Cmd /\ cmd[c].at # "waiting" /\ cmd'[c].at # "waiting"
  BY DEF Running, Moves
<1>2. \A d \in Cmd : cmd'[d].at = "waiting" <=> cmd[d].at = "waiting"
  BY <1>1 DEF Moves
<1>3. Started' = Started
  BY <1>2 DEF Started
<1>4. Running' \subseteq Running /\ (c \in Running' <=> cmd'[c].at \notin {"done", "failed"})
  BY <1>1 DEF Running, Over, Moves
<1>5. \A d : Newest(d)' <=> Newest(d)
  BY <1>3 DEF Newest
<1>6. alone => Running = {c}
  BY DEF Inv, Shelved
<1> QED BY <1>1, <1>3, <1>4, <1>5, <1>6

\* The newest command is one only.
LEMMA OneNewest ==
  ASSUME NEW c, NEW d, Newest(c), Newest(d)
  PROVE  c = d
<1>1. c \in Nat /\ d \in Nat /\ c <= d /\ d <= c
  BY CommandAssumption DEF Newest, Started
<1>2. \A m, n \in Nat : m <= n /\ n <= m => m = n
  OBVIOUS
<1> QED BY <1>1, <1>2

\* A step of a running command, told by what it does to its own part.
LEMMA InOrderKept ==
  ASSUME Inv, InOrder, NEW c \in Running, Moves(c), alone' = alone, cut => cut',
         locked' \subseteq locked \cup {c}, Tidy(c)',
         alone /\ cmd'[c].at \notin {"done", "failed"} => AtEnd(c)' /\ Did(c)',
         alone => LockSound',
         alone /\ ~cut' => Sound',
         alone => \/ disk'["manifest"] = disk["manifest"]
                  \/ ~Complete("manifest")'
                  \/ disk'["manifest"].by = c /\ c \notin Running' /\ ManifestSeals',
         LockEarned'
  PROVE  InOrder'
<1>1. /\ c \in Cmd /\ Started' = Started /\ Running' \subseteq Running
      /\ c \in Running' <=> cmd'[c].at \notin {"done", "failed"}
      /\ \A d : Newest(d)' <=> Newest(d)
      /\ alone => Running = {c}
  BY Runners
<1>2. Queued'
  <2>1. locked' \subseteq Started'
    BY <1>1 DEF InOrder, Queued, Running, Started
  <2> QED BY <1>1, <2>1 DEF InOrder, Queued
<1>3. \A d \in Cmd : Tidy(d)'
  BY DEF InOrder, Tidy, Moves
<1>4. alone' => \A d \in Running' : AtEnd(d)' /\ Did(d)'
  <2> SUFFICES ASSUME alone, NEW d \in Running' PROVE AtEnd(d)' /\ Did(d)'
    OBVIOUS
  <2>1. d = c
    BY <1>1
  <2> QED BY ONLY <1>1, <2>1, alone,
                  alone /\ cmd'[c].at \notin {"done", "failed"} => AtEnd(c)' /\ Did(c)'
<1>5. CASE ~alone
  BY <1>2, <1>3, <1>4, <1>5 DEF InOrder, ManifestSeals
<1>6. CASE alone /\ disk'["manifest"] = disk["manifest"]
  <2>1. Newest(c) /\ Sealed
    BY <1>6 DEF InOrder, Queued
  <2>2. Complete("manifest")' => /\ disk["manifest"].by \in Started
                                 /\ ~Newest(disk["manifest"].by)
    BY <1>6, <2>1, OneNewest DEF Sealed, Complete
  <2>3. Sealed' /\ ManifestSeals'
    BY <1>1, <1>6, <2>2 DEF Sealed, ManifestSeals
  <2> QED BY <1>2, <1>3, <1>4, <1>6, <2>3 DEF InOrder
<1>7. CASE alone /\ ~Complete("manifest")'
  BY <1>2, <1>3, <1>4, <1>7 DEF InOrder, Sealed, ManifestSeals
<1>8. CASE alone /\ disk'["manifest"].by = c /\ c \notin Running' /\ ManifestSeals'
  <2>1. Sealed'
    BY <1>1, <1>8 DEF Sealed, Running, Started
  <2> QED BY <1>2, <1>3, <1>4, <1>8, <2>1 DEF InOrder
<1> QED BY <1>5, <1>6, <1>7, <1>8

\* A disk that is not written keeps its lock.
LEMMA DiskKept ==
  ASSUME Inv, InOrder, NEW c \in Running, Moves(c), alone' = alone,
         UNCHANGED <<disk, locked>>, replayed \subseteq replayed'
  PROVE  (alone => LockSound') /\ LockEarned'
<1>1. Started' = Started
  BY Runners
<1>2. alone => LockSound'
  BY <1>1 DEF InOrder, LockSound, Follows, Complete
<1>3. LockEarned'
  BY DEF InOrder, LockEarned, Complete
<1> QED BY <1>2, <1>3

\* A command between appends leaves the ledger as it is.
LEMMA LedgerKept ==
  ASSUME Inv, InOrder, NEW c \in Running, Moves(c), alone' = alone, ledgerVars' = ledgerVars,
         cut' = cut, cmd[c].at # "journal",
         \/ cmd'[c].at \in {"acquire", "open"} \/ cmd[c].at \notin {"acquire", "open"}
         \/ cmd[c].kind \notin {"prove", "inspect"}
  PROVE  /\ Tidy(c)' /\ (alone => AtEnd(c)')
         /\ alone /\ ~cut' => Sound'
<1>1. c \in Cmd /\ cmd[c].at \notin {"waiting", "failed"} /\ cmd'[c].at # "waiting"
      /\ cmd'[c].kind = cmd[c].kind
  BY DEF Running, Over, Moves
<1>2. file' = file /\ handle' = handle
  BY DEF ledgerVars
<1>3. ~handle[c].owing
  BY <1>1 DEF InOrder, Tidy
<1>4. Tidy(c)'
  BY <1>1, <1>2, <1>3 DEF Tidy
<1>5. LastId' = LastId /\ Written' = Written /\ NextId(c)' = NextId(c)
  BY <1>2 DEF LastId, Written, NextId
<1>6. alone => AtEnd(c)'
  BY <1>1, <1>2, <1>5 DEF InOrder, AtEnd, Idle
<1>7. alone /\ ~cut' => Sound'
  <2> SUFFICES ASSUME alone, ~cut' PROVE Sound'
    OBVIOUS
  <2>1. Sound /\ Running = {c}
    BY Runners DEF InOrder
  <2>2. file # <<>> => file[Len(file)].ended
    BY <1>3, <2>1 DEF Sound
  <2>3. (Readable /\ Chained)'
    BY <1>2, <2>1 DEF Sound, Readable, Chained
  <2> QED BY <1>2, <2>2, <2>3 DEF Sound
<1> QED BY <1>4, <1>6, <1>7

\* Going on, with what it leaves of the command.
LEMMA WentTo ==
  ASSUME Inv, NEW c \in Running, NEW place \in Place, place # "waiting", Go(c, place),
         handle' = handle
  PROVE  /\ Moves(c) /\ cmd'[c].at = place /\ cmd'[c].kind = cmd[c].kind
         /\ place \notin {"done", "failed"} =>
              /\ cmd'[c].world = cmd[c].world /\ cmd'[c].proof = cmd[c].proof
              /\ cmd'[c].lock = cmd[c].lock /\ cmd'[c].passed = cmd[c].passed
              /\ cmd'[c].revision = cmd[c].revision
<1>1. Typed /\ c \in Cmd /\ cmd[c] \in Held
  BY DEF Inv, Typed, Running
<1>2. /\ cmd' \in [Cmd -> Held] /\ \A d \in Cmd \ {c} : cmd'[d] = cmd[d]
      /\ cmd'[c].kind = cmd[c].kind /\ cmd'[c].at = place
      /\ place \notin {"done", "failed"} => cmd'[c] = [cmd[c] EXCEPT !.at = place]
  BY <1>1, Going
<1>3. Moves(c)
  BY <1>1, <1>2 DEF Moves, Typed
<1> QED BY <1>1, <1>2, <1>3 DEF Held

\* A command that ends; an append it leaves half done is a cut.
LEMMA EndInOrder ==
  ASSUME Inv, InOrder, NEW c \in Running, Moves(c), cmd'[c].at \in {"done", "failed"},
         UNCHANGED <<handle, disk, replayed, locked, alone>>, cut => cut',
         handle[c].owing => cmd'[c].at = "failed" /\ cut',
         ~cut' => file' = file
  PROVE  InOrder'
<1>1. Tidy(c)'
  BY DEF Tidy
<1>2. alone /\ ~cut' => Sound'
  <2> SUFFICES ASSUME alone, ~cut' PROVE Sound'
    OBVIOUS
  <2>1. Sound /\ Running = {c} /\ ~handle[c].owing /\ file' = file
    BY Runners DEF InOrder
  <2>2. file # <<>> => file[Len(file)].ended
    BY <2>1 DEF Sound
  <2>3. (Readable /\ Chained)'
    BY <2>1 DEF Sound, Readable, Chained
  <2> QED BY <2>1, <2>2, <2>3 DEF Sound
<1>3. (alone => LockSound') /\ LockEarned'
  BY DiskKept
<1> QED BY <1>1, <1>2, <1>3, InOrderKept

\* A command that changes neither ledger nor disk.
LEMMA QuietInOrder ==
  ASSUME Inv, InOrder, NEW c \in Running, Moves(c),
         UNCHANGED <<ledgerVars, disk, locked, alone, cut>>, replayed \subseteq replayed',
         cmd[c].at # "journal",
         \/ cmd'[c].at \in {"acquire", "open"} \/ cmd[c].at \notin {"acquire", "open"}
         \/ cmd[c].kind \notin {"prove", "inspect"},
         alone => Did(c)'
  PROVE  InOrder'
<1>1. Tidy(c)' /\ (alone => AtEnd(c)') /\ (alone /\ ~cut' => Sound')
  BY LedgerKept
<1>2. (alone => LockSound') /\ LockEarned'
  BY DiskKept
<1> QED BY <1>1, <1>2, InOrderKept

\* A command that writes a file, in the middle of its work.
LEMMA WriteInOrder ==
  ASSUME Inv, InOrder, NEW c \in Running, Moves(c), NEW f, NEW content,
         disk' = [disk EXCEPT ![f] = content],
         f # "manifest" \/ content = Torn,
         UNCHANGED <<ledgerVars, alone, cut>>, locked' \subseteq locked \cup {c},
         cmd[c].at \notin {"journal", "acquire", "open"},
         alone => Did(c)', alone => LockSound', LockEarned'
  PROVE  InOrder'
<1>1. Tidy(c)' /\ (alone => AtEnd(c)') /\ (alone /\ ~cut' => Sound')
  BY LedgerKept
<1>2. disk = [g \in FileName |-> disk[g]]
  BY DEF Inv, Typed, FileName
<1>3. disk'["manifest"] = disk["manifest"] \/ ~Complete("manifest")'
  BY <1>2 DEF Complete, FileName
<1> QED BY <1>1, <1>3, InOrderKept

\* Emptying a file takes nothing from what the lock says.
LEMMA TruncateInOrder ==
  ASSUME Inv, InOrder, NEW c \in Running, NEW f \in FileName, NEW next \in Place,
         next \notin {"waiting", "done", "failed"}, Truncate(c, f, next),
         cmd[c].at \notin {"journal", "acquire", "open"},
         alone => Did(c)'
  PROVE  InOrder'
<1>1. /\ disk' = [disk EXCEPT ![f] = Torn] /\ Go(c, next)
      /\ UNCHANGED <<ledgerVars, revision, replayed, locked, saved, alone, cut>>
  BY DEF Truncate, history
<1>2. Moves(c) /\ Started' = Started
  BY <1>1, WentTo, Runners DEF ledgerVars
<1>3. \A g \in FileName : Complete(g)' => disk'[g] = disk[g] /\ Complete(g)
  <2>1. disk = [g \in FileName |-> disk[g]]
    BY DEF Inv, Typed, FileName
  <2> QED BY <1>1, <2>1 DEF Complete
<1>4. alone => LockSound'
  BY <1>1, <1>2, <1>3 DEF InOrder, LockSound, Follows, FileName
<1>5. LockEarned'
  BY <1>1, <1>3 DEF InOrder, LockEarned, FileName
<1> QED BY <1>1, <1>2, <1>4, <1>5, WriteInOrder

\* The ledger is opened at its end, or the command ends.
LEMMA OpenInOrder ==
  ASSUME Inv, InOrder, NEW c \in Running, NEW next \in {"journal", "store", "run", "claims"},
         OpenLedger(c, next), cmd[c].at = "open",
         next = "journal" => cmd[c].kind = "prove",
         next = "store" => cmd[c].kind = "inspect",
         next = "run" => cmd[c].kind = "replay",
         next = "claims" => cmd[c].kind = "explain"
  PROVE  InOrder'
<1>1. Typed /\ c \in Cmd /\ cmd[c] \in Held /\ ~handle[c].owing
  BY DEF Inv, Typed, Running, InOrder, Tidy
<1>2. file' = file /\ UNCHANGED <<revision, disk, replayed, locked, saved, alone, cut>>
  BY DEF OpenLedger, Open, ledgerVars, history
<1>3. CASE ~Readable
  <2>1. Go(c, "failed") /\ handle' = handle
    BY <1>3 DEF OpenLedger, ledgerVars
  <2>2. Moves(c) /\ cmd'[c].at = "failed"
    BY <2>1, WentTo DEF Place
  <2> QED BY <1>1, <1>2, <2>1, <2>2, EndInOrder
<1>4. CASE Readable
  <2>1. Open(c) /\ Go(c, next)
    BY <1>4 DEF OpenLedger
  <2>2. next \in Place /\ next \notin {"waiting", "done", "failed"}
    BY DEF Place
  <2>3. /\ \A d \in Cmd \ {c} : cmd'[d] = cmd[d]
        /\ cmd'[c].kind = cmd[c].kind /\ cmd'[c].at = next /\ cmd'[c] = [cmd[c] EXCEPT !.at = next]
    BY <1>1, <2>1, <2>2, Going
  <2>4. /\ cmd'[c].world = cmd[c].world /\ cmd'[c].proof = cmd[c].proof
        /\ cmd'[c].lock = cmd[c].lock /\ cmd'[c].passed = cmd[c].passed
        /\ cmd'[c].revision = cmd[c].revision
    BY <1>1, <2>3 DEF Held
  <2> DEFINE fresh == [Closed EXCEPT !.open = TRUE, !.head = LastId, !.index = Written]
  <2>5. /\ fresh.owing = FALSE /\ fresh.open = TRUE /\ fresh.head = LastId /\ fresh.index = Written
    BY DEF Closed
  <2>6. handle' = [handle EXCEPT ![c] = fresh]
    BY <2>1 DEF Open
  <2> HIDE DEF fresh
  <2>7. handle'[c] = fresh /\ \A d \in Cmd \ {c} : handle'[d] = handle[d]
    BY <1>1, <2>6 DEF Typed
  <2>8. Moves(c)
    <3>1. Typed'
      BY OpenKept DEF Inv
    <3> QED BY <2>2, <2>3, <2>7, <3>1 DEF Moves, Typed
  <2>9. Tidy(c)'
    BY <2>2, <2>3, <2>5, <2>7 DEF Tidy
  <2>10. LastId' = LastId /\ Written' = Written
    BY <1>2 DEF LastId, Written
  <2>11. alone => AtEnd(c)'
    BY <2>5, <2>7, <2>10 DEF AtEnd, Idle
  <2>12. alone => Did(c)'
    <3> SUFFICES ASSUME alone PROVE Did(c)'
      OBVIOUS
    <3>1. Did(c)
      BY DEF InOrder
    <3>2. cmd[c].kind = "prove" => ProveWrote(c)'
      BY <1>2, <2>3, <2>4, <3>1 DEF Did, ProveWrote, Replayed
    <3>3. cmd[c].kind = "inspect" => InspectWrote(c)'
      BY <2>3, <2>4, <3>1 DEF Did, InspectWrote
    <3>4. cmd[c].kind = "replay" => ReplayReads(c)'
      BY <1>2, <2>3, <2>4, <3>1 DEF Did, ReplayReads, ProofIs, Complete
    <3> QED BY <2>3, <3>2, <3>3, <3>4 DEF Did
  <2>13. alone /\ ~cut' => Sound'
    <3> SUFFICES ASSUME alone, ~cut' PROVE Sound'
      OBVIOUS
    <3>1. Sound /\ Running = {c}
      BY <1>2, Runners, <2>8 DEF InOrder
    <3>2. file # <<>> => file[Len(file)].ended
      BY <1>1, <3>1 DEF Sound
    <3> QED BY <1>2, <3>1, <3>2 DEF Sound, Readable, Chained
  <2>14. (alone => LockSound') /\ LockEarned'
    BY <1>2, <2>8, DiskKept
  <2> QED BY <1>2, <2>8, <2>9, <2>11, <2>12, <2>13, <2>14, InOrderKept
<1> QED BY <1>3, <1>4

\* The record of an append, by the command that runs alone, continues the chain.
LEMMA JournalInOrder ==
  ASSUME Inv, InOrder, NEW c \in Running, cmd[c].at = "journal", NEW tier \in {"T0", "T4"},
         Journal(c, tier)
  PROVE  InOrder'
<1>1. Typed /\ c \in Cmd /\ handle[c] \in Handle /\ Idle(c) /\ file \in Seq(Line)
  BY DEF Inv, Typed, Running, Journal, WriteRecord
<1> DEFINE entry == Entry(c, tier, TRUE)
<1>2. /\ file' = Append(file, entry) /\ entry \in Line
      /\ handle' = [handle EXCEPT ![c].owing = TRUE]
      /\ UNCHANGED <<cmd, disk, replayed, locked, alone, cut>>
  BY EntryTyped DEF Journal, WriteRecord, history
<1>3. /\ entry.id = NextId(c) /\ entry.previous = handle[c].head /\ entry.whole /\ ~entry.ended
  BY DEF Entry
<1> HIDE DEF entry
<1>4. /\ \A d \in Cmd \ {c} : handle'[d] = handle[d]
      /\ handle'[c] = [handle[c] EXCEPT !.owing = TRUE] /\ handle' \in [Cmd -> Handle]
  <2>1. [handle[c] EXCEPT !.owing = TRUE] \in Handle
    BY <1>1 DEF Handle
  <2> QED BY <1>1, <1>2, <2>1 DEF Typed
<1>5. /\ (handle[c].owing)' = TRUE /\ (handle[c].open)' = handle[c].open
      /\ (handle[c].index)' = handle[c].index /\ (handle[c].count)' = handle[c].count
      /\ ~handle[c].owing
  BY <1>1, <1>4 DEF Handle, Idle
<1>6. Moves(c)
  BY <1>1, <1>2, <1>4 DEF Moves, Typed
<1>7. Tidy(c)'
  BY <1>1, <1>2 DEF Tidy
<1>8. /\ Len(file) \in Nat /\ DOMAIN file = 1 .. Len(file) /\ Len(file') = Len(file) + 1
      /\ DOMAIN file' = 1 .. Len(file) + 1
      /\ file'[Len(file) + 1] = entry /\ \A i \in DOMAIN file : file'[i] = file[i]
  BY <1>1, <1>2
<1>9. file' # <<>>
  BY <1>8
<1>10. LastId' = NextId(c)' /\ Written' = Written \cup {NextId(c)'}
  <2>1. NextId(c)' = NextId(c)
    BY <1>5 DEF NextId
  <2>2. LastId' = NextId(c)
    BY <1>3, <1>8, <1>9 DEF LastId
  <2>3. \A i \in DOMAIN file' : i \in DOMAIN file \/ i = Len(file) + 1
    BY <1>8
  <2>4. \A x \in Written' : x \in Written \/ x = NextId(c)
    BY <1>3, <1>8, <2>3 DEF Written
  <2>5. \A x \in Written : x \in Written'
    BY <1>8 DEF Written
  <2>6. NextId(c) \in Written'
    <3>1. Len(file) + 1 \in DOMAIN file' /\ file'[Len(file) + 1].id = NextId(c)
      BY <1>3, <1>8
    <3> QED BY <3>1 DEF Written
  <2> QED BY <2>1, <2>2, <2>4, <2>5, <2>6
<1>11. alone => handle[c].head = LastId /\ handle[c].index = Written /\ Did(c) /\ AtEnd(c)
  BY <1>1 DEF InOrder, AtEnd
<1>12. alone => AtEnd(c)'
  BY <1>2, <1>5, <1>9, <1>10, <1>11 DEF AtEnd, Idle
<1>13. alone => Did(c)'
  BY <1>2, <1>11 DEF Did, ProveWrote, InspectWrote, ReplayReads, ProofIs, Complete, Replayed,
                     Started, Follows
<1>14. alone /\ ~cut' => Sound'
  <2> SUFFICES ASSUME alone, ~cut' PROVE Sound'
    OBVIOUS
  <2>1. Sound /\ Running = {c} /\ Running' = Running
    BY <1>2, <1>6, Runners DEF InOrder, Running, Over
  <2>2. file # <<>> => file[Len(file)].ended
    BY <1>5, <2>1 DEF Sound
  <2>3. Readable'
    <3>1. ASSUME NEW i \in DOMAIN file  PROVE file'[i].whole /\ file'[i].ended
      <4>1. file[i].whole /\ (i < Len(file) => file[i].ended) /\ file # <<>>
        BY <1>8, <2>1 DEF Sound, Readable
      <4>2. i < Len(file) \/ i = Len(file)
        BY <1>8
      <4> QED BY <1>8, <2>2, <4>1, <4>2
    <3> QED BY <1>3, <1>8, <3>1 DEF Readable
  <2>4. Chained'
    <3>1. ASSUME NEW i \in DOMAIN file
          PROVE  file'[i].previous = IF i = 1 THEN None ELSE file'[i - 1].id
      <4>1. i = 1 \/ i - 1 \in DOMAIN file
        BY <1>8
      <4> QED BY <1>8, <2>1, <4>1 DEF Sound, Chained
    <3>2. entry.previous = IF Len(file) + 1 = 1 THEN None ELSE file'[Len(file)].id
      <4>1. CASE file = <<>>
        BY <1>3, <1>8, <1>11, <4>1 DEF LastId
      <4>2. CASE file # <<>>
        <5>1. Len(file) \in DOMAIN file
          BY <1>1, <1>8, <4>2
        <5> QED BY <1>3, <1>8, <1>11, <4>2, <5>1 DEF LastId
      <4> QED BY <4>1, <4>2
    <3> QED BY <1>8, <3>1, <3>2 DEF Chained
  <2> QED BY <1>5, <2>1, <2>3, <2>4 DEF Sound
<1>15. (alone => LockSound') /\ LockEarned'
  BY <1>2, <1>6, DiskKept
<1> QED BY <1>2, <1>6, <1>7, <1>12, <1>13, <1>14, <1>15, InOrderKept

\* The end of an append: the ledger ends where the handle thinks it does.
LEMMA JournaledInOrder ==
  ASSUME Inv, InOrder, NEW c \in Running, cmd[c].at = "journal",
         NEW next \in {"world", "claims", "lock"}, Journaled(c, next),
         next = "world" => cmd[c].kind = "prove",
         next = "claims" => cmd[c].kind = "inspect",
         next = "lock" => cmd[c].kind = "replay"
  PROVE  InOrder'
<1>1. Typed /\ c \in Cmd /\ cmd[c] \in Held /\ handle[c] \in Handle /\ handle[c].owing
  BY DEF Inv, Running, Typed, Journaled, EndLine
<1>2. UNCHANGED <<disk, replayed, locked, alone, cut>> /\ Go(c, next)
  BY DEF Journaled, history
<1>3. next \in Place /\ next \notin {"waiting", "done", "failed"}
  BY DEF Place
<1>4. /\ \A d \in Cmd \ {c} : cmd'[d] = cmd[d]
      /\ cmd'[c].kind = cmd[c].kind /\ cmd'[c].at = next /\ cmd'[c] = [cmd[c] EXCEPT !.at = next]
  BY <1>1, <1>2, <1>3, Going
<1>5. /\ cmd'[c].world = cmd[c].world /\ cmd'[c].proof = cmd[c].proof
      /\ cmd'[c].lock = cmd[c].lock /\ cmd'[c].passed = cmd[c].passed
      /\ cmd'[c].revision = cmd[c].revision
  BY <1>1, <1>4 DEF Held
<1> DEFINE new == [open |-> handle[c].open, head |-> NextId(c), index |-> handle[c].index \cup {NextId(c)},
                   count |-> handle[c].count + 1, owing |-> FALSE]
<1>6. handle' = [handle EXCEPT ![c] = new]
  <2>1. handle' = [handle EXCEPT ![c].owing = FALSE, ![c].count = @ + 1,
                                 ![c].head = NextId(c), ![c].index = @ \cup {NextId(c)}]
    BY DEF Journaled, EndLine
  <2>2. handle \in [Cmd -> Handle]
    BY <1>1 DEF Typed
  <2> QED BY <1>1, <2>1, <2>2 DEF Handle
<1>7. /\ new.open = handle[c].open /\ new.head = NextId(c) /\ new.owing = FALSE
      /\ new.index = handle[c].index \cup {NextId(c)}
  OBVIOUS
<1> HIDE DEF new
<1>8. handle'[c] = new /\ \A d \in Cmd \ {c} : handle'[d] = handle[d]
  BY <1>1, <1>6 DEF Typed
<1>9. Moves(c)
  <2>1. Typed'
    BY JournaledKept DEF Inv
  <2> QED BY <1>3, <1>4, <1>8, <2>1 DEF Moves, Typed
<1>10. Tidy(c)'
  BY <1>3, <1>4, <1>7, <1>8 DEF Tidy
<1>11. /\ Len(file) \in Nat /\ DOMAIN file = 1 .. Len(file) /\ DOMAIN file' = DOMAIN file
       /\ Len(file') = Len(file)
       /\ \A i \in DOMAIN file : i # Len(file) => file'[i] = file[i]
       /\ file # <<>> => Len(file) \in DOMAIN file /\ file' # <<>>
  <2>1. file' = [file EXCEPT ![Len(file)].ended = TRUE] /\ file \in Seq(Line)
    BY <1>1 DEF Journaled, EndLine, Typed
  <2>2. DOMAIN file' = DOMAIN file
    BY <2>1
  <2>3. Len(file') = Len(file) /\ file' \in Seq(Line)
    <3>1. file' \in Seq(Line)
      <4>1. Typed'
        BY JournaledKept DEF Inv
      <4> QED BY <4>1 DEF Typed
    <3> QED BY <2>1, <2>2, <3>1
  <2> QED BY <2>1, <2>2, <2>3
<1>12. \A i \in DOMAIN file :
         /\ file'[i].id = file[i].id /\ file'[i].previous = file[i].previous
         /\ file'[i].whole = file[i].whole /\ (file[i].ended \/ i = Len(file) => file'[i].ended)
  <2>1. file' = [file EXCEPT ![Len(file)].ended = TRUE] /\ file \in Seq(Line)
    BY <1>1 DEF Journaled, EndLine, Typed
  <2>2. \A e \in Line : LET f == [e EXCEPT !.ended = TRUE] IN
          f.id = e.id /\ f.previous = e.previous /\ f.whole = e.whole /\ f.ended
    BY DEF Line
  <2>3. \A i \in DOMAIN file : file[i] \in Line
    BY <2>1
  <2>4. \A i \in DOMAIN file : i = Len(file) => file'[i] = [file[i] EXCEPT !.ended = TRUE]
    BY <1>11, <2>1
  <2> QED BY <1>11, <2>2, <2>3, <2>4
<1>13. Written' = Written
  BY <1>11, <1>12 DEF Written
<1>14. alone => /\ file # <<>> /\ LastId = NextId(c)
                /\ Written = handle[c].index \cup {NextId(c)} /\ Did(c) /\ AtEnd(c)
  BY <1>1 DEF InOrder, AtEnd
<1>15. alone => AtEnd(c)'
  <2> SUFFICES ASSUME alone PROVE AtEnd(c)'
    OBVIOUS
  <2>1. LastId' = NextId(c)
    BY <1>11, <1>12, <1>14 DEF LastId
  <2>2. cmd[c].kind \in {"prove", "inspect"} => handle[c].open
    BY <1>14 DEF AtEnd
  <2> QED BY <1>4, <1>7, <1>8, <1>13, <1>14, <2>1, <2>2 DEF AtEnd, Idle
<1>16. Started' = Started
  BY <1>9, Runners
<1>17. alone => Did(c)'
  <2> SUFFICES ASSUME alone PROVE Did(c)'
    OBVIOUS
  <2>1. cmd[c].kind = "prove" => ProveWrote(c)'
    BY <1>2, <1>4, <1>5, <1>14 DEF Did, ProveWrote, Replayed
  <2>2. cmd[c].kind = "inspect" => InspectWrote(c)'
    BY <1>4, <1>5, <1>14 DEF Did, InspectWrote
  <2>3. cmd[c].kind = "replay" => ReplayReads(c)'
    BY <1>2, <1>4, <1>5, <1>14 DEF Did, ReplayReads, ProofIs, Complete, Replayed
  <2> QED BY <1>4, <2>1, <2>2, <2>3 DEF Did
<1>18. alone /\ ~cut' => Sound'
  <2> SUFFICES ASSUME alone, ~cut' PROVE Sound'
    OBVIOUS
  <2>1. Sound
    BY <1>2 DEF InOrder
  <2>2. Readable'
    BY <1>11, <1>12, <2>1 DEF Sound, Readable
  <2>3. Chained'
    <3> SUFFICES ASSUME NEW i \in DOMAIN file
                 PROVE  file'[i].previous = IF i = 1 THEN None ELSE file'[i - 1].id
      BY <1>11 DEF Chained
    <3>1. i = 1 \/ i - 1 \in DOMAIN file
      BY <1>11
    <3> QED BY <1>12, <2>1, <3>1 DEF Sound, Chained
  <2>4. file'[Len(file')].ended
    BY <1>11, <1>12, <1>14
  <2> QED BY <2>2, <2>3, <2>4 DEF Sound
<1>19. (alone => LockSound') /\ LockEarned'
  BY <1>2, <1>9, DiskKept
<1> QED BY <1>2, <1>9, <1>10, <1>15, <1>17, <1>18, <1>19, InOrderKept

\* An append cut short ends the command, and the chain with it.
LEMMA ShortInOrder ==
  ASSUME Inv, InOrder, NEW c \in Running, NEW tier \in {"T0", "T4"}, JournalShort(c, tier)
  PROVE  InOrder'
<1>1. /\ handle' = handle /\ Go(c, "failed") /\ cut' = TRUE /\ Idle(c)
      /\ UNCHANGED <<revision, disk, replayed, locked, saved, alone>>
  BY DEF JournalShort, WriteShort
<1>2. Moves(c) /\ cmd'[c].at = "failed"
  BY <1>1, WentTo DEF Place
<1> QED BY <1>1, <1>2, EndInOrder DEF Idle

\* What a command that runs alone holds, when it is not appending.
LEMMA Between ==
  ASSUME Inv, InOrder, NEW c \in Running, cmd[c].at # "journal"
  PROVE  /\ Typed /\ c \in Cmd /\ cmd[c] \in Held /\ ~handle[c].owing
         /\ disk = [g \in FileName |-> disk[g]]
         /\ alone => Newest(c) /\ Did(c) /\ AtEnd(c) /\ LockSound
<1>1. Typed /\ c \in Cmd /\ cmd[c].at # "failed"
  BY DEF Inv, Running, Over
<1> QED BY <1>1 DEF Typed, FileName, InOrder, Queued, Tidy

\* The fields of a command of which two have been set.
LEMMA TwoFields ==
  ASSUME Inv, NEW c \in Running, NEW new \in Held, cmd' = [cmd EXCEPT ![c] = new],
         new.kind = cmd[c].kind, new.at # "waiting", handle' = handle
  PROVE  Moves(c) /\ cmd'[c] = new
<1>1. Typed /\ c \in Cmd
  BY DEF Inv, Running
<1>2. cmd' \in [Cmd -> Held] /\ cmd'[c] = new /\ \A d \in Cmd \ {c} : cmd'[d] = cmd[d]
  BY <1>1 DEF Typed
<1> QED BY <1>1, <1>2 DEF Moves, Typed

\* The source tree is read.
LEMMA AcquireInOrder ==
  ASSUME Inv, InOrder, NEW c \in Running, cmd[c].at = "acquire", cmd[c].kind \in {"prove", "replay"},
         Only(cmd' = [cmd EXCEPT ![c].revision = revision, ![c].at = "open"])
  PROVE  InOrder'
<1>1. /\ Typed /\ c \in Cmd /\ cmd[c] \in Held
      /\ alone => Newest(c) /\ Did(c) /\ AtEnd(c) /\ LockSound
  BY Between
<1>2. UNCHANGED <<ledgerVars, revision, disk, history>>
  BY DEF Only
<1> DEFINE new == [cmd[c] EXCEPT !.revision = revision, !.at = "open"]
<1>3. cmd' = [cmd EXCEPT ![c] = new]
  BY <1>1 DEF Only, Typed, Held
<1>4. /\ new \in Held /\ new.kind = cmd[c].kind /\ new.at = "open" /\ new.revision = revision
      /\ new.world = cmd[c].world /\ new.proof = cmd[c].proof
  <2>1. "open" \in Place /\ revision \in Nat
    BY <1>1, BundleAssumption DEF Typed, Place
  <2> QED BY <1>1, <2>1 DEF Held
<1> HIDE DEF new
<1>5. Moves(c) /\ cmd'[c] = new
  BY <1>2, <1>3, <1>4, TwoFields DEF ledgerVars
<1>6. alone => Did(c)'
  <2> SUFFICES ASSUME alone PROVE Did(c)'
    OBVIOUS
  <2>1. cmd[c].kind = "prove" => ProveWrote(c)'
    BY <1>1, <1>2, <1>4, <1>5 DEF Typed, history, Did, ProveWrote, Replayed
  <2>2. cmd[c].kind = "replay" => ReplayReads(c)'
    BY <1>1, <1>2, <1>4, <1>5 DEF history, Did, ReplayReads, ProofIs, Complete
  <2> QED BY <1>4, <1>5, <2>1, <2>2 DEF Did
<1> QED BY <1>2, <1>4, <1>5, <1>6, QuietInOrder DEF history

\* The world of an analysis; a verified one has a clean replay.
LEMMA ProveWorldInOrder ==
  ASSUME Inv, InOrder, NEW c \in Running, ProveWorld(c)
  PROVE  InOrder'
<1>1. /\ Typed /\ c \in Cmd /\ cmd[c] \in Held /\ cmd[c].kind = "prove" /\ cmd[c].at = "world"
      /\ alone => Newest(c) /\ Did(c) /\ AtEnd(c) /\ LockSound
  BY Between DEF ProveWorld, At
<1>2. PICK world \in Status :
        /\ cmd' = [cmd EXCEPT ![c].world = world, ![c].at = "proof"]
        /\ replayed' = replayed \cup
             IF world = "verified" THEN {[analysis |-> c, revision |-> cmd[c].revision]} ELSE {}
  BY DEF ProveWorld, Status
<1>3. UNCHANGED <<ledgerVars, revision, disk, locked, saved, alone, cut>>
  BY DEF ProveWorld
<1> DEFINE new == [cmd[c] EXCEPT !.world = world, !.at = "proof"]
<1>4. cmd' = [cmd EXCEPT ![c] = new]
  BY <1>1, <1>2 DEF Typed, Held
<1>5. /\ new \in Held /\ new.kind = "prove" /\ new.at = "proof" /\ new.world = world
      /\ new.revision = cmd[c].revision
  <2>1. "proof" \in Place
    BY DEF Place
  <2> QED BY <1>1, <2>1 DEF Held
<1> HIDE DEF new
<1>6. Moves(c) /\ cmd'[c] = new
  BY <1>1, <1>3, <1>4, <1>5, TwoFields DEF ledgerVars
<1>7. world = "verified" => Replayed(c)'
  <2>1. [analysis |-> c, revision |-> cmd[c].revision].analysis = c
    OBVIOUS
  <2> QED BY <1>2, <2>1 DEF Replayed
<1>8. alone => Did(c)'
  BY <1>1, <1>3, <1>5, <1>6, <1>7 DEF Did, ProveWrote
<1> QED BY <1>1, <1>2, <1>3, <1>5, <1>6, <1>8, QuietInOrder

\* proof.json is emptied and filled by the newest analysis.
LEMMA ProveProofInOrder ==
  ASSUME Inv, InOrder, NEW c \in Running, ProveProof(c)
  PROVE  InOrder'
<1>1. CASE At(c, "prove", "proof") /\ Truncate(c, "proof", "proof filling")
  <2>1. /\ Typed /\ c \in Cmd /\ cmd[c] \in Held
        /\ cmd[c].kind = "prove" /\ cmd[c].at = "proof"
        /\ alone => Newest(c) /\ Did(c) /\ AtEnd(c) /\ LockSound
    BY <1>1, Between DEF At
  <2>2. Go(c, "proof filling") /\ UNCHANGED <<ledgerVars, history>>
    BY <1>1 DEF Truncate
  <2>3. "proof filling" \in Place /\ "proof" \in FileName
    BY DEF Place, FileName
  <2>4. /\ cmd'[c].at = "proof filling" /\ cmd'[c].kind = "prove" /\ cmd'[c].world = cmd[c].world
        /\ cmd'[c].revision = cmd[c].revision
    BY <2>1, <2>2, <2>3, WentTo DEF ledgerVars
  <2>5. alone => Did(c)'
    BY <2>1, <2>2, <2>4 DEF Did, ProveWrote, Replayed, history
  <2> QED BY <1>1, <2>1, <2>3, <2>5, TruncateInOrder
<1>2. CASE /\ At(c, "prove", "proof filling")
           /\ Fill(c, "proof", [by |-> c, revision |-> cmd[c].revision], "claims")
           /\ UNCHANGED history
  <2>1. /\ Typed /\ c \in Cmd /\ cmd[c] \in Held
        /\ cmd[c].kind = "prove" /\ cmd[c].at = "proof filling"
        /\ disk = [g \in FileName |-> disk[g]]
        /\ alone => Newest(c) /\ Did(c) /\ AtEnd(c) /\ LockSound
    BY <1>2, Between DEF At
  <2> DEFINE proof == [by |-> c, revision |-> cmd[c].revision]
  <2>2. disk' = [disk EXCEPT !["proof"] = proof] /\ Go(c, "claims") /\ UNCHANGED <<ledgerVars, history>>
    BY <1>2 DEF Fill
  <2>3. proof.by = c /\ (cmd[c].revision \in 1 .. MaxRevision => proof \notin {None, Torn})
    BY <2>1, BundleAssumption
  <2> HIDE DEF proof
  <2>4. /\ Moves(c) /\ cmd'[c].at = "claims" /\ cmd'[c].kind = "prove"
        /\ cmd'[c].world = cmd[c].world /\ cmd'[c].revision = cmd[c].revision
    BY <2>1, <2>2, WentTo DEF ledgerVars, Place
  <2>5. disk'["proof"] = proof /\ \A g \in FileName \ {"proof"} : disk'[g] = disk[g]
    BY <2>1, <2>2 DEF FileName
  <2>6. alone => Did(c)'
    BY <2>1, <2>2, <2>3, <2>4, <2>5 DEF Did, ProveWrote, Replayed, history, ProofIs, Complete
  <2>7. alone => LockSound'
    <3> SUFFICES ASSUME alone, Complete("lock")'
                 PROVE  disk["lock"].by \in Started /\ Follows(c, disk["lock"].by)
      BY <2>2, <2>3, <2>4, <2>5, Runners DEF LockSound, FileName, history, Follows
    <3>1. disk["lock"].by \in Started
      BY <2>1, <2>5 DEF LockSound, Complete, FileName
    <3>2. disk["lock"].by <= c /\ disk["lock"].by \in Nat /\ c \in Nat
      BY <2>1, <3>1, CommandAssumption DEF Newest, Started
    <3>3. c \notin locked
      BY <2>1 DEF Did, ProveWrote
    <3>4. \A m, n \in Nat : m <= n => n = m \/ n > m
      OBVIOUS
    <3> QED BY <3>1, <3>2, <3>3, <3>4 DEF Follows
  <2>8. LockEarned'
    BY <2>2, <2>5 DEF InOrder, LockEarned, Complete, FileName, history
  <2> QED BY <2>1, <2>2, <2>4, <2>6, <2>7, <2>8, WriteInOrder DEF history
<1> QED BY <1>1, <1>2 DEF ProveProof

\* The claims are read, with some of the command's own, or the command ends.
LEMMA ReadInOrder ==
  ASSUME Inv, InOrder, NEW c \in Running, NEW own \in SUBSET Claims,
         NEW next \in {"claims writing", "journal"}, ReadClaims(c, own, next),
         next = "claims writing" => At(c, "prove", "claims"),
         next = "journal" => At(c, "inspect", "store")
  PROVE  InOrder'
<1>1. /\ Typed /\ c \in Cmd /\ cmd[c] \in Held /\ ~handle[c].owing
      /\ cmd[c].kind = (IF next = "journal" THEN "inspect" ELSE "prove")
      /\ cmd[c].at = (IF next = "journal" THEN "store" ELSE "claims")
      /\ alone => Newest(c) /\ Did(c) /\ AtEnd(c) /\ LockSound
  BY Between DEF At
<1>2. UNCHANGED <<ledgerVars, revision, disk, history>>
  BY DEF ReadClaims, Only
<1>3. CASE disk["claims"] = Torn
  <2>1. Go(c, "failed")
    BY <1>3 DEF ReadClaims, Only
  <2>2. Moves(c) /\ cmd'[c].at = "failed"
    BY <1>2, <2>1, WentTo DEF Place, ledgerVars
  <2> QED BY <1>1, <1>2, <2>2, EndInOrder DEF ledgerVars, history
<1>4. CASE disk["claims"] # Torn
  <2> DEFINE new == [cmd[c] EXCEPT !.claims = Stored \cup own, !.at = next]
  <2>1. cmd' = [cmd EXCEPT ![c] = new]
    BY <1>1, <1>4 DEF ReadClaims, Only, Typed, Held
  <2>2. /\ new \in Held /\ new.kind = cmd[c].kind /\ new.at = next /\ new.at # "waiting"
        /\ new.world = cmd[c].world /\ new.revision = cmd[c].revision
    <3>1. Stored \cup own \subseteq Claims /\ next \in Place /\ next # "waiting"
      BY <1>4, StoredHeld DEF Place
    <3> QED BY <1>1, <3>1 DEF Held
  <2> HIDE DEF new
  <2>3. Moves(c) /\ cmd'[c] = new
    BY <1>2, <2>1, <2>2, TwoFields DEF ledgerVars
  <2>4. alone => Did(c)'
    <3> SUFFICES ASSUME alone PROVE Did(c)'
      OBVIOUS
    <3>1. cmd[c].kind = "prove" => ProveWrote(c)'
      BY <1>1, <1>2, <2>2, <2>3 DEF Did, ProveWrote, Replayed, ProofIs, Complete, history
    <3>2. cmd[c].kind = "inspect" => InspectWrote(c)'
      BY <1>1, <1>2, <2>2, <2>3 DEF Did, InspectWrote
    <3> QED BY <1>1, <2>2, <2>3, <3>1, <3>2 DEF Did
  <2> QED BY <1>1, <1>2, <2>3, <2>4, QuietInOrder DEF history
<1> QED BY <1>3, <1>4

\* The claims are emptied.
LEMMA EmptyClaimsInOrder ==
  ASSUME Inv, InOrder, NEW c \in Running, cmd[c].kind \in {"prove", "inspect"},
         cmd[c].at = "claims writing", Truncate(c, "claims", "claims filling")
  PROVE  InOrder'
<1>1. /\ Typed /\ c \in Cmd /\ cmd[c] \in Held /\ disk = [g \in FileName |-> disk[g]]
      /\ alone => Newest(c) /\ Did(c) /\ AtEnd(c) /\ LockSound
  BY Between
<1>2. /\ disk' = [disk EXCEPT !["claims"] = Torn] /\ Go(c, "claims filling")
      /\ UNCHANGED <<ledgerVars, history>>
  BY DEF Truncate
<1>3. "claims filling" \in Place /\ "claims" \in FileName
  BY DEF Place, FileName
<1>4. /\ cmd'[c].at = "claims filling" /\ cmd'[c].kind = cmd[c].kind /\ cmd'[c].world = cmd[c].world
      /\ cmd'[c].revision = cmd[c].revision
  BY <1>2, <1>3, WentTo DEF ledgerVars
<1>5. disk'["proof"] = disk["proof"]
  BY <1>1, <1>2 DEF FileName
<1>6. alone => Did(c)'
  <2> SUFFICES ASSUME alone PROVE Did(c)'
    OBVIOUS
  <2>1. cmd[c].kind = "prove" => ProveWrote(c)'
    BY <1>1, <1>2, <1>4, <1>5 DEF Did, ProveWrote, Replayed, ProofIs, Complete, history
  <2>2. cmd[c].kind = "inspect" => InspectWrote(c)'
    BY <1>1, <1>4 DEF Did, InspectWrote
  <2> QED BY <1>4, <2>1, <2>2 DEF Did
<1> QED BY <1>1, <1>3, <1>6, TruncateInOrder

\* The claims are filled.
LEMMA SaveInOrder ==
  ASSUME Inv, InOrder, NEW c \in Running, NEW next \in {"lock", "manifest"}, SaveClaims(c, next),
         cmd[c].at = "claims filling", cmd[c].kind \in {"prove", "inspect"},
         next = "lock" => cmd[c].kind = "prove",
         next = "manifest" => cmd[c].kind = "inspect" \/ cmd[c].world = None
  PROVE  InOrder'
<1>1. /\ Typed /\ c \in Cmd /\ cmd[c] \in Held /\ disk = [g \in FileName |-> disk[g]]
      /\ alone => Newest(c) /\ Did(c) /\ AtEnd(c) /\ LockSound
  BY Between
<1>2. /\ disk' = [disk EXCEPT !["claims"] = cmd[c].claims] /\ Go(c, next)
      /\ UNCHANGED <<ledgerVars, revision, replayed, locked, alone, cut>>
  BY DEF SaveClaims, Fill
<1>3. /\ Moves(c) /\ cmd'[c].at = next /\ cmd'[c].kind = cmd[c].kind /\ cmd'[c].world = cmd[c].world
      /\ cmd'[c].revision = cmd[c].revision
  BY <1>2, WentTo DEF ledgerVars, Place
<1>4. /\ disk'["claims"] = cmd[c].claims /\ cmd[c].claims \notin {None, Torn}
      /\ \A g \in FileName \ {"claims"} : disk'[g] = disk[g]
  BY <1>1, <1>2, BundleAssumption DEF Held, FileName
<1>5. Complete("claims")' /\ disk'["proof"] = disk["proof"] /\ disk'["lock"] = disk["lock"]
  BY <1>4 DEF Complete, FileName
<1>6. alone => Did(c)'
  <2> SUFFICES ASSUME alone PROVE Did(c)'
    OBVIOUS
  <2>1. cmd[c].kind = "prove" => ProveWrote(c)'
    <3> SUFFICES ASSUME cmd[c].kind = "prove" PROVE ProveWrote(c)'
      OBVIOUS
    <3>1. ProveWrote(c)
      BY <1>1 DEF Did
    <3>2. ProofIs(c)'
      BY <1>5, <3>1 DEF ProveWrote, ProofIs, Complete
    <3>3. next = "manifest" => cmd[c].world = None
      OBVIOUS
    <3> QED BY <1>2, <1>3, <1>5, <3>1, <3>2, <3>3 DEF ProveWrote, Replayed
  <2>2. cmd[c].kind = "inspect" => InspectWrote(c)'
    BY <1>1, <1>3, <1>5 DEF Did, InspectWrote
  <2> QED BY <1>3, <2>1, <2>2 DEF Did
<1>7. (alone => LockSound') /\ LockEarned'
  <2>1. Started' = Started
    BY <1>3, Runners
  <2>2. alone => LockSound'
    <3>1. Complete("lock")' = Complete("lock") /\ Complete("proof")' = Complete("proof")
      BY <1>5 DEF Complete
    <3>2. alone => LockSound
      BY <1>1
    <3>3. UNCHANGED <<locked, alone>>
      BY <1>2
    <3> QED BY <1>5, <2>1, <3>1, <3>2, <3>3 DEF LockSound, Follows
  <2>3. LockEarned'
    BY <1>2, <1>5 DEF InOrder, LockEarned, Complete
  <2> QED BY <2>2, <2>3
<1> QED BY <1>2, <1>3, <1>6, <1>7, WriteInOrder

\* The lock is emptied and filled by the analysis whose proof.json is there.
LEMMA ProveLockInOrder ==
  ASSUME Inv, InOrder, NEW c \in Running, ProveLock(c)
  PROVE  InOrder'
<1>1. CASE At(c, "prove", "lock") /\ Truncate(c, "lock", "lock filling")
  <2>1. /\ Typed /\ c \in Cmd /\ cmd[c].kind = "prove" /\ cmd[c].at = "lock"
        /\ disk = [g \in FileName |-> disk[g]]
        /\ alone => Newest(c) /\ Did(c) /\ AtEnd(c) /\ LockSound
    BY <1>1, Between DEF At
  <2>2. /\ disk' = [disk EXCEPT !["lock"] = Torn] /\ Go(c, "lock filling")
        /\ UNCHANGED <<ledgerVars, history>>
    BY <1>1 DEF Truncate
  <2>3. "lock filling" \in Place /\ "lock" \in FileName
    BY DEF Place, FileName
  <2>4. /\ cmd'[c].at = "lock filling" /\ cmd'[c].kind = "prove" /\ cmd'[c].world = cmd[c].world
        /\ cmd'[c].revision = cmd[c].revision
    BY <2>1, <2>2, <2>3, WentTo DEF ledgerVars
  <2>5. disk'["proof"] = disk["proof"] /\ disk'["claims"] = disk["claims"]
    BY <2>1, <2>2 DEF FileName
  <2>6. alone => Did(c)'
    BY <2>1, <2>2, <2>4, <2>5 DEF Did, ProveWrote, Replayed, ProofIs, Complete, history
  <2> QED BY <1>1, <2>1, <2>3, <2>6, TruncateInOrder
<1>2. CASE /\ At(c, "prove", "lock filling")
           /\ Fill(c, "lock", [by |-> c, revision |-> cmd[c].revision, status |-> cmd[c].world],
                   "manifest")
           /\ locked' = locked \cup {c}
           /\ UNCHANGED <<replayed, saved, alone, cut>>
  <2>1. /\ Typed /\ c \in Cmd /\ cmd[c] \in Held
        /\ cmd[c].kind = "prove" /\ cmd[c].at = "lock filling"
        /\ disk = [g \in FileName |-> disk[g]]
        /\ alone => Newest(c) /\ Did(c) /\ AtEnd(c) /\ LockSound
    BY <1>2, Between DEF At
  <2> DEFINE lock == [by |-> c, revision |-> cmd[c].revision, status |-> cmd[c].world]
  <2>2. /\ disk' = [disk EXCEPT !["lock"] = lock] /\ Go(c, "manifest")
        /\ UNCHANGED <<ledgerVars, replayed, alone, cut>>
    BY <1>2 DEF Fill
  <2>3. /\ lock.by = c /\ lock.status = cmd[c].world
        /\ cmd[c].revision \in 1 .. MaxRevision /\ cmd[c].world # None => lock \notin {None, Torn}
    <3>1. cmd[c].world \in Status
      BY <2>1 DEF Held
    <3> QED BY <2>1, <3>1, BundleAssumption DEF Status
  <2> HIDE DEF lock
  <2>4. /\ Moves(c) /\ cmd'[c].at = "manifest" /\ cmd'[c].kind = "prove"
        /\ cmd'[c].world = cmd[c].world /\ cmd'[c].revision = cmd[c].revision
    BY <2>1, <2>2, WentTo DEF ledgerVars, Place
  <2>5. /\ disk'["lock"] = lock /\ disk'["proof"] = disk["proof"] /\ disk'["claims"] = disk["claims"]
    BY <2>1, <2>2 DEF FileName
  <2>6. alone => Did(c)'
    BY <2>1, <2>2, <2>3, <2>4, <2>5 DEF Did, ProveWrote, Replayed, ProofIs, Complete
  <2>7. alone => LockSound'
    <3>1. c \in Started /\ Started' = Started
      BY <2>1, <2>4, Runners DEF Started
    <3>2. alone => disk["proof"].by = c
      BY <2>1 DEF Did, ProveWrote, ProofIs
    <3> QED BY <2>3, <2>5, <3>1, <3>2 DEF LockSound, Follows
  <2>8. LockEarned'
    BY <2>1, <2>2, <2>3, <2>5 DEF LockEarned, Did, ProveWrote, Replayed
  <2>9. locked' \subseteq locked \cup {c}
    BY <1>2
  <2> QED BY <2>1, <2>2, <2>4, <2>6, <2>7, <2>8, <2>9, WriteInOrder
<1> QED BY <1>1, <1>2 DEF ProveLock

\* The manifest is emptied, and filled when the rest of the bundle is in place.
LEMMA ManifestInOrder ==
  ASSUME Inv, InOrder, NEW c \in Running, WriteManifest(c)
  PROVE  InOrder'
<1>1. CASE /\ cmd[c].kind \in {"prove", "inspect"} /\ cmd[c].at = "manifest"
           /\ Truncate(c, "manifest", "manifest filling")
  <2>1. /\ Typed /\ c \in Cmd /\ disk = [g \in FileName |-> disk[g]]
        /\ alone => Newest(c) /\ Did(c) /\ AtEnd(c) /\ LockSound
    BY <1>1, Between
  <2>2. /\ disk' = [disk EXCEPT !["manifest"] = Torn] /\ Go(c, "manifest filling")
        /\ UNCHANGED <<ledgerVars, history>>
    BY <1>1 DEF Truncate
  <2>3. "manifest filling" \in Place /\ "manifest" \in FileName
    BY DEF Place, FileName
  <2>4. /\ cmd'[c].at = "manifest filling" /\ cmd'[c].kind = cmd[c].kind
        /\ cmd'[c].world = cmd[c].world /\ cmd'[c].revision = cmd[c].revision
    BY <2>1, <2>2, <2>3, WentTo DEF ledgerVars
  <2>5. /\ disk'["proof"] = disk["proof"] /\ disk'["claims"] = disk["claims"]
        /\ disk'["lock"] = disk["lock"]
    BY <2>1, <2>2 DEF FileName
  <2>6. alone => Did(c)'
    <3> SUFFICES ASSUME alone PROVE Did(c)'
      OBVIOUS
    <3>1. cmd[c].kind = "prove" => ProveWrote(c)'
      BY <1>1, <2>1, <2>2, <2>4, <2>5 DEF Did, ProveWrote, Replayed, ProofIs, Complete, history
    <3>2. cmd[c].kind = "inspect" => InspectWrote(c)'
      BY <1>1, <2>1, <2>4, <2>5 DEF Did, InspectWrote, Complete
    <3> QED BY <1>1, <2>4, <3>1, <3>2 DEF Did
  <2> QED BY <1>1, <2>1, <2>3, <2>6, TruncateInOrder
<1>2. CASE /\ cmd[c].at = "manifest filling" /\ Fill(c, "manifest", Manifest(c), "done")
           /\ UNCHANGED history
  <2>1. /\ Typed /\ c \in Cmd /\ cmd[c] \in Held /\ handle[c] \in Handle /\ ~handle[c].owing
        /\ disk = [g \in FileName |-> disk[g]]
        /\ alone => Newest(c) /\ Did(c) /\ AtEnd(c) /\ LockSound
    BY <1>2, Between DEF Typed
  <2>2. /\ disk' = [disk EXCEPT !["manifest"] = Manifest(c)] /\ Go(c, "done")
        /\ UNCHANGED <<ledgerVars, history>>
    BY <1>2 DEF Fill
  <2>3. Moves(c) /\ cmd'[c].at = "done"
    BY <2>1, <2>2, WentTo DEF ledgerVars, Place
  <2>4. /\ disk'["manifest"] = Manifest(c)
        /\ disk'["proof"] = disk["proof"] /\ disk'["claims"] = disk["claims"]
        /\ disk'["lock"] = disk["lock"]
    BY <2>1, <2>2 DEF FileName
  <2>5. /\ Manifest(c).by = c /\ Manifest(c).mode = cmd[c].kind
        /\ Manifest(c).head = handle[c].head /\ Manifest(c).status = cmd[c].world
    BY DEF Manifest
  <2>6. alone => ManifestSeals'
    <3> SUFFICES ASSUME alone PROVE ManifestSeals'
      OBVIOUS
    <3>1. handle[c].head = LastId /\ LastId' = LastId
      <4>1. cmd[c].kind \in {"prove", "inspect"} /\ AtEnd(c)
        BY <1>2, <2>1 DEF Did
      <4>2. Idle(c)
        BY <1>2, <2>1, <4>1 DEF AtEnd, Idle
      <4> QED BY <2>2, <4>1, <4>2 DEF AtEnd, LastId, ledgerVars
    <3>2. Complete("claims")' /\ (cmd[c].kind = "prove" => ProofIs(c)')
      BY <1>2, <2>1, <2>4 DEF Did, ProveWrote, InspectWrote, ProofIs, Complete
    <3>3. cmd[c].world # None =>
            Complete("lock")' /\ disk["lock"].by = c /\ disk["lock"].status = cmd[c].world
      BY <1>2, <2>1, <2>4 DEF Did, ProveWrote, InspectWrote, Complete
    <3> QED BY <2>4, <2>5, <3>1, <3>2, <3>3 DEF ManifestSeals, ProofIs
  <2>7. c \notin Running'
    BY <2>3, Runners
  <2>8. Tidy(c)' /\ (alone /\ ~cut' => Sound')
    BY <1>2, <2>2, <2>3, LedgerKept DEF history
  <2>9. (alone => LockSound') /\ LockEarned'
    <3>1. Started' = Started
      BY <2>3, Runners
    <3> QED BY <2>1, <2>2, <2>4, <3>1 DEF InOrder, LockSound, LockEarned, Follows, Complete, history
  <2> QED BY <2>2, <2>3, <2>4, <2>5, <2>6, <2>7, <2>8, <2>9, InOrderKept DEF history
<1> QED BY <1>1, <1>2 DEF WriteManifest

\* Every step of prove and of inspect.
LEMMA ProveInOrder ==
  ASSUME Inv, InOrder, NEW c \in Running,
         \/ ProveAcquire(c) \/ ProveOpen(c) \/ ProveJournal(c) \/ ProveWorld(c) \/ ProveProof(c)
         \/ ProveClaims(c) \/ ProveLock(c) \/ WriteManifest(c)
  PROVE  InOrder'
<1>1. CASE ProveAcquire(c)
  BY <1>1, AcquireInOrder DEF ProveAcquire, At
<1>2. CASE ProveOpen(c)
  BY <1>2, OpenInOrder DEF ProveOpen, At
<1>3. CASE ProveJournal(c)
  BY <1>3, JournalInOrder, ShortInOrder, JournaledInOrder DEF ProveJournal, At
<1>4. CASE ProveClaims(c)
  <2>1. CASE At(c, "prove", "claims") /\ \E claims \in {{}, {NewClaim(c)}} : ReadClaims(c, claims, "claims writing")
    <3>1. PICK claims \in {{}, {NewClaim(c)}} : ReadClaims(c, claims, "claims writing")
      BY <2>1
    <3>2. NewClaim(c) \in Claims
      BY <2>1, OwnClaim DEF At, Cites
    <3>3. claims \in SUBSET Claims
      BY <3>1, <3>2
    <3> QED BY <2>1, <3>1, <3>3, ReadInOrder
  <2>2. CASE At(c, "prove", "claims writing") /\ Truncate(c, "claims", "claims filling")
    BY <2>2, EmptyClaimsInOrder DEF At
  <2>3. CASE At(c, "prove", "claims filling") /\ SaveClaims(c, AfterClaims(c))
    <3>1. AfterClaims(c) \in {"lock", "manifest"} /\ (AfterClaims(c) = "manifest" => cmd[c].world = None)
      BY DEF AfterClaims
    <3> QED BY <2>3, <3>1, SaveInOrder DEF At
  <2> QED BY <1>4, <2>1, <2>2, <2>3 DEF ProveClaims
<1> QED BY <1>1, <1>2, <1>3, <1>4, ProveWorldInOrder, ProveProofInOrder, ProveLockInOrder, ManifestInOrder

\* Every step of inspect but the manifest's.
LEMMA InspectInOrder ==
  ASSUME Inv, InOrder, NEW c \in Running, InspectOpen(c) \/ InspectJournal(c) \/ InspectClaims(c)
  PROVE  InOrder'
<1>1. CASE At(c, "inspect", "open") /\ OpenLedger(c, "store")
  BY <1>1, OpenInOrder DEF At
<1>2. CASE At(c, "inspect", "store") /\ ReadClaims(c, {}, "journal")
  BY <1>2, ReadInOrder DEF At
<1>3. CASE InspectJournal(c)
  BY <1>3, JournalInOrder, ShortInOrder, JournaledInOrder DEF InspectJournal, At
<1>4. CASE /\ At(c, "inspect", "claims")
           /\ Only(cmd' = [cmd EXCEPT ![c].claims = @ \cup {NewClaim(c)}, ![c].at = "claims writing"])
  <2>1. /\ Typed /\ c \in Cmd /\ cmd[c] \in Held /\ cmd[c].kind = "inspect" /\ cmd[c].at = "claims"
        /\ alone => Newest(c) /\ Did(c) /\ AtEnd(c) /\ LockSound
    BY <1>4, Between DEF At
  <2>2. UNCHANGED <<ledgerVars, revision, disk, history>>
    BY <1>4 DEF Only
  <2> DEFINE mine == cmd[c].claims \cup {NewClaim(c)}
             new  == [cmd[c] EXCEPT !.claims = mine, !.at = "claims writing"]
  <2>3. mine \subseteq Claims
    BY <1>4, <2>1, OwnClaim DEF Held, At, Cites
  <2>4. cmd' = [cmd EXCEPT ![c] = new]
    BY <1>4, <2>1 DEF Only, Typed, Held
  <2> HIDE DEF mine
  <2>5. /\ new \in Held /\ new.kind = "inspect" /\ new.at = "claims writing" /\ new.world = cmd[c].world
    BY <2>1, <2>3 DEF Held, Place
  <2> HIDE DEF new
  <2>6. Moves(c) /\ cmd'[c] = new
    BY <2>1, <2>2, <2>4, <2>5, TwoFields DEF ledgerVars
  <2>7. alone => Did(c)'
    BY <2>1, <2>5, <2>6 DEF Did, InspectWrote
  <2> QED BY <2>1, <2>2, <2>5, <2>6, <2>7, QuietInOrder DEF history
<1>5. CASE At(c, "inspect", "claims writing") /\ Truncate(c, "claims", "claims filling")
  BY <1>5, EmptyClaimsInOrder DEF At
<1>6. CASE At(c, "inspect", "claims filling") /\ SaveClaims(c, "manifest")
  BY <1>6, SaveInOrder DEF At
<1> QED BY <1>1, <1>2, <1>3, <1>4, <1>5, <1>6 DEF InspectOpen, InspectClaims

\* A replay reads which analysis it is of from the proof.json it finds.
LEMMA ReplayReadInOrder ==
  ASSUME Inv, InOrder, NEW c \in Running, ReplayRead(c)
  PROVE  InOrder'
<1>1. /\ Typed /\ c \in Cmd /\ cmd[c] \in Held /\ ~handle[c].owing
      /\ cmd[c].kind = "replay" /\ cmd[c].at = "proof"
  BY Between DEF ReplayRead, At
<1>2. UNCHANGED <<ledgerVars, revision, disk, history>>
  BY DEF ReplayRead, Only
<1>3. CASE Complete("proof")
  <2> DEFINE new == [cmd[c] EXCEPT !.proof = disk["proof"].by, !.at = "acquire"]
  <2>1. cmd' = [cmd EXCEPT ![c] = new]
    BY <1>1, <1>3 DEF ReplayRead, Only, Typed, Held
  <2>2. /\ new \in Held /\ new.kind = "replay" /\ new.at = "acquire" /\ new.proof = disk["proof"].by
    <3>1. "acquire" \in Place /\ disk["proof"].by \in Nat
      BY <1>1, <1>3, CommandAssumption DEF Place, Typed, Proof
    <3> QED BY <1>1, <3>1 DEF Held
  <2> HIDE DEF new
  <2>3. Moves(c) /\ cmd'[c] = new
    BY <1>1, <1>2, <2>1, <2>2, TwoFields DEF ledgerVars
  <2>4. Did(c)'
    BY <1>2, <1>3, <2>2, <2>3 DEF Did, ReplayReads, ProofIs, Complete
  <2> QED BY <1>1, <1>2, <2>2, <2>3, <2>4, QuietInOrder DEF history
<1>4. CASE ~Complete("proof")
  <2>1. Go(c, "failed")
    BY <1>4 DEF ReplayRead, Only
  <2>2. Moves(c) /\ cmd'[c].at = "failed"
    BY <1>2, <2>1, WentTo DEF Place, ledgerVars
  <2> QED BY <1>1, <1>2, <2>2, EndInOrder DEF ledgerVars, history
<1> QED BY <1>3, <1>4

\* The clean replay of the analysis it read.
LEMMA ReplayRunInOrder ==
  ASSUME Inv, InOrder, NEW c \in Running, ReplayRun(c)
  PROVE  InOrder'
<1>1. /\ Typed /\ c \in Cmd /\ cmd[c] \in Held /\ cmd[c].kind = "replay" /\ cmd[c].at = "run"
      /\ alone => Newest(c) /\ Did(c) /\ AtEnd(c) /\ LockSound
  BY Between DEF ReplayRun, At
<1>2. PICK passed \in BOOLEAN :
        /\ cmd' = [cmd EXCEPT ![c].passed = passed, ![c].at = "journal"]
        /\ replayed' = replayed \cup
             IF passed THEN {[analysis |-> cmd[c].proof, revision |-> cmd[c].revision]} ELSE {}
  BY DEF ReplayRun
<1>3. UNCHANGED <<ledgerVars, revision, disk, locked, saved, alone, cut>>
  BY DEF ReplayRun
<1> DEFINE new == [cmd[c] EXCEPT !.passed = passed, !.at = "journal"]
<1>4. cmd' = [cmd EXCEPT ![c] = new]
  BY <1>1, <1>2 DEF Typed, Held
<1>5. /\ new \in Held /\ new.kind = "replay" /\ new.at = "journal" /\ new.passed = passed
      /\ new.proof = cmd[c].proof
  <2>1. "journal" \in Place
    BY DEF Place
  <2> QED BY <1>1, <2>1 DEF Held
<1> HIDE DEF new
<1>6. Moves(c) /\ cmd'[c] = new
  BY <1>1, <1>3, <1>4, <1>5, TwoFields DEF ledgerVars
<1>7. passed => Replayed(cmd[c].proof)'
  <2> DEFINE run == [analysis |-> cmd[c].proof, revision |-> cmd[c].revision]
  <2>1. ASSUME passed  PROVE run \in replayed' /\ run.analysis = cmd[c].proof
    BY <1>2, <2>1
  <2> HIDE DEF run
  <2> SUFFICES ASSUME passed PROVE \E r \in replayed' : r.analysis = cmd'[c].proof
    BY DEF Replayed
  <2> QED BY <1>5, <1>6, <2>1
<1>8. alone => Did(c)'
  <2> SUFFICES ASSUME alone PROVE Did(c)'
    OBVIOUS
  <2>1. ProofIs(cmd[c].proof)'
    BY <1>1, <1>3, <1>5, <1>6 DEF Did, ReplayReads, ProofIs, Complete
  <2> QED BY <1>5, <1>6, <1>7, <2>1 DEF Did, ReplayReads
<1> QED BY <1>1, <1>2, <1>3, <1>5, <1>6, <1>8, QuietInOrder

\* The lock is read, emptied, and written back with the outcome of the replay.
LEMMA ReplayLockInOrder ==
  ASSUME Inv, InOrder, NEW c \in Running, ReplayLock(c) \/ ReplayUpdate(c)
  PROVE  InOrder'
<1>1. CASE /\ At(c, "replay", "lock")
           /\ Only(IF Complete("lock")
                   THEN cmd' = [cmd EXCEPT ![c].lock = disk["lock"], ![c].at = "lock writing"]
                   ELSE Go(c, "done"))
  <2>1. /\ Typed /\ c \in Cmd /\ cmd[c] \in Held /\ ~handle[c].owing
        /\ cmd[c].kind = "replay" /\ cmd[c].at = "lock"
        /\ alone => Newest(c) /\ Did(c) /\ AtEnd(c) /\ LockSound
    BY <1>1, Between DEF At
  <2>2. UNCHANGED <<ledgerVars, revision, disk, history>>
    BY <1>1 DEF Only
  <2>3. CASE Complete("lock")
    <3> DEFINE new == [cmd[c] EXCEPT !.lock = disk["lock"], !.at = "lock writing"]
    <3>1. cmd' = [cmd EXCEPT ![c] = new]
      BY <1>1, <2>1, <2>3 DEF Only, Typed, Held
    <3>2. /\ new \in Held /\ new.kind = "replay" /\ new.at = "lock writing"
          /\ new.lock = disk["lock"] /\ new.proof = cmd[c].proof /\ new.passed = cmd[c].passed
      <4>1. "lock writing" \in Place /\ disk["lock"] \in Lock
        BY <2>1, <2>3 DEF Place, Typed
      <4> QED BY <2>1, <4>1 DEF Held
    <3> HIDE DEF new
    <3>3. Moves(c) /\ cmd'[c] = new
      BY <2>1, <2>2, <3>1, <3>2, TwoFields DEF ledgerVars
    <3>4. Started' = Started
      BY <3>3, Runners
    <3>5. alone => Did(c)'
      <4> SUFFICES ASSUME alone PROVE Did(c)'
        OBVIOUS
      <4>1. ProofIs(cmd[c].proof) /\ (cmd[c].passed => Replayed(cmd[c].proof))
        BY <2>1 DEF Did, ReplayReads
      <4>2. disk["lock"].by \in Started /\ Follows(cmd[c].proof, disk["lock"].by)
        BY <2>1, <2>3, <4>1 DEF LockSound, ProofIs
      <4> QED BY <2>2, <3>2, <3>3, <3>4, <4>1, <4>2
              DEF Did, ReplayReads, ProofIs, Complete, Replayed, Follows, history
    <3> QED BY <2>1, <2>2, <3>3, <3>5, QuietInOrder DEF history
  <2>4. CASE ~Complete("lock")
    <3>1. Go(c, "done")
      BY <1>1, <2>4 DEF Only
    <3>2. Moves(c) /\ cmd'[c].at = "done"
      BY <2>2, <3>1, WentTo DEF Place, ledgerVars
    <3> QED BY <2>1, <2>2, <3>2, EndInOrder DEF ledgerVars, history
  <2> QED BY <2>3, <2>4
<1>2. CASE At(c, "replay", "lock writing") /\ Truncate(c, "lock", "lock filling")
  <2>1. /\ Typed /\ c \in Cmd /\ cmd[c].kind = "replay" /\ cmd[c].at = "lock writing"
        /\ disk = [g \in FileName |-> disk[g]]
        /\ alone => Newest(c) /\ Did(c) /\ AtEnd(c) /\ LockSound
    BY <1>2, Between DEF At
  <2>2. /\ disk' = [disk EXCEPT !["lock"] = Torn] /\ Go(c, "lock filling")
        /\ UNCHANGED <<ledgerVars, history>>
    BY <1>2 DEF Truncate
  <2>3. "lock filling" \in Place /\ "lock" \in FileName
    BY DEF Place, FileName
  <2>4. /\ Moves(c) /\ cmd'[c].at = "lock filling" /\ cmd'[c].kind = "replay"
        /\ cmd'[c].lock = cmd[c].lock /\ cmd'[c].proof = cmd[c].proof
        /\ cmd'[c].passed = cmd[c].passed
    BY <2>1, <2>2, <2>3, WentTo DEF ledgerVars
  <2>5. disk'["proof"] = disk["proof"] /\ Started' = Started
    BY <2>1, <2>2, <2>4, Runners DEF FileName
  <2>6. alone => Did(c)'
    BY <2>1, <2>2, <2>4, <2>5 DEF Did, ReplayReads, ProofIs, Complete, Replayed, Follows, history
  <2> QED BY <1>2, <2>1, <2>3, <2>6, TruncateInOrder
<1>3. CASE ReplayUpdate(c)
  <2>1. /\ Typed /\ c \in Cmd /\ cmd[c].kind = "replay" /\ cmd[c].at = "lock filling"
        /\ disk = [g \in FileName |-> disk[g]]
        /\ alone => Newest(c) /\ Did(c) /\ AtEnd(c) /\ LockSound
    BY <1>3, Between DEF ReplayUpdate, At
  <2>2. cmd[c].lock \in Lock
    BY <2>1 DEF Inv, Local, Placed
  <2> DEFINE lock == Updated(c)
  <2>3. lock.by = cmd[c].lock.by /\ (lock.status = "verified" => cmd[c].passed)
    BY <2>2 DEF Updated, Lock
  <2>4. disk' = [disk EXCEPT !["lock"] = lock] /\ Go(c, "done") /\ UNCHANGED <<ledgerVars, history>>
    BY <1>3 DEF ReplayUpdate, Fill
  <2> HIDE DEF lock
  <2>5. Moves(c) /\ cmd'[c].at = "done" /\ cmd'[c].kind = "replay"
    BY <2>1, <2>4, WentTo DEF ledgerVars, Place
  <2>6. disk'["lock"] = lock /\ disk'["proof"] = disk["proof"] /\ Started' = Started
    BY <2>1, <2>4, <2>5, Runners DEF FileName
  <2>7. alone => /\ cmd[c].lock.by \in Started /\ Follows(cmd[c].proof, cmd[c].lock.by)
                 /\ disk["proof"].by = cmd[c].proof
                 /\ cmd[c].passed => Replayed(cmd[c].proof)
    BY <2>1 DEF Did, ReplayReads, ProofIs
  <2>8. alone => LockSound'
    BY <2>3, <2>4, <2>6, <2>7 DEF LockSound, Follows, history
  <2>9. LockEarned'
    <3> SUFFICES ASSUME alone, lock.status = "verified"
                 PROVE  \E run \in replayed : \/ run.analysis = lock.by
                                              \/ run.analysis > lock.by /\ run.analysis \notin locked
      BY <2>4, <2>6 DEF LockEarned, history
    <3>1. PICK run \in replayed : run.analysis = cmd[c].proof
      BY <2>3, <2>7 DEF Replayed
    <3> QED BY <2>3, <2>7, <3>1 DEF Follows
  <2>10. Tidy(c)' /\ (alone /\ ~cut' => Sound')
    BY <2>1, <2>4, <2>5, LedgerKept DEF history
  <2>11. disk'["manifest"] = disk["manifest"]
    BY <2>1, <2>4 DEF FileName
  <2> QED BY <2>4, <2>5, <2>8, <2>9, <2>10, <2>11, InOrderKept DEF history
<1> QED BY <1>1, <1>2, <1>3 DEF ReplayLock

\* Every step of replay and of explain.
LEMMA ReplayInOrder ==
  ASSUME Inv, InOrder, NEW c \in Running,
         \/ ReplayRead(c) \/ ReplayAcquire(c) \/ ReplayOpen(c) \/ ReplayRun(c) \/ ReplayJournal(c)
         \/ ReplayLock(c) \/ ReplayUpdate(c) \/ Explain(c)
  PROVE  InOrder'
<1>1. CASE ReplayAcquire(c)
  BY <1>1, AcquireInOrder DEF ReplayAcquire, At
<1>2. CASE ReplayOpen(c)
  BY <1>2, OpenInOrder DEF ReplayOpen, At
<1>3. CASE ReplayJournal(c)
  BY <1>3, JournalInOrder, ShortInOrder, JournaledInOrder DEF ReplayJournal, At
<1>4. CASE At(c, "explain", "open") /\ OpenLedger(c, "claims")
  BY <1>4, OpenInOrder DEF At
<1>5. CASE /\ At(c, "explain", "claims")
           /\ Only(IF disk["claims"] = Torn THEN Go(c, "failed")
                   ELSE cmd' = [cmd EXCEPT ![c] = [Ended(c, "done") EXCEPT !.missing = Missing(c)]])
  <2>1. /\ Typed /\ c \in Cmd /\ cmd[c] \in Held /\ ~handle[c].owing
    BY <1>5, Between DEF At
  <2>2. UNCHANGED <<ledgerVars, revision, disk, history>>
    BY <1>5 DEF Only
  <2>3. Moves(c) /\ cmd'[c].at \in {"done", "failed"}
    <3>1. CASE disk["claims"] = Torn
      <4>1. Go(c, "failed")
        BY <1>5, <3>1 DEF Only
      <4> QED BY <2>2, <4>1, WentTo DEF Place, ledgerVars
    <3>2. CASE disk["claims"] # Torn
      <4> DEFINE new == [Ended(c, "done") EXCEPT !.missing = Missing(c)]
      <4>1. cmd' = [cmd EXCEPT ![c] = new]
        BY <1>5, <3>2 DEF Only
      <4>2. new.kind = cmd[c].kind /\ new.at = "done"
        BY DEF Ended, Waiting
      <4> HIDE DEF new
      <4>3. cmd'[c] = new /\ \A d \in Cmd \ {c} : cmd'[d] = cmd[d]
        BY <2>1, <4>1 DEF Typed
      <4>4. Typed'
        BY ExplainKept, <1>5 DEF Inv, Explain
      <4> QED BY <2>1, <2>2, <4>2, <4>3, <4>4 DEF Moves, Typed, ledgerVars
    <3> QED BY <3>1, <3>2
  <2> QED BY <2>1, <2>2, <2>3, EndInOrder DEF ledgerVars, history
<1> QED BY <1>1, <1>2, <1>3, <1>4, <1>5, ReplayReadInOrder, ReplayRunInOrder, ReplayLockInOrder
        DEF Explain

\* A command starts when its elders have; the peace ends if one still runs.
LEMMA StartInOrder ==
  ASSUME Inv, InOrder, NEW c \in Cmd, Start(c)
  PROVE  InOrder'
<1>1. /\ Typed /\ cmd[c].at = "waiting" /\ Tidy(c)
      /\ \A d \in Cmd : d < c => d \in Started
  BY DEF Inv, Start, InOrder
<1>2. /\ alone' = (alone /\ Running = {})
      /\ UNCHANGED <<ledgerVars, revision, disk, replayed, locked, saved, cut>>
  BY DEF Start
<1>3. PICK kind \in Kind : cmd' = [cmd EXCEPT ![c] = [Waiting EXCEPT !.kind = kind, !.at = FirstStep(kind)]]
  BY DEF Start
<1>4. /\ kind = "prove" => FirstStep(kind) = "acquire"
      /\ kind = "inspect" => FirstStep(kind) = "open"
      /\ kind = "replay" => FirstStep(kind) = "proof"
      /\ kind = "explain" => FirstStep(kind) = "open"
      /\ kind \in {"prove", "inspect", "replay", "explain"}
  BY BundleAssumption DEF FirstStep
<1> DEFINE new == [Waiting EXCEPT !.kind = kind, !.at = FirstStep(kind)]
<1>5. new.kind = kind /\ new.at = FirstStep(kind) /\ new.world = None
  BY DEF Waiting
<1> HIDE DEF new
<1>6. cmd'[c] = new /\ \A d \in Cmd \ {c} : cmd'[d] = cmd[d]
  BY <1>1, <1>3 DEF Typed, new
<1>7. Started' = Started \cup {c} /\ c \notin Started
  <2>1. cmd'[c].at # "waiting"
    BY <1>4, <1>5, <1>6
  <2> QED BY <1>1, <1>6, <2>1 DEF Started
<1>8. Running' = Running \cup {c}
  <2>1. cmd'[c].at \notin {"waiting", "done", "failed"}
    BY <1>4, <1>5, <1>6
  <2> QED BY <1>1, <1>6, <2>1 DEF Running, Over
<1>9. \A d \in Started : d < c
  <2>1. \A d \in Started : d \in Cmd /\ (c < d => c \in Started)
    BY DEF InOrder, Queued, Started
  <2>2. \A d \in Started : ~(c < d) /\ d # c /\ d \in Nat /\ c \in Nat
    BY <1>7, <2>1, CommandAssumption
  <2>3. \A m, n \in Nat : ~(m < n) /\ n # m => n < m
    OBVIOUS
  <2> QED BY <2>2, <2>3
<1>10. Newest(c)'
  <2>1. \A d \in Started' : d <= c
    <3>1. c \in Nat /\ \A d \in Started : d \in Nat
      BY CommandAssumption DEF Started
    <3>2. \A m, n \in Nat : m < n => m <= n
      OBVIOUS
    <3>3. \A n \in Nat : n <= n
      OBVIOUS
    <3> QED BY <1>7, <1>9, <3>1, <3>2, <3>3
  <2> QED BY <1>7, <2>1 DEF Newest
<1>11. Queued'
  <2>1. ASSUME NEW d \in Started', NEW e \in Cmd, e < d  PROVE e \in Started'
    BY <1>1, <1>7, <2>1 DEF InOrder, Queued
  <2>2. alone' => \A d \in Running' : Newest(d)'
    BY <1>2, <1>8, <1>10
  <2>3. locked' \subseteq Started'
    BY <1>2, <1>7 DEF InOrder, Queued
  <2> QED BY <2>1, <2>2, <2>3 DEF Queued
<1>12. \A d \in Cmd : Tidy(d)'
  <2>1. ASSUME NEW d \in Cmd \ {c}  PROVE Tidy(d)'
    BY <1>2, <1>6 DEF InOrder, Tidy, ledgerVars
  <2>2. Tidy(c)'
    <3>1. handle[c].owing = FALSE
      BY <1>1 DEF Tidy, Closed
    <3> QED BY <1>2, <1>4, <1>5, <1>6, <3>1 DEF Tidy, ledgerVars
  <2> QED BY <2>1, <2>2
<1>13. alone' => AtEnd(c)' /\ Did(c)'
  <2> SUFFICES ASSUME alone' PROVE AtEnd(c)' /\ Did(c)'
    OBVIOUS
  <2>1. handle'[c].open = FALSE /\ handle'[c].owing = FALSE
    BY <1>1, <1>2 DEF Tidy, Closed, ledgerVars
  <2>2. AtEnd(c)'
    BY <1>4, <1>5, <1>6, <2>1 DEF AtEnd, Idle
  <2>3. c \notin locked'
    <3>1. locked \subseteq Started
      BY DEF InOrder, Queued
    <3> QED BY <1>2, <1>7, <3>1
  <2>4. kind = "prove" => ProveWrote(c)'
    BY <1>4, <1>5, <1>6, <2>3 DEF ProveWrote
  <2>5. kind = "inspect" => InspectWrote(c)'
    BY <1>4, <1>5, <1>6 DEF InspectWrote
  <2>6. kind = "replay" => ReplayReads(c)'
    BY <1>4, <1>5, <1>6 DEF ReplayReads
  <2> QED BY <1>4, <1>5, <1>6, <2>2, <2>4, <2>5, <2>6 DEF Did
<1>14. alone' => Sealed'
  <2> SUFFICES ASSUME alone', Complete("manifest")
               PROVE  /\ disk["manifest"].by \in Started'
                      /\ Newest(disk["manifest"].by)' => disk["manifest"].by \notin Running'
    BY <1>2 DEF Sealed, Complete
  <2>1. disk["manifest"].by \in Started
    BY <1>2 DEF InOrder, Sealed
  <2>2. ~Newest(disk["manifest"].by)'
    <3>1. Newest(disk["manifest"].by)' => c <= disk["manifest"].by
      BY <1>2, <1>7 DEF Newest
    <3>2. disk["manifest"].by < c /\ disk["manifest"].by \in Nat /\ c \in Nat
      BY <1>9, <2>1, CommandAssumption DEF Started
    <3>3. \A m, n \in Nat : m < n => ~(n <= m)
      OBVIOUS
    <3> QED BY <3>1, <3>2, <3>3
  <2> QED BY <1>7, <2>1, <2>2
<1>15. ManifestSeals'
  <2> SUFFICES ASSUME alone', Complete("manifest"), Newest(disk["manifest"].by)' PROVE FALSE
    BY <1>2 DEF ManifestSeals, Complete
  <2>1. disk["manifest"].by \in Started
    BY <1>2 DEF InOrder, Sealed
  <2>2. c <= disk["manifest"].by
    BY <1>2, <1>7 DEF Newest
  <2>3. disk["manifest"].by < c /\ disk["manifest"].by \in Nat /\ c \in Nat
    BY <1>9, <2>1, CommandAssumption DEF Started
  <2>4. \A m, n \in Nat : m < n => ~(n <= m)
    OBVIOUS
  <2> QED BY <2>2, <2>3, <2>4
<1>16. alone' => LockSound'
  BY <1>2, <1>7 DEF InOrder, LockSound, Follows, Complete
<1>17. LockEarned'
  BY <1>2 DEF InOrder, LockEarned, Complete
<1>18. alone' /\ ~cut' => Sound'
  <2> SUFFICES ASSUME alone', ~cut' PROVE Sound'
    OBVIOUS
  <2>1. Sound /\ Running = {}
    BY <1>2 DEF InOrder
  <2> QED BY <1>2, <2>1 DEF Sound, Readable, Chained, ledgerVars
<1> QED BY <1>2, <1>8, <1>11, <1>12, <1>13, <1>14, <1>15, <1>16, <1>17, <1>18 DEF InOrder

\* A commit, or nothing at all.
LEMMA IdleInOrder ==
  ASSUME InOrder, UNCHANGED <<ledgerVars, cmd, disk, history>>
  PROVE  InOrder'
<1>1. Started' = Started /\ Running' = Running /\ \A d : Newest(d)' <=> Newest(d)
  BY DEF Started, Running, Over, Newest
<1>2. /\ file' = file /\ handle' = handle /\ UNCHANGED <<replayed, locked, saved, alone, cut>>
      /\ LastId' = LastId /\ Written' = Written
  BY DEF ledgerVars, history, LastId, Written
<1>3. \A c \in Cmd : Tidy(c)' /\ (AtEnd(c) => AtEnd(c)')
  BY <1>1, <1>2 DEF InOrder, Tidy, AtEnd, Idle, NextId
<1>4. \A c \in Cmd : Did(c) => Did(c)'
  <2> SUFFICES ASSUME NEW c \in Cmd PROVE Did(c) => Did(c)'
    OBVIOUS
  <2>1. ProveWrote(c) => ProveWrote(c)'
    BY <1>2 DEF ProveWrote, Replayed, ProofIs, Complete
  <2>2. InspectWrote(c) => InspectWrote(c)'
    BY DEF InspectWrote, Complete
  <2>3. ReplayReads(c) => ReplayReads(c)'
    BY <1>1, <1>2 DEF ReplayReads, Replayed, ProofIs, Follows, Complete
  <2> QED BY <2>1, <2>2, <2>3 DEF Did
<1>5. Queued'
  BY <1>1, <1>2 DEF InOrder, Queued
<1>6. alone => Sealed' /\ LockSound'
  BY <1>1, <1>2 DEF InOrder, Sealed, LockSound, Follows, Complete
<1>7. alone /\ ~cut => Sound'
  BY <1>1, <1>2 DEF InOrder, Sound, Readable, Chained
<1>8. ManifestSeals' /\ LockEarned'
  BY <1>1, <1>2 DEF InOrder, ManifestSeals, LockEarned, Complete
<1>9. \A c \in Running : c \in Cmd
  BY DEF Running
<1> QED BY <1>1, <1>2, <1>3, <1>4, <1>5, <1>6, <1>7, <1>8, <1>9 DEF InOrder

\* A command that is stopped: an append it leaves half done is a cut.
LEMMA StopInOrder ==
  ASSUME Inv, InOrder, NEW c \in Cmd, Stop(c)
  PROVE  InOrder'
<1>1. /\ c \in Running /\ Go(c, "failed") /\ cut' = (cut \/ handle[c].owing)
      /\ UNCHANGED <<ledgerVars, revision, disk, replayed, locked, saved, alone>>
  BY DEF Stop
<1>2. Moves(c) /\ cmd'[c].at = "failed" /\ handle' = handle /\ file' = file
  BY <1>1, WentTo DEF Place, ledgerVars
<1> QED BY <1>1, <1>2, EndInOrder

\* Nothing has run, and the bundle is empty.
LEMMA InitInOrder == Init => InOrder
<1> SUFFICES ASSUME Init PROVE InOrder
  OBVIOUS
<1>1. /\ file = <<>> /\ handle = [c \in Cmd |-> Closed] /\ cmd = [c \in Cmd |-> Waiting]
      /\ locked = {} /\ ~cut
      /\ \A f \in {"proof", "claims", "lock", "manifest"} : ~Complete(f)
  BY DEF Init, LedgerInit, Complete
<1>2. Started = {} /\ Running = {}
  BY <1>1 DEF Started, Running, Waiting
<1>3. Queued
  BY <1>1, <1>2 DEF Queued
<1>4. \A c \in Cmd : Tidy(c)
  BY <1>1 DEF Tidy, Closed, Waiting
<1>5. Sealed /\ LockSound /\ ManifestSeals /\ LockEarned
  BY <1>1 DEF Sealed, LockSound, ManifestSeals, LockEarned
<1>6. Sound
  BY <1>1 DEF Sound, Readable, Chained
<1> QED BY <1>2, <1>3, <1>4, <1>5, <1>6 DEF InOrder

\* The order is kept by every step.
LEMMA NextInOrder == Inv /\ InOrder /\ [Next]_vars => InOrder'
<1> SUFFICES ASSUME Inv, InOrder, [Next]_vars PROVE InOrder'
  OBVIOUS
<1>1. CASE Commit \/ UNCHANGED vars
  BY <1>1, IdleInOrder DEF Commit, vars
<1>2. CASE \E c \in Cmd : Start(c) \/ Stop(c)
  BY <1>2, StartInOrder, StopInOrder
<1>3. ASSUME NEW c \in Cmd,
             \/ ProveAcquire(c) \/ ProveOpen(c) \/ ProveJournal(c) \/ ProveWorld(c) \/ ProveProof(c)
             \/ ProveClaims(c) \/ ProveLock(c) \/ WriteManifest(c)
             \/ InspectOpen(c) \/ InspectJournal(c) \/ InspectClaims(c)
             \/ ReplayRead(c) \/ ReplayAcquire(c) \/ ReplayOpen(c) \/ ReplayRun(c) \/ ReplayJournal(c)
             \/ ReplayLock(c) \/ ReplayUpdate(c) \/ Explain(c)
      PROVE  InOrder'
  <2>1. c \in Running
    BY <1>3 DEF ProveAcquire, ProveOpen, ProveJournal, ProveWorld, ProveProof, ProveClaims, ProveLock,
                WriteManifest, InspectOpen, InspectJournal, InspectClaims, ReplayRead, ReplayAcquire,
                ReplayOpen, ReplayRun, ReplayJournal, ReplayLock, ReplayUpdate, Explain, At, Running, Over
  <2> QED BY <1>3, <2>1, ProveInOrder, InspectInOrder, ReplayInOrder
<1> QED BY <1>1, <1>2, <1>3 DEF Next

\* The order is an invariant of every behaviour.
LEMMA Ordered == Spec => [](Inv /\ InOrder)
<1> QED BY InitInv, NextInv, InitInOrder, NextInOrder, PTL DEF Spec

-----------------------------------------------------------------------------
(* The theorems.                                                            *)

\* Whatever commands overlap, are killed or fail, a claim in the bundle cites
\* evidence that is in its ledger, a proved one host-enforced evidence; and
\* what explain reports missing has been written since it looked.  Commands
\* run one after another keep each other's claims, and nothing is missing.
THEOREM ClaimsAreBacked == Spec => []ClaimsHold
<1>1. Inv => ClaimsHold
  <2> SUFFICES ASSUME Inv PROVE ClaimsHold
    OBVIOUS
  <2>1. Typed /\ Shelved /\ \A c \in Cmd : Local(c)
    BY DEF Inv
  <2>2. TypeOK
    <3>1. \A i \in DOMAIN file : file[i] \in Line
      BY <2>1 DEF Typed
    <3>2. \A c \in Cmd : handle[c] \in Handle /\ cmd[c] \in Held
      BY <2>1 DEF Typed
    <3> QED BY <2>1, <3>1, <3>2 DEF TypeOK, Typed, Line, Handle, Held
  <2>3. ClaimsResolve
    BY <2>1 DEF Shelved, Backed, ClaimsResolve
  <2>4. ClaimsKept
    BY <2>1 DEF Shelved, ClaimsKept
  <2>5. ExplainResolves
    BY <2>1 DEF Local, Evidenced, UpToDate, ExplainResolves
  <2> QED BY <2>2, <2>3, <2>4, <2>5 DEF ClaimsHold
<1> QED BY <1>1, InitInv, NextInv, PTL DEF Spec

\* So long as commands run one after another and none is stopped inside an
\* append, the chain of the ledger verifies for every command, and whoever
\* holds the ledger knows its end, whatever else fails or is killed.
THEOREM ChainIsKept == Spec => []ChainHolds
<1>1. InOrder => ChainHolds
  BY DEF InOrder, Sound, AtEnd, ChainHolds
<1> QED BY <1>1, Ordered, PTL

\* Until another command starts, a manifest that can be read vouches for the
\* proof, the claims, the lock and the head of the ledger that it lists: it is
\* written last, and a command that was stopped on the way leaves none.
THEOREM ManifestIsLast == Spec => []ManifestSeals
<1>1. InOrder => ManifestSeals
  BY DEF InOrder
<1> QED BY <1>1, Ordered, PTL

\* A lock reads verified only if a clean replay passed of the analysis that
\* wrote it, or of a later one that wrote no lock of its own.
THEOREM LockIsEarned == Spec => []LockEarned
<1>1. InOrder => LockEarned
  BY DEF InOrder
<1> QED BY <1>1, Ordered, PTL
=============================================================================
