----------------------------- MODULE Supervisor -----------------------------
(***************************************************************************)
(* ProcessBackend::run (crates/ovid-sandbox: process.rs): one supervised   *)
(* run of a workload's process tree under a wall-clock deadline.           *)
(*                                                                         *)
(* The tree is external.  Its first process, Leader, is spawned in a       *)
(* session of its own; descendants inherit its process group and its       *)
(* output pipes, may leave the group and may redirect their output.  When  *)
(* the run is launched (under strace, or by the wrapper script of a        *)
(* network namespace) Leader only carries Root, the workload's own first   *)
(* process, and passes its status on.  The supervisor polls Leader, kills  *)
(* the group past the deadline, and then joins the readers of the pipes,   *)
(* which end when no live process holds one.                               *)
(*                                                                         *)
(* A definition placed before the one it resembles is a seeded mistake: no *)
(* specification uses it, the properties are shown to reject it.           *)
(***************************************************************************)
CONSTANTS Proc, Leader, Root

ASSUME TreeAssumption == Leader \in Proc /\ Root \in Proc /\ Leader # Root

VARIABLES
  observing,  \* the run is traced: Leader is strace
  launched,   \* Leader is strace or a wrapper, the workload starts at Root
  life,       \* unborn, alive or dead, per process
  group,      \* the process group: that of the child, or one of its own
  pipe,       \* the process holds an output pipe of the run
  status,     \* wait status, per process (killed: by the supervisor)
  overdue,    \* the wall time is over
  progress,   \* where run() stands
  timedOut    \* its timed_out

tree == <<life, group, pipe, status>>
supervisor == <<overdue, progress, timedOut>>
supervisorVars == <<observing, launched, tree, supervisor>>

ExitCode == {"zero", "nonzero", "signal"}

Alive(p)   == life[p] = "alive"
Workload   == IF launched THEN Proc \ {Leader} ELSE Proc
Holders    == {p \in Proc : Alive(p) /\ pipe[p]}
GroupAlive == {p \in Proc : Alive(p) /\ group[p] = "child"}

\* The child is spawned; a launcher has started the workload.
SupervisorInit ==
  /\ observing \in BOOLEAN
  /\ launched \in BOOLEAN
  /\ observing => launched
  /\ life = [p \in Proc |-> IF p = Leader \/ (launched /\ p = Root) THEN "alive" ELSE "unborn"]
  /\ group = [p \in Proc |-> "child"]
  /\ pipe = [p \in Proc |-> Alive(p)]
  /\ status = [p \in Proc |-> "none"]
  /\ overdue = FALSE
  /\ progress = "polling"
  /\ timedOut = FALSE

-----------------------------------------------------------------------------
(* The process tree.                                                       *)

Fork(p, q) ==
  /\ Alive(p) /\ p \in Workload /\ life[q] = "unborn"
  /\ life' = [life EXCEPT ![q] = "alive"]
  /\ group' = [group EXCEPT ![q] = group[p]]
  /\ pipe' = [pipe EXCEPT ![q] = pipe[p]]
  /\ UNCHANGED <<observing, launched, status, supervisor>>

\* setsid or setpgid: the process is out of the supervisor's reach.
Leave(p) ==
  /\ Alive(p) /\ p # Leader /\ group[p] = "child"
  /\ group' = [group EXCEPT ![p] = "own"]
  /\ UNCHANGED <<observing, launched, life, pipe, status, supervisor>>

Redirect(p) ==
  /\ Alive(p) /\ p \in Workload /\ pipe[p]
  /\ pipe' = [pipe EXCEPT ![p] = FALSE]
  /\ UNCHANGED <<observing, launched, life, group, status, supervisor>>

Terminate(p, code) ==
  /\ Alive(p) /\ p \in Workload
  /\ life' = [life EXCEPT ![p] = "dead"]
  /\ status' = [status EXCEPT ![p] = code]
  /\ UNCHANGED <<observing, launched, group, pipe, supervisor>>

\* The launcher ends with Root's status (a shell turns a signal into a code);
\* strace only when the whole tree has ended.
PassedOn == IF status[Root] = "signal" THEN {"signal", "nonzero"} ELSE {status[Root]}

LauncherExitEarly ==
  /\ launched /\ ~observing /\ Alive(Leader)
  /\ life' = [life EXCEPT ![Leader] = "dead"]
  /\ \E code \in PassedOn : status' = [status EXCEPT ![Leader] = code]
  /\ UNCHANGED <<observing, launched, group, pipe, supervisor>>

LauncherExit ==
  /\ launched /\ Alive(Leader) /\ ~Alive(Root)
  /\ observing => \A p \in Proc \ {Leader} : ~Alive(p)
  /\ life' = [life EXCEPT ![Leader] = "dead"]
  /\ \E code \in PassedOn : status' = [status EXCEPT ![Leader] = code]
  /\ UNCHANGED <<observing, launched, group, pipe, supervisor>>

-----------------------------------------------------------------------------
(* The supervisor.                                                         *)

Expire ==
  /\ ~overdue /\ progress # "returned"
  /\ overdue' = TRUE
  /\ UNCHANGED <<observing, launched, tree, progress, timedOut>>

\* try_wait returned a status.
Reap ==
  /\ progress = "polling" /\ ~Alive(Leader)
  /\ progress' = "joining"
  /\ UNCHANGED <<observing, launched, tree, overdue, timedOut>>

\* try_wait returned none; the deadline is looked at next.
StillRunning ==
  /\ progress = "polling" /\ Alive(Leader)
  /\ progress' = "checking"
  /\ UNCHANGED <<observing, launched, tree, overdue, timedOut>>

Sleep ==
  /\ progress = "checking" /\ ~overdue
  /\ progress' = "polling"
  /\ UNCHANGED <<observing, launched, tree, overdue, timedOut>>

\* Whom kill(-pid, SIGKILL) reaches.
KilledLeader == {Leader} \cap GroupAlive
Killed == GroupAlive

\* Past the deadline: kill the group and wait for the child, whatever it did
\* since the poll.
Kill ==
  /\ progress = "checking" /\ overdue
  /\ timedOut' = TRUE
  /\ life' = [p \in Proc |-> IF p \in Killed THEN "dead" ELSE life[p]]
  /\ status' = [p \in Proc |-> IF p \in Killed THEN "killed" ELSE status[p]]
  /\ progress' = "joining"
  /\ UNCHANGED <<observing, launched, group, pipe, overdue>>

\* The readers see the end of the pipes.
PipesClosedForLeader == ~Alive(Leader)
PipesClosed == Holders = {}

Collect ==
  /\ progress = "joining" /\ PipesClosed
  /\ progress' = "returned"
  /\ UNCHANGED <<observing, launched, tree, overdue, timedOut>>

Tree ==
  \/ \E p, q \in Proc : Fork(p, q)
  \/ \E p \in Proc : Leave(p) \/ Redirect(p) \/ \E code \in ExitCode : Terminate(p, code)
  \/ LauncherExit

Supervise == Reap \/ StillRunning \/ Sleep \/ Kill \/ Collect

SupervisorNext == Tree \/ Expire \/ Supervise

\* The supervisor's thread runs and time passes; the workload owes nothing.
SupervisorSpec ==
  SupervisorInit /\ [][SupervisorNext]_supervisorVars /\ WF_supervisorVars(Supervise) /\ WF_supervisorVars(Expire)

\* RunResult::success.
PassedByStatus == status[Leader] = "zero"
Passed == status[Leader] = "zero" /\ ~timedOut

-----------------------------------------------------------------------------
(* Properties.                                                             *)

SupervisorTypeOK ==
  /\ observing \in BOOLEAN /\ launched \in BOOLEAN
  /\ life \in [Proc -> {"unborn", "alive", "dead"}]
  /\ group \in [Proc -> {"child", "own"}]
  /\ pipe \in [Proc -> BOOLEAN]
  /\ status \in [Proc -> ExitCode \cup {"none", "killed"}]
  /\ \A p \in Proc : status[p] = "none" <=> life[p] # "dead"
  /\ overdue \in BOOLEAN /\ timedOut \in BOOLEAN
  /\ progress \in {"polling", "checking", "joining", "returned"}

\* When run() returns nobody can write to its output any more, the group is
\* gone if it was killed, and a traced run that ended by itself has left no
\* process at all.
QuietAfterRun ==
  progress = "returned" =>
    /\ Holders = {}
    /\ timedOut => GroupAlive = {}
    /\ observing /\ ~timedOut => \A p \in Proc : ~Alive(p)

\* A run that passed ran to its own end: the workload ended with zero and the
\* supervisor killed none of its processes, even if the workload ended between
\* the poll and the kill.
PassedMeansFinished ==
  progress = "returned" /\ Passed =>
    /\ status[IF launched THEN Root ELSE Leader] = "zero"
    /\ \A p \in Proc : status[p] # "killed"

\* A traced run whose processes stay in their group returns, whatever they do.
ReturnsWhenContained ==
  observing /\ [](\A p \in Proc : group[p] = "child") => <>(progress = "returned")

\* "process-group supervision with hard deadlines": past the deadline the
\* run returns.
DeadlineHolds == overdue ~> progress = "returned"
=============================================================================
