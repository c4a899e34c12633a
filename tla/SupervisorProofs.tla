-------------------------- MODULE SupervisorProofs --------------------------
(***************************************************************************)
(* Theorems about Supervisor for a process tree of any size.               *)
(***************************************************************************)
EXTENDS Supervisor, TLAPS

-----------------------------------------------------------------------------
(* The inductive invariant.                                                *)

\* The leader is never unborn and never leaves the group; before the kill
\* nobody has been killed, after it the group is dead.
Leading ==
  /\ life[Leader] # "unborn" /\ group[Leader] = "child"
  /\ launched => life[Root] # "unborn"
  /\ observing => launched
  /\ progress = "checking" => ~timedOut
  /\ progress = "polling" => ~timedOut
  /\ ~timedOut => \A p \in Proc : status[p] # "killed"
  /\ timedOut => GroupAlive = {}
  /\ progress \in {"joining", "returned"} => ~Alive(Leader)
  /\ progress = "returned" => Holders = {}

\* A launcher that ended by itself passed on the status of a workload that
\* had ended; one that traced it left nobody behind.
Launching ==
  launched /\ life[Leader] = "dead" /\ status[Leader] # "killed" =>
    /\ life[Root] = "dead"
    /\ status[Leader] \in PassedOn
    /\ observing => \A p \in Proc \ {Leader} : ~Alive(p)

Inv == SupervisorTypeOK /\ Leading /\ Launching

\* The initial states satisfy the invariant.
LEMMA InitInv == SupervisorInit => Inv
BY TreeAssumption DEF SupervisorInit, Inv, SupervisorTypeOK, Leading, Launching, GroupAlive, Holders, Alive, ExitCode

\* Every step keeps the types.
LEMMA TypeStep == Inv /\ [SupervisorNext]_supervisorVars => SupervisorTypeOK'
<1> SUFFICES ASSUME SupervisorTypeOK, Leading, [SupervisorNext]_supervisorVars  PROVE SupervisorTypeOK'
  BY DEF Inv
<1> USE DEF SupervisorTypeOK, ExitCode, tree, supervisor
<1>1. ASSUME NEW p \in Proc, NEW q \in Proc, Fork(p, q)  PROVE SupervisorTypeOK'
  BY <1>1 DEF Fork, Alive
<1>2. ASSUME NEW p \in Proc, Leave(p) \/ Redirect(p)  PROVE SupervisorTypeOK'
  BY <1>2 DEF Leave, Redirect
<1>3. ASSUME NEW p \in Proc, NEW code \in ExitCode, Terminate(p, code)  PROVE SupervisorTypeOK'
  BY <1>3 DEF Terminate
<1>4. CASE LauncherExit
  <2>1. PassedOn \subseteq ExitCode \cup {"killed"}
    BY <1>4, TreeAssumption DEF LauncherExit, PassedOn, Leading, Alive
  <2> QED
    BY <1>4, <2>1, TreeAssumption DEF LauncherExit
<1>5. CASE Kill
  BY <1>5 DEF Kill, Killed, GroupAlive, Alive
<1>6. CASE Expire \/ Reap \/ StillRunning \/ Sleep \/ Collect
  BY <1>6 DEF Expire, Reap, StillRunning, Sleep, Collect
<1>7. CASE UNCHANGED supervisorVars
  BY <1>7 DEF supervisorVars
<1> QED
  BY <1>1, <1>2, <1>3, <1>4, <1>5, <1>6, <1>7 DEF SupervisorNext, Tree, Supervise

\* Every step keeps what the stages of run() imply about the tree.
LEMMA LeadingStep == Inv /\ [SupervisorNext]_supervisorVars => Leading'
<1> SUFFICES ASSUME SupervisorTypeOK, Leading, [SupervisorNext]_supervisorVars  PROVE Leading'
  BY DEF Inv
<1> USE TreeAssumption DEF SupervisorTypeOK, Leading, Alive, tree, supervisor, Holders, GroupAlive
<1>1. ASSUME NEW p \in Proc, NEW q \in Proc, Fork(p, q)  PROVE Leading'
  BY <1>1 DEF Fork
<1>2. ASSUME NEW p \in Proc, Leave(p) \/ Redirect(p)  PROVE Leading'
  BY <1>2 DEF Leave, Redirect
<1>3. ASSUME NEW p \in Proc, NEW code \in ExitCode, Terminate(p, code)  PROVE Leading'
  BY <1>3 DEF Terminate, ExitCode
<1>4. CASE LauncherExit
  BY <1>4 DEF LauncherExit, PassedOn
<1>5. CASE Kill
  BY <1>5 DEF Kill, Killed
<1>6. CASE Expire \/ Reap \/ StillRunning \/ Sleep \/ Collect
  BY <1>6 DEF Expire, Reap, StillRunning, Sleep, Collect, PipesClosed
<1>7. CASE UNCHANGED supervisorVars
  BY <1>7 DEF supervisorVars
<1> QED
  BY <1>1, <1>2, <1>3, <1>4, <1>5, <1>6, <1>7 DEF SupervisorNext, Tree, Supervise

\* Every step keeps what the end of a launcher says about the workload.
LEMMA LaunchingStep == Inv /\ [SupervisorNext]_supervisorVars => Launching'
<1> SUFFICES ASSUME SupervisorTypeOK, Leading, Launching, [SupervisorNext]_supervisorVars  PROVE Launching'
  BY DEF Inv
<1> USE TreeAssumption DEF SupervisorTypeOK, Leading, Launching, Alive, tree, supervisor, PassedOn, Workload
<1>1. ASSUME NEW p \in Proc, NEW q \in Proc, Fork(p, q)  PROVE Launching'
  BY <1>1 DEF Fork
<1>2. ASSUME NEW p \in Proc, Leave(p) \/ Redirect(p)  PROVE Launching'
  BY <1>2 DEF Leave, Redirect
<1>3. ASSUME NEW p \in Proc, NEW code \in ExitCode, Terminate(p, code)  PROVE Launching'
  BY <1>3 DEF Terminate, ExitCode
<1>4. CASE LauncherExit
  BY <1>4 DEF LauncherExit
<1>5. CASE Kill
  BY <1>5 DEF Kill, Killed, GroupAlive
<1>6. CASE Expire \/ Reap \/ StillRunning \/ Sleep \/ Collect
  BY <1>6 DEF Expire, Reap, StillRunning, Sleep, Collect
<1>7. CASE UNCHANGED supervisorVars
  BY <1>7 DEF supervisorVars
<1> QED
  BY <1>1, <1>2, <1>3, <1>4, <1>5, <1>6, <1>7 DEF SupervisorNext, Tree, Supervise

\* The invariant holds in every reachable state.
LEMMA AlwaysInv == SupervisorSpec => []Inv
<1>1. Inv /\ [SupervisorNext]_supervisorVars => Inv'
  BY TypeStep, LeadingStep, LaunchingStep DEF Inv
<1> QED
  BY <1>1, InitInv, PTL DEF SupervisorSpec

-----------------------------------------------------------------------------
(* The theorems.                                                           *)

\* Type correctness: a process has a status exactly when it is dead.
THEOREM TypeCorrect == SupervisorSpec => []SupervisorTypeOK
<1>1. Inv => SupervisorTypeOK
  BY DEF Inv
<1> QED
  BY <1>1, AlwaysInv, PTL

\* Whatever the process tree, a run that returned has closed pipes, has left
\* nobody of a group it killed, and nobody at all if it was traced to its end.
THEOREM ReturnsQuiet == SupervisorSpec => []QuietAfterRun
<1>1. Inv => QuietAfterRun
  BY TreeAssumption DEF Inv, SupervisorTypeOK, Leading, Launching, QuietAfterRun, Alive
<1> QED
  BY <1>1, AlwaysInv, PTL

\* Whatever the process tree and the race between its end and the deadline, a
\* run that passed ended by itself, with zero.
THEOREM PassedByItself == SupervisorSpec => []PassedMeansFinished
<1>1. Inv => PassedMeansFinished
  BY TreeAssumption DEF Inv, SupervisorTypeOK, Leading, Launching, PassedOn, PassedMeansFinished, Passed, Alive
<1> QED
  BY <1>1, AlwaysInv, PTL
=============================================================================
