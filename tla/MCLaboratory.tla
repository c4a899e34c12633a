----------------------------- MODULE MCLaboratory -----------------------------
(***************************************************************************)
(* A trial on the two sides that share no state in Ovid: its supervised       *)
(* process tree and its gateway.  A behaviour is of one of them; the other    *)
(* stays in one of its initial states.  Four processes: the launcher, the     *)
(* workload's first process and two more, so that a background child and a     *)
(* daemon that left the group meet in one run, with and without a launcher.   *)
(***************************************************************************)
EXTENDS MCTrial, Supervisor

VARIABLE side

IdleRun   == SupervisorInit /\ ~launched
IdleTrial ==
  /\ TrialInit
  /\ egress = "allow" /\ ~namespaces /\ Treated("none") /\ ~upstream
  /\ dest = [c \in Conn |-> <<api, 80>>]

\* The two connections play the same part, and the three destinations of
\* MCDest are ordered here: one of two mirrored pairs is enough.
Rank == <<<<api, 80>>, <<api, 443>>, <<db, 5432>>>>
Mirrored ==
  LET first == CHOOSE c \in Conn : TRUE
  IN  \E c \in Conn, i, j \in DOMAIN Rank : dest[first] = Rank[i] /\ dest[c] = Rank[j] /\ j < i

LaboratoryInit ==
  \/ side = "run" /\ SupervisorInit /\ IdleTrial
  \/ side = "trial" /\ TrialInit /\ ~Mirrored /\ IdleRun

LaboratoryNext ==
  \/ side = "run" /\ SupervisorNext /\ UNCHANGED <<side, trialVars>>
  \/ side = "trial" /\ TrialNext /\ UNCHANGED <<side, supervisorVars>>

laboratoryVars == <<side, supervisorVars, trialVars>>

\* The fairness of either side: a behaviour is of one of them, so a disjunction
\* owes it exactly that side's.
LaboratoryFairness ==
  /\ WF_laboratoryVars(\/ side = "run" /\ Supervise /\ UNCHANGED <<side, trialVars>>
                       \/ /\ side = "trial" /\ stage # "done" /\ (Accept \/ StopAccepting)
                          /\ UNCHANGED <<side, posture, supervisorVars>>)
  /\ WF_laboratoryVars(\/ side = "run" /\ Expire /\ UNCHANGED <<side, trialVars>>
                       \/ side = "trial" /\ Shutdown /\ UNCHANGED <<side, posture, supervisorVars>>)

LaboratorySpec == LaboratoryInit /\ [][LaboratoryNext]_laboratoryVars /\ LaboratoryFairness
=============================================================================
