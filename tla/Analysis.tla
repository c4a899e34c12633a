------------------------------ MODULE Analysis ------------------------------
(***************************************************************************)
(* What an analysis promises, whatever the experiments in between: the     *)
(* baseline is judged once; a dependency is labelled at most once, never   *)
(* before that judgement, and as required or optional only after a stable  *)
(* passing one; the world is frozen from exactly the labels given so far,  *)
(* none is given afterwards, and the frozen world is promoted or failed at *)
(* most once.  Prove implements it.                                        *)
(***************************************************************************)
CONSTANT Dep

VARIABLES
  verdict,   \* "none" until the baseline is judged
  label,     \* the label of each dependency, "none" until it has one
  status,    \* where the world stands
  members    \* the labels the world was frozen from

vars == <<verdict, label, status, members>>

Causal == {"required", "optional"}

TypeOK ==
  /\ verdict \in {"none", "stable-passing", "stable-failing", "unstable"}
  /\ label \in [Dep -> Causal \cup {"none", "unresolved"}]
  /\ status \in {"none", "not-synthesized", "proposed", "verified", "replay-failed"}
  /\ members \in [Dep -> Causal \cup {"none", "unresolved"}]

Init ==
  /\ verdict = "none"
  /\ label = [d \in Dep |-> "none"]
  /\ status = "none"
  /\ members = [d \in Dep |-> "none"]

Judge ==
  /\ verdict = "none"
  /\ verdict' \in {"stable-passing", "stable-failing", "unstable"}
  /\ UNCHANGED <<label, status, members>>

GiveLabel(d, necessity) ==
  /\ verdict # "none"
  /\ status = "none"
  /\ label[d] = "none"
  /\ necessity \in Causal => verdict = "stable-passing"
  /\ label' = [label EXCEPT ![d] = necessity]
  /\ UNCHANGED <<verdict, status, members>>

Freeze ==
  /\ status = "none"
  /\ verdict = "stable-passing"
  /\ status' = "proposed"
  /\ members' = label
  /\ UNCHANGED <<verdict, label>>

GiveUp ==
  /\ status = "none"
  /\ verdict \in {"stable-failing", "unstable"}
  /\ status' = "not-synthesized"
  /\ UNCHANGED <<verdict, label, members>>

Replay ==
  /\ status = "proposed"
  /\ status' \in {"verified", "replay-failed"}
  /\ UNCHANGED <<verdict, label, members>>

Next ==
  \/ Judge \/ Freeze \/ GiveUp \/ Replay
  \/ \E d \in Dep, necessity \in Causal \cup {"unresolved"} : GiveLabel(d, necessity)

Spec == Init /\ [][Next]_vars
=============================================================================
