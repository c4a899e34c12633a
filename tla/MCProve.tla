------------------------------ MODULE MCProve ------------------------------
(***************************************************************************)
(* Prove on small instances with a laboratory that answers a treated trial *)
(* in any way.  A nature says what the untreated workload shows the        *)
(* observer; a run may also pass without showing it anything.              *)
(***************************************************************************)
EXTENDS Report, TLC

Reached     == [external |-> TRUE,  allFailed |-> FALSE, enforced |-> FALSE]
Unreachable == [external |-> TRUE,  allFailed |-> TRUE,  enforced |-> FALSE]
Refused     == [external |-> TRUE,  allFailed |-> TRUE,  enforced |-> TRUE]
OwnListener == [external |-> FALSE, allFailed |-> FALSE, enforced |-> FALSE]

\* Three services, a project tool 12 and a ubiquitous utility 11.
Picture(first, second, third, utility, tool) ==
  [network |-> 1 :> first @@ 2 :> second @@ 3 :> third,
   executables |-> 11 :> utility @@ 12 :> tool, observed |-> TRUE]

MCNatures == {Picture(Reached, Reached, Reached, TRUE, TRUE),
              Picture(Reached, Refused, OwnListener, TRUE, FALSE),
              Picture(OwnListener, Unreachable, Unreachable, TRUE, TRUE)}

Passed     == [passed |-> TRUE, signature |-> NoSignature]
Failed(s)  == [passed |-> FALSE, signature |-> s]

Answer(enforcement, result, observations) ==
  [enforcement |-> enforcement, outcome |-> result, observations |-> observations]

\* Under the screen no service was seen, or one got through all the same.
Screen == {[network |-> f, executables |-> EmptyMap, observed |-> TRUE] :
             f \in {EmptyMap, 1 :> Reached @@ 2 :> Refused}}

MCAnswers(n, t) ==
  IF t = NoTreatment
  THEN {Answer("enforced", o, n) : o \in {Passed, Failed("timeout")}}
         \cup {Answer("enforced", Passed, NothingSeen)}
  ELSE {Answer(eo[1], eo[2], obs) :
          eo  \in ({"enforced"} \X {Passed, Failed("timeout"), Failed("refused")})
                    \cup {<<"partially-enforced", Failed("timeout")>>},
          obs \in IF t = DenyAllEgress THEN Screen ELSE {NothingSeen}}

MCPolicy(b, c, m, replay) ==
  [baseline_runs |-> b, confirmation_runs |-> c, max_trials |-> m, attempt_replay |-> replay]

\* No budget, a budget the baseline or the screen uses up, one that isolates
\* some of the targets, one that is enough, and one without replay.
MCPolicies == {MCPolicy(2, 0, 1, TRUE), MCPolicy(2, 1, 3, TRUE), MCPolicy(1, 1, 6, TRUE),
               MCPolicy(1, 0, 5, TRUE), MCPolicy(0, 0, 7, FALSE), MCPolicy(1, 0, 0, TRUE)}

MCCapability(deny, isolate, hide) ==
  [deny_all_egress |-> deny, per_dependency_egress |-> isolate, executable_hiding |-> hide]

\* The gateway posture, a host with user namespaces, and a bare host.
MCCapabilities == {MCCapability(TRUE, TRUE, TRUE), MCCapability(TRUE, FALSE, TRUE),
                   MCCapability(FALSE, FALSE, FALSE)}
=============================================================================
