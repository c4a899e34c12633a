--------------------------- MODULE MCIntervention ---------------------------
(* Intervention with two services and two variant runs.                  *)
EXTENDS Intervention

MCSightings == {[external |-> TRUE, allFailed |-> FALSE, enforced |-> FALSE],
                [external |-> TRUE, allFailed |-> TRUE,  enforced |-> FALSE],
                [external |-> TRUE, allFailed |-> TRUE,  enforced |-> TRUE]}
=============================================================================
