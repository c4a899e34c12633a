------------------------------- MODULE MCBundle -------------------------------
(* Three commands of any kind on one bundle, two at a time, and one commit.   *)
EXTENDS Bundle

MCKind == {"prove", "inspect", "replay", "explain"}
MCCmd == 1 .. 3
=============================================================================
