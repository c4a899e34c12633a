------------------------------- MODULE MCTrial -------------------------------
(***************************************************************************)
(* Two connections and three destinations, two of them ports of one host:  *)
(* a retry to the same place, a second port of a blocked host, and a        *)
(* stranger.                                                               *)
(***************************************************************************)
EXTENDS Trial

CONSTANTS api, db

MCDest == {<<api, 80>>, <<api, 443>>, <<db, 5432>>}
=============================================================================
