----------------------------- MODULE MCService -------------------------------
(***************************************************************************)
(* Service for TLC: one manual check, one subscription or diagnostic       *)
(* command and one diagnostic delivery beside the two loops.               *)
(***************************************************************************)
EXTENDS Service

CONSTANTS c1, e1, d1

OneCheck   == {c1}
OneEdit    == {e1}
OneDeliver == {d1}
=============================================================================
