----------------------------- MODULE MCSources -----------------------------
(* Small instances of Sources for TLC. *)
EXTENDS Sources
=============================================================================
