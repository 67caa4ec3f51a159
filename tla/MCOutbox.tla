------------------------------ MODULE MCOutbox ------------------------------
(* Small instances of Outbox for TLC. *)
EXTENDS Outbox

\* Two image pages of one check, for one or two targets.
TwoPages == [b \in 1..2 |-> "img"]
\* A page and a text batch.
PageAndText == [b \in 1..2 |-> IF b = 1 THEN "img" ELSE "txt"]
=============================================================================
