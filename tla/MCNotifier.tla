----------------------------- MODULE MCNotifier ------------------------------
(***************************************************************************)
(* Notifier for TLC: the model values of the batches and commands.         *)
(***************************************************************************)
EXTENDS Notifier

CONSTANTS b1, b2, b3, t1, t2

OneCard   == {b1}
TwoCards  == {b1, b2}
OneText   == {b3}
OneTest   == {t1}
TwoTests  == {t1, t2}
=============================================================================
