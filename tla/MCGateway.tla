----------------------------- MODULE MCGateway ------------------------------
(***************************************************************************)
(* Gateway for TLC: three repositories for two places in the semaphore.    *)
(***************************************************************************)
EXTENDS Gateway

ThreeRepos == 1..3
=============================================================================
