-------------------------- MODULE MCWorkStealDeque --------------------------
(* Instances of WorkStealDeque for TLC.                                    *)
EXTENDS WorkStealDeque
=============================================================================
