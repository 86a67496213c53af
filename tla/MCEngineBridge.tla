---------------------------- MODULE MCEngineBridge ----------------------------
(* Instances of EngineBridge for TLC.                                      *)
EXTENDS EngineBridge

CONSTANTS a, b
=============================================================================
