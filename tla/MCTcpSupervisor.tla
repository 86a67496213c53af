--------------------------- MODULE MCTcpSupervisor ----------------------------
(* Instances of TcpSupervisor for TLC.                                     *)
EXTENDS TcpSupervisor

CONSTANTS p1, p2, p3, c1, c2
=============================================================================
