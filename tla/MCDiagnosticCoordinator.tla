----------------------- MODULE MCDiagnosticCoordinator -----------------------
(* Instances of DiagnosticCoordinator for TLC.                             *)
EXTENDS DiagnosticCoordinator

CONSTANTS a, b, c, p, q

(* a depends on b: editing b changes what is wrong in a.                   *)
ReadsB == [u \in Uris |-> IF u = a THEN {a, b} ELSE {u}]
ReadsSelf == [u \in Uris |-> {u}]
=============================================================================
