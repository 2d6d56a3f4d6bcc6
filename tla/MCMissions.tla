----------------------------- MODULE MCMissions -----------------------------
(* Small instances of Missions: the task graphs.                           *)
EXTENDS Missions

CONSTANTS code, review, release, report

MCInOrder(S) == SelectSeq(<<code, review, release, report>>, LAMBDA t : t \in S)

(* report waits for review, or for code and review, as in the built-in     *)
(* strategies; two gates, one after the other or beside each other.        *)
ChainDeps == [t \in Tasks |-> IF t = report THEN {review} ELSE {}]
FanInDeps == [t \in Tasks |-> IF t = report THEN {code, review} ELSE {}]
BesideDeps == [t \in Tasks |-> {}]
GatesDeps == [t \in Tasks |-> IF t = release THEN {review} ELSE {}]
=============================================================================
