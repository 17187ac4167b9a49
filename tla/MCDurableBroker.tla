--------------------------- MODULE MCDurableBroker ---------------------------
(***************************************************************************)
(* Small instances of DurableBroker: two probes of one service with        *)
(* different lifetimes, one service and one or two agents.                 *)
(***************************************************************************)
EXTENDS DurableBroker

CONSTANTS p1, p2, p3, svc, svc2, a1, a2

MCProbe == {p1, p2}
MCService == {svc}
MCSvcOf == [p \in MCProbe |-> svc]
MCTtl == [p \in MCProbe |-> IF p = p1 THEN 1 ELSE 2]
MCAgent == {a1}
MCAgentSvc == [a \in MCAgent |-> svc]

(* Two services, one of them with two probes, and an agent of each. *)
MCProbes == {p1, p2, p3}
MCServices == {svc, svc2}
MCSvcsOf == [p \in MCProbes |-> IF p = p3 THEN svc2 ELSE svc]
MCTtls == [p \in MCProbes |-> IF p = p1 THEN 1 ELSE 2]
MCAgents == {a1, a2}
MCAgentsSvc == [a \in MCAgents |-> IF a = a2 THEN svc2 ELSE svc]
NoService == {}
NoKinds == {}
DataAndArmed == {"data", "armed"}
ArmedAndError == {"armed", "error"}
==============================================================================
