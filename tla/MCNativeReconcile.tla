-------------------------- MODULE MCNativeReconcile --------------------------
(***************************************************************************)
(* Small instances of NativeReconcile: one or two probes of one service,   *)
(* target processes that one or two agents report.                          *)
(***************************************************************************)
EXTENDS NativeReconcile, TLC

CONSTANTS p1, p2, svc, a1, a2, i1, i2, b1, b2

OneProbe == {p1}
TwoProbes == {p1, p2}
OneService == {svc}
OneAgent == {a1}
TwoAgents == {a1, a2}
OneInstance == {i1}
TwoInstances == {i1, i2}
OneBuild == {b1}
TwoBuilds == {b1, b2}
MCSvcOf == [p \in Probe |-> svc]
MCInstSvc == [i \in InstanceId |-> svc]
MCTtl == [p \in Probe |-> IF p = p1 THEN 1 ELSE 2]
LongTtl == [p \in Probe |-> 2]
AnyStatus == {"armed", "suspended"}
ArmedError == {"armed", "error"}
Suspended == {"suspended"}
NoStatuses == {}

\* Agents differ in nothing but their names.
Agents == Permutations(Agent)
==============================================================================
