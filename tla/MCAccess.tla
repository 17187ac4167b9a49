------------------------------ MODULE MCAccess ------------------------------
(***************************************************************************)
(* Catalog and Access have no state in common, so that one run explores    *)
(* the one or the other, never their product.                              *)
(***************************************************************************)
EXTENDS Catalog, Access, TLC

VARIABLE part

MCInit == Init /\ AccessInit /\ part \in {"catalog", "access"}
MCNext == \/ part = "catalog" /\ Next /\ UNCHANGED <<avars, part>>
          \/ part = "access" /\ AccessNext /\ UNCHANGED <<vars, part>>
MCSpec == MCInit /\ [][MCNext]_<<vars, avars, part>>

\* Of a request that has ended, what the properties are about: the next one in its
\* place takes nothing over.
Remembered(q) ==
    [Idle EXCEPT !.op = IF q.op \in Calls THEN "native.call" ELSE "project.create",
                 !.late = q.late, !.answer = q.answer]
View == <<catalog, [r \in Req |-> IF reqs[r].pc = "idle" THEN Remembered(reqs[r]) ELSE reqs[r]],
          trail, changed, failures, avars, part>>

\* Requests differ in nothing but their names.
Requests == Permutations(Req) \cup Permutations(HumanReq)
=============================================================================
