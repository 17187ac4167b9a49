----------------------------- MODULE AccessProofs -----------------------------
(***************************************************************************)
(* What holds of the control plane, its audit trail and its credentials    *)
(* (Catalog), and of the way a person's request is let in (Access), for    *)
(* any number of requests, rows and credentials and for every bound on     *)
(* failures and on time.                                                   *)
(***************************************************************************)
EXTENDS Catalog, Access, TLAPS

-----------------------------------------------------------------------------
(* The control plane *)

Request == [pc : {"idle", "attempt", "operate", "lookup", "register", "issue",
                  "outcome", "serve", "reject"},
            op : Op, human : BOOLEAN, p : Project, e : Env, s : Service,
            c : Cred \cup {None}, late : BOOLEAN,
            answer : {"none", "success", "denied", "error"}]

Outcomes == {"success", "denied", "error"}

(* Everything but the answer and the steps that follow from it is decided  *)
(* when a request arrives: which steps are those of an agent's call.       *)
StepsOfKind(q) ==
    /\ q.op \in Calls => ~q.human /\ q.c \in Cred
    /\ q.pc \in {"attempt", "lookup", "register", "issue", "outcome"} => q.op \notin Calls
    /\ q.pc \in {"serve", "reject"} => q.op \in Calls
    /\ q.pc = "outcome" => q.answer # "none"
    /\ q.pc = "reject" => q.answer \in {"denied", "error"}

(* The trail t of a request q under way: the attempt is in it once the     *)
(* operation has begun, the outcome not before the request has ended.      *)
TrailOfRequest(q, t, change) ==
    /\ change => "attempt" \in t
    /\ (q.op \notin Calls /\ q.pc \in {"operate", "lookup", "register", "issue", "outcome"})
          => "attempt" \in t
    /\ q.pc # "idle" => t \cap Outcomes = {}
    /\ q.pc = "idle" =>
          /\ t \cap Outcomes \subseteq {q.answer}
          /\ (q.answer = "success" /\ q.op \notin Calls) => "success" \in t

(* A late call is refused where its key is looked up, and so never gets to *)
(* the handler.                                                            *)
LateCall(q, rows_) ==
    (q.op \in Calls /\ q.late) =>
        /\ rows_[q.c].state = "revoked"
        /\ q.pc \notin {"serve", "reject"}
        /\ q.answer # "success"

(* The inductive invariant of the control plane. *)
CatalogInv ==
    /\ TypeOK
    /\ \A r \in Req : /\ StepsOfKind(reqs[r])
                      /\ TrailOfRequest(reqs[r], trail[r], changed[r])
                      /\ LateCall(reqs[r], creds)

LEMMA NoCredType == NoCred \in CredRow /\ NoCred.state = "none" /\ NoCred.s \in Service
<1>1. (CHOOSE s \in Service : TRUE) \in Service
  BY CatalogAssumption
<1> QED
  BY <1>1, CatalogAssumption DEF NoCred, CredRow

LEMMA IdleType == Idle \in Request
BY NoCredType, CatalogAssumption
   DEF Idle, Request, Op, Creations, Archivals, Issues, Revokes, Calls

(* Before the first request. *)
LEMMA CatalogInit == Init => CatalogInv
<1> SUFFICES ASSUME Init PROVE CatalogInv
  OBVIOUS
<1>1. TypeOK
  <2>1. reqs \in [Req -> Request]
    BY IdleType DEF Init
  <2>2. creds \in [Cred -> CredRow]
    BY NoCredType DEF Init
  <2> QED
    BY <2>1, <2>2, CatalogAssumption DEF Init, TypeOK, Row, Request
<1>2. ASSUME NEW r \in Req
      PROVE  /\ StepsOfKind(reqs[r])
             /\ TrailOfRequest(reqs[r], trail[r], changed[r])
             /\ LateCall(reqs[r], creds)
  <2>1. reqs[r] = Idle /\ trail[r] = {} /\ changed[r] = FALSE
    BY DEF Init
  <2>2. Idle.op \notin Calls /\ Idle.pc = "idle" /\ Idle.answer = "none"
    BY DEF Idle, Calls
  <2> QED
    BY <2>1, <2>2 DEF StepsOfKind, TrailOfRequest, LateCall, Outcomes
<1> QED
  BY <1>1, <1>2 DEF CatalogInv

(* What one step of a request does to it: q becomes its record, t its      *)
(* trail, ch whether it changed something; the store becomes what it is.   *)
StepTo(r, q, t, ch) ==
    /\ reqs' = [reqs EXCEPT ![r] = q]
    /\ trail' = [trail EXCEPT ![r] = t]
    /\ changed' = [changed EXCEPT ![r] = ch]

StoreType ==
    /\ projects \in [Project -> Row]
    /\ envs \in [Project \X Env -> Row]
    /\ services \in [Project \X Service -> Row]
    /\ creds \in [Cred -> CredRow]

(* A credential that was revoked is not touched again. *)
RevokedStays == \A c \in Cred : creds[c].state = "revoked" => creds'[c].state = "revoked"

(* createProject, createEnvironment, createRegisteredService. *)
LEMMA InsertRow ==
    ASSUME StoreType, NEW p \in Project, NEW e \in Env, NEW s \in Service,
           InsertProject(p) \/ InsertEnvironment(p, e) \/ InsertService(p, s)
    PROVE  StoreType' /\ RevokedStays
BY DEF StoreType, InsertProject, InsertEnvironment, InsertService, RevokedStays, Row

(* createServiceCredential, createNativeCredential: a new row. *)
LEMMA InsertCredential ==
    ASSUME StoreType, NEW p \in Project, NEW e \in Env, NEW s \in Service,
           InsertServiceCredential(p, e, s) \/ InsertNativeCredential(p, e, s)
    PROVE  StoreType' /\ RevokedStays
BY SMTT(60) DEF StoreType, InsertServiceCredential, InsertNativeCredential, RevokedStays, CredRow

(* Revoking is idempotent and touches nothing but the state. *)
LEMMA RevokedRows ==
    ASSUME creds \in [Cred -> CredRow], NEW C, creds' = Revoked(C)
    PROVE  creds' \in [Cred -> CredRow] /\ RevokedStays
BY DEF Revoked, RevokedStays, CredRow

LEMMA ArchivedRows ==
    ASSUME NEW D, NEW rows_ \in [D -> Row], NEW X
    PROVE  Archived(rows_, X) \in [D -> Row]
BY DEF Archived, Row

(* archiveProject, archiveEnvironment, archiveRegisteredService and the    *)
(* two revocations.                                                        *)
LEMMA UpdateRow ==
    ASSUME StoreType, NEW p \in Project, NEW e \in Env, NEW s \in Service, NEW c,
           \/ UpdateProject(p) \/ UpdateEnvironment(p, e) \/ UpdateService(p, s)
           \/ UpdateServiceCredential(c) \/ UpdateNativeCredential(c)
    PROVE  StoreType' /\ RevokedStays
<1>1. creds' \in [Cred -> CredRow] /\ RevokedStays
  BY RevokedRows DEF StoreType, UpdateProject, UpdateEnvironment, UpdateService,
     UpdateServiceCredential, UpdateNativeCredential
<1>2. /\ projects' \in [Project -> Row]
      /\ envs' \in [Project \X Env -> Row]
      /\ services' \in [Project \X Service -> Row]
  <2>1. CASE UpdateProject(p)
    BY <2>1, ArchivedRows DEF StoreType, UpdateProject, Row
  <2>2. CASE UpdateEnvironment(p, e)
    BY <2>2 DEF StoreType, UpdateEnvironment, Row
  <2>3. CASE UpdateService(p, s)
    BY <2>3 DEF StoreType, UpdateService, Row
  <2>4. CASE UpdateServiceCredential(c) \/ UpdateNativeCredential(c)
    BY <2>4 DEF StoreType, UpdateServiceCredential, UpdateNativeCredential
  <2> QED
    BY <2>1, <2>2, <2>3, <2>4
<1> QED
  BY <1>1, <1>2 DEF StoreType

(* The requests that do not move: the store may only have revoked more. *)
LEMMA CatalogStep ==
    ASSUME CatalogInv, NEW r \in Req, NEW q \in Request,
           NEW t \in SUBSET {"attempt", "success", "denied", "error"}, NEW ch \in BOOLEAN,
           StepTo(r, q, t, ch), StoreType', RevokedStays, failures' \in 0..MaxFailures,
           StepsOfKind(q), TrailOfRequest(q, t, ch), LateCall(q, creds)
    PROVE  CatalogInv'
<1>1. TypeOK'
  BY DEF CatalogInv, TypeOK, StepTo, StoreType, Request
<1>2. ASSUME NEW x \in Req
      PROVE  /\ StepsOfKind(reqs'[x])
             /\ TrailOfRequest(reqs'[x], trail'[x], changed'[x])
             /\ LateCall(reqs'[x], creds)
  <2>1. CASE x = r
    <3>1. reqs'[x] = q /\ trail'[x] = t /\ changed'[x] = ch
      BY <2>1 DEF CatalogInv, TypeOK, StepTo
    <3> QED
      BY <3>1
  <2>2. CASE x # r
    <3>1. reqs'[x] = reqs[x] /\ trail'[x] = trail[x] /\ changed'[x] = changed[x]
      BY <2>2 DEF CatalogInv, TypeOK, StepTo
    <3> QED
      BY <3>1 DEF CatalogInv
  <2> QED
    BY <2>1, <2>2
<1>3. ASSUME NEW x \in Req
      PROVE  LateCall(reqs'[x], creds')
  BY <1>2 DEF LateCall, StepsOfKind, RevokedStays
<1> QED
  BY <1>1, <1>2, <1>3 DEF CatalogInv


(* A request goes on, or ends, with another record: its pc and its answer  *)
(* change, and nothing else of it.                                         *)
Moved(r, pc, answer) == [reqs[r] EXCEPT !.pc = pc, !.answer = answer]

LEMMA MovedType ==
    ASSUME CatalogInv, NEW r \in Req,
           NEW pc \in {"idle", "attempt", "operate", "lookup", "register", "issue",
                       "outcome", "serve", "reject"},
           NEW answer \in {"none", "success", "denied", "error"}
    PROVE  /\ Moved(r, pc, answer) \in Request
           /\ Moved(r, pc, answer).pc = pc
           /\ Moved(r, pc, answer).answer = answer
           /\ Moved(r, pc, answer).op = reqs[r].op
           /\ Moved(r, pc, answer).human = reqs[r].human
           /\ Moved(r, pc, answer).c = reqs[r].c
           /\ Moved(r, pc, answer).late = reqs[r].late
           /\ reqs[r].pc = pc => Moved(r, pc, answer) = [reqs[r] EXCEPT !.answer = answer]
<1>1. reqs[r] \in Request
  BY DEF CatalogInv, TypeOK, Request
<1> HIDE DEF CatalogInv
<1> QED
  BY <1>1 DEF Moved, Request

LEMMA MovedPc ==
    ASSUME CatalogInv, NEW r \in Req, NEW pc
    PROVE  Moved(r, pc, reqs[r].answer) = [reqs[r] EXCEPT !.pc = pc]
<1>1. reqs[r] \in Request
  BY DEF CatalogInv, TypeOK, Request
<1> HIDE DEF CatalogInv
<1> QED
  BY <1>1 DEF Moved, Request

(* The steps that leave the store, and whether the request changed it,     *)
(* alone.                                                                  *)
LEMMA CatalogMove ==
    ASSUME CatalogInv, NEW r \in Req,
           NEW pc \in {"idle", "attempt", "operate", "lookup", "register", "issue",
                       "outcome", "serve", "reject"},
           NEW answer \in {"none", "success", "denied", "error"},
           NEW t \in SUBSET {"attempt", "success", "denied", "error"},
           reqs' = [reqs EXCEPT ![r] = Moved(r, pc, answer)],
           trail' = [trail EXCEPT ![r] = t],
           UNCHANGED <<catalog, changed>>, failures' \in 0..MaxFailures,
           StepsOfKind(Moved(r, pc, answer)),
           TrailOfRequest(Moved(r, pc, answer), t, changed[r]),
           LateCall(Moved(r, pc, answer), creds)
    PROVE  CatalogInv'
<1> DEFINE q == Moved(r, pc, answer)
<1>1. q \in Request
  BY MovedType
<1> HIDE DEF q
<1>2. StoreType' /\ RevokedStays
  BY DEF CatalogInv, TypeOK, StoreType, RevokedStays, catalog
<1>3. changed' = [changed EXCEPT ![r] = changed[r]] /\ changed[r] \in BOOLEAN
  BY DEF CatalogInv, TypeOK
<1>4. StepTo(r, q, t, changed[r])
  BY <1>3 DEF StepTo, q
<1> QED
  BY <1>1, <1>2, <1>3, <1>4, CatalogStep DEF q

LEMMA FailsType ==
    ASSUME failures \in 0..MaxFailures, Fails
    PROVE  failures' \in 0..MaxFailures
BY CatalogAssumption DEF Fails

(* The clients' requests. *)
LEMMA ArriveKeeps ==
    ASSUME CatalogInv, NEW r \in Req, Arrive(r)
    PROVE  CatalogInv'
<1>1. PICK op \in Op, p \in Project, e \in Env, s \in Service, c \in Cred \cup {None},
           human \in BOOLEAN :
         /\ (op \in Revokes \cup Calls) <=> (c # None)
         /\ c # None => /\ creds[c].state # "none"
                        /\ creds[c].kind = IF op \in {"native.call", "native_credential.revoke"}
                                           THEN "native" ELSE "service"
                        /\ p = creds[c].p /\ e = creds[c].e /\ s = creds[c].s
         /\ op \in {"native_credential.create", "native_credential.revoke"}
               => p = HomeProject /\ e = HomeEnv
         /\ op \in Calls => ~human
         /\ op \in Issues => CredentialLeft
         /\ reqs' = [reqs EXCEPT ![r] =
                [pc |-> IF op \in Calls THEN "operate"
                        ELSE IF RoleFirst(op) /\ ~human THEN "idle" ELSE "attempt",
                 op |-> op, human |-> human, p |-> p, e |-> e, s |-> s, c |-> c,
                 answer |-> IF RoleFirst(op) /\ ~human THEN "denied" ELSE "none",
                 late |-> c # None /\ creds[c].state = "revoked"]]
  BY Zenon DEF Arrive
<1> DEFINE q == [pc |-> IF op \in Calls THEN "operate"
                        ELSE IF RoleFirst(op) /\ ~human THEN "idle" ELSE "attempt",
                 op |-> op, human |-> human, p |-> p, e |-> e, s |-> s, c |-> c,
                 answer |-> IF RoleFirst(op) /\ ~human THEN "denied" ELSE "none",
                 late |-> c # None /\ creds[c].state = "revoked"]
<1>2. q \in Request
  BY DEF Request
<1>3. op \in Calls => c \in Cred /\ ~human /\ ~RoleFirst(op)
  BY <1>1 DEF Calls, RoleFirst
<1>4. StepsOfKind(q)
  BY <1>3 DEF StepsOfKind
<1>5. TrailOfRequest(q, {}, FALSE)
  BY <1>3 DEF TrailOfRequest, Outcomes
<1>6. LateCall(q, creds)
  BY <1>3 DEF LateCall
<1>7. StepTo(r, q, {}, FALSE) /\ StoreType' /\ RevokedStays /\ failures' \in 0..MaxFailures
  BY <1>1 DEF Arrive, StepTo, CatalogInv, TypeOK, StoreType, RevokedStays, catalog
<1> HIDE DEF q
<1> QED
  BY <1>2, <1>4, <1>5, <1>6, <1>7, CatalogStep

(* runAuditedMutation, before the operation: it goes on only with the      *)
(* attempt on record.                                                      *)
LEMMA AttemptKeeps ==
    ASSUME CatalogInv, NEW r \in Req, Attempt(r)
    PROVE  CatalogInv'
<1>0. /\ reqs[r] \in Request /\ trail[r] \in SUBSET {"attempt", "success", "denied", "error"}
      /\ trail \in [Req -> SUBSET {"attempt", "success", "denied", "error"}]
      /\ failures \in 0..MaxFailures
      /\ StepsOfKind(reqs[r]) /\ TrailOfRequest(reqs[r], trail[r], changed[r])
      /\ LateCall(reqs[r], creds)
  BY DEF CatalogInv, TypeOK, Request
<1>1. reqs[r].pc = "attempt" /\ UNCHANGED <<catalog, changed>> /\ reqs[r].op \notin Calls
  BY <1>0 DEF Attempt, StepsOfKind
<1>2. CASE /\ Append(r, "attempt")
           /\ reqs' = [reqs EXCEPT ![r].pc = "operate"]
           /\ UNCHANGED failures
  <2> DEFINE q == Moved(r, "operate", reqs[r].answer)
             t == trail[r] \cup {"attempt"}
  <2>0. reqs[r].answer \in {"none", "success", "denied", "error"}
    BY <1>0 DEF Request
  <2>1. /\ q.pc = "operate" /\ q.op = reqs[r].op /\ q.human = reqs[r].human
        /\ q.c = reqs[r].c /\ q.late = reqs[r].late /\ q.answer = reqs[r].answer
    BY <2>0, MovedType
  <2>a. q = [reqs[r] EXCEPT !.pc = "operate"]
    BY MovedPc
  <2> HIDE DEF q
  <2>2. reqs' = [reqs EXCEPT ![r] = q] /\ trail' = [trail EXCEPT ![r] = t]
    BY <1>2, <2>a DEF Append
  <2>3. StepsOfKind(q) /\ TrailOfRequest(q, t, changed[r]) /\ LateCall(q, creds)
    BY <1>0, <1>1, <2>1 DEF StepsOfKind, TrailOfRequest, LateCall, Outcomes
  <2>4. t \in SUBSET {"attempt", "success", "denied", "error"} /\ failures' \in 0..MaxFailures
    BY <1>0, <1>2
  <2> HIDE DEF t
  <2> QED
    BY <1>1, <2>0, <2>2, <2>3, <2>4, CatalogMove DEF q
<1>3. CASE /\ Fails
           /\ reqs' = [reqs EXCEPT ![r].pc = "idle", ![r].answer = "error"]
           /\ UNCHANGED trail
  <2> DEFINE q == Moved(r, "idle", "error")
  <2>1. /\ q.pc = "idle" /\ q.op = reqs[r].op /\ q.human = reqs[r].human
        /\ q.c = reqs[r].c /\ q.late = reqs[r].late /\ q.answer = "error"
    BY MovedType
  <2>2. reqs' = [reqs EXCEPT ![r] = q] /\ trail' = [trail EXCEPT ![r] = trail[r]]
    BY <1>0, <1>3 DEF Moved
  <2> HIDE DEF q
  <2>3. StepsOfKind(q) /\ TrailOfRequest(q, trail[r], changed[r]) /\ LateCall(q, creds)
    BY <1>0, <1>1, <2>1 DEF StepsOfKind, TrailOfRequest, LateCall, Outcomes
  <2> QED
    BY <1>0, <1>1, <1>3, <2>2, <2>3, CatalogMove, FailsType DEF q
<1> QED
  BY <1>2, <1>3 DEF Attempt


(* The steps of an audited operation: the trail already has the attempt,   *)
(* the store may change, and the request goes on or ends.                  *)
LEMMA OperationKeeps ==
    ASSUME CatalogInv, NEW r \in Req,
           reqs[r].op \notin Calls, reqs[r].pc \in {"operate", "lookup", "register", "issue"},
           NEW pc \in {"lookup", "register", "issue", "outcome"},
           NEW answer \in {"none", "success", "denied", "error"}, NEW ch \in BOOLEAN,
           pc = "outcome" => answer # "none",
           reqs' = [reqs EXCEPT ![r] = Moved(r, pc, answer)],
           changed' = [changed EXCEPT ![r] = ch], UNCHANGED trail,
           StoreType', RevokedStays, failures' \in 0..MaxFailures
    PROVE  CatalogInv'
<1> DEFINE q == Moved(r, pc, answer)
<1>1. q \in Request /\ q.pc = pc /\ q.op = reqs[r].op /\ q.answer = answer
  BY MovedType
<1> HIDE DEF q
<1>2. /\ trail[r] \in SUBSET {"attempt", "success", "denied", "error"}
      /\ trail' = [trail EXCEPT ![r] = trail[r]]
  BY DEF CatalogInv, TypeOK
<1>3. StepTo(r, q, trail[r], ch)
  BY <1>2 DEF StepTo, q
<1>4. TrailOfRequest(reqs[r], trail[r], changed[r])
  BY DEF CatalogInv
<1>5. StepsOfKind(q) /\ TrailOfRequest(q, trail[r], ch) /\ LateCall(q, creds)
  BY <1>1, <1>4 DEF StepsOfKind, TrailOfRequest, LateCall
<1> QED
  BY <1>1, <1>2, <1>3, <1>5, CatalogStep

LEMMA EndsMoves ==
    ASSUME CatalogInv, NEW r \in Req, NEW answer, Ends(r, answer)
    PROVE  reqs' = [reqs EXCEPT ![r] = Moved(r, "outcome", answer)]
BY DEF CatalogInv, TypeOK, Ends, Moved

LEMMA PcMoves ==
    ASSUME CatalogInv, NEW r \in Req,
           NEW pc \in {"lookup", "register", "issue"}, reqs' = [reqs EXCEPT ![r].pc = pc]
    PROVE  reqs' = [reqs EXCEPT ![r] = Moved(r, pc, reqs[r].answer)]
BY MovedPc

LEMMA UnchangedStore ==
    ASSUME CatalogInv, UNCHANGED catalog
    PROVE  StoreType' /\ RevokedStays
BY DEF CatalogInv, TypeOK, StoreType, RevokedStays, catalog

(* What is known of the request that takes a step. *)
LEMMA OfRequest ==
    ASSUME CatalogInv, NEW r \in Req
    PROVE  /\ reqs[r] \in Request
           /\ trail[r] \in SUBSET {"attempt", "success", "denied", "error"}
           /\ trail \in [Req -> SUBSET {"attempt", "success", "denied", "error"}]
           /\ changed[r] \in BOOLEAN
           /\ changed = [changed EXCEPT ![r] = changed[r]]
           /\ failures \in 0..MaxFailures
           /\ StoreType
           /\ StepsOfKind(reqs[r])
           /\ TrailOfRequest(reqs[r], trail[r], changed[r])
           /\ LateCall(reqs[r], creds)
BY DEF CatalogInv, TypeOK, StoreType, Request

(* An operation that is refused, or one of whose statements fails, ends    *)
(* with the store as it is.                                                *)
LEMMA GivenUpKeeps ==
    ASSUME CatalogInv, NEW r \in Req, Refused(r) \/ StatementFails(r)
    PROVE  CatalogInv'
<1>1. PICK answer \in {"denied", "error"} : Ends(r, answer)
  BY DEF Refused, StatementFails
<1>2. /\ reqs[r].op \notin Calls /\ reqs[r].pc \in {"operate", "lookup", "register", "issue"}
      /\ UNCHANGED <<catalog, trail, changed>> /\ failures' \in 0..MaxFailures
  BY OfRequest, FailsType DEF Refused, StatementFails, StepsOfKind
<1> QED
  BY <1>1, <1>2, OfRequest, EndsMoves, UnchangedStore, OperationKeeps

(* A statement of a route runs, or does not find its row. *)
LEMMA EffectKeeps ==
    ASSUME CatalogInv, NEW r \in Req,
           reqs[r].op \notin Calls, reqs[r].pc \in {"operate", "issue"},
           UNCHANGED <<trail, failures>>,
           \/ /\ StoreType' /\ RevokedStays
              /\ changed' = [changed EXCEPT ![r] = TRUE] /\ Ends(r, "success")
           \/ Ends(r, "error") /\ UNCHANGED <<catalog, changed>>
    PROVE  CatalogInv'
<1>1. failures' \in 0..MaxFailures
  BY OfRequest
<1>2. CASE /\ StoreType' /\ RevokedStays
           /\ changed' = [changed EXCEPT ![r] = TRUE] /\ Ends(r, "success")
  BY <1>1, <1>2, EndsMoves, OperationKeeps
<1>3. CASE Ends(r, "error") /\ UNCHANGED <<catalog, changed>>
  BY <1>1, <1>3, OfRequest, EndsMoves, UnchangedStore, OperationKeeps
<1> QED
  BY <1>2, <1>3

(* The routes of the control plane. *)
LEMMA OperateKeeps ==
    ASSUME CatalogInv, NEW r \in Req, Operate(r)
    PROVE  CatalogInv'
<1> DEFINE p == reqs[r].p
           e == reqs[r].e
           s == reqs[r].s
           c == reqs[r].c
<1>1. p \in Project /\ e \in Env /\ s \in Service /\ StoreType
  BY OfRequest DEF Request
<1>2. StepsOfKind(reqs[r]) /\ failures \in 0..MaxFailures /\ changed[r] \in BOOLEAN
      /\ changed = [changed EXCEPT ![r] = changed[r]]
      /\ reqs[r].answer \in {"none", "success", "denied", "error"}
  BY OfRequest DEF Request
<1>3. ASSUME NEW op, Begins(r, op), op \notin Calls
      PROVE  reqs[r].op \notin Calls /\ reqs[r].pc = "operate"
  BY <1>3 DEF Begins
<1> HIDE DEF p, e, s, c
<1>4. CASE CreateProject(r)
  BY <1>4, <1>1, <1>3, InsertRow, EffectKeeps DEF CreateProject, Effect, Calls, p
<1>5. CASE ArchiveProject(r)
  BY <1>5, <1>1, <1>3, UpdateRow, EffectKeeps DEF ArchiveProject, Effect, Calls, p
<1>6. CASE CreateEnvironment(r)
  BY <1>6, <1>1, <1>3, InsertRow, EffectKeeps DEF CreateEnvironment, Effect, Calls, p, e
<1>7. CASE ArchiveEnvironment(r)
  BY <1>7, <1>1, <1>3, UpdateRow, EffectKeeps DEF ArchiveEnvironment, Effect, Calls, p, e
<1>8. CASE CreateRegisteredService(r)
  BY <1>8, <1>1, <1>3, InsertRow, EffectKeeps DEF CreateRegisteredService, Effect, Calls, p, s
<1>9. CASE ArchiveRegisteredService(r)
  BY <1>9, <1>1, <1>3, UpdateRow, EffectKeeps DEF ArchiveRegisteredService, Effect, Calls, p, s
<1>10. CASE IssueNativeCredential(r)
  BY <1>10, <1>1, <1>3, InsertCredential, EffectKeeps
     DEF IssueNativeCredential, Effect, Calls, p, e, s
<1>11. CASE IssueServiceCredential(r)
  BY <1>11, <1>1, <1>2, InsertCredential, EffectKeeps
     DEF IssueServiceCredential, Effect, StepsOfKind, p, e, s
<1>12. CASE RevokeServiceCredential(r)
  BY <1>12, <1>1, <1>3, UpdateRow, EffectKeeps DEF RevokeServiceCredential, Effect, Calls, c
<1>13. CASE RevokeNativeCredential(r)
  BY <1>13, <1>1, <1>3, UpdateRow, EffectKeeps DEF RevokeNativeCredential, Effect, Calls, c
<1>14. CASE CheckEnvironment(r) \/ LookUpService(r)
  <2>1. /\ reqs[r].op \notin Calls /\ reqs[r].pc \in {"operate", "lookup"}
        /\ UNCHANGED <<catalog, trail, changed, failures>>
    BY <1>14, <1>2 DEF CheckEnvironment, LookUpService, Begins, Calls, StepsOfKind
  <2>2. \/ Ends(r, "error")
        \/ \E pc \in {"lookup", "register", "issue"} : reqs' = [reqs EXCEPT ![r].pc = pc]
    BY <1>14 DEF CheckEnvironment, LookUpService
  <2>3. CASE Ends(r, "error")
    BY <2>1, <2>3, <1>2, EndsMoves, UnchangedStore, OperationKeeps
  <2>4. ASSUME NEW pc \in {"lookup", "register", "issue"}, reqs' = [reqs EXCEPT ![r].pc = pc]
        PROVE  CatalogInv'
    <3>1. reqs' = [reqs EXCEPT ![r] = Moved(r, pc, reqs[r].answer)]
      BY <2>4, PcMoves
    <3> QED
      BY <2>1, <3>1, <1>2, UnchangedStore, OperationKeeps
  <2> QED
    BY <2>2, <2>3, <2>4
<1>15. CASE RegisterService(r)
  <2>1. reqs[r].op \notin Calls /\ reqs[r].pc = "register" /\ UNCHANGED <<trail, failures>>
    BY <1>15, <1>2 DEF RegisterService, StepsOfKind
  <2>2. CASE Ends(r, "error") /\ UNCHANGED <<catalog, changed>>
    BY <2>1, <2>2, <1>2, EndsMoves, UnchangedStore, OperationKeeps
  <2>3. CASE /\ InsertService(reqs[r].p, reqs[r].s)
             /\ reqs' = [reqs EXCEPT ![r].pc = "issue"]
             /\ changed' = [changed EXCEPT ![r] = TRUE]
    <3>1. reqs' = [reqs EXCEPT ![r] = Moved(r, "issue", reqs[r].answer)]
      BY <2>3, PcMoves
    <3>2. StoreType' /\ RevokedStays
      BY <1>1, <2>3, InsertRow DEF p, s
    <3> QED
      BY <2>1, <2>3, <3>1, <3>2, <1>2, OperationKeeps
  <2> QED
    BY <1>15, <2>2, <2>3 DEF RegisterService
<1> QED
  BY <1>4, <1>5, <1>6, <1>7, <1>8, <1>9, <1>10, <1>11, <1>12, <1>13, <1>14, <1>15 DEF Operate


(* runAuditedMutation, after the operation. *)
LEMMA OutcomeKeeps ==
    ASSUME CatalogInv, NEW r \in Req, Outcome(r)
    PROVE  CatalogInv'
<1> DEFINE a == reqs[r].answer
<1>0. /\ reqs[r] \in Request
      /\ trail[r] \in SUBSET {"attempt", "success", "denied", "error"}
      /\ trail = [trail EXCEPT ![r] = trail[r]]
      /\ failures \in 0..MaxFailures /\ StepsOfKind(reqs[r])
      /\ TrailOfRequest(reqs[r], trail[r], changed[r])
  BY OfRequest
<1>1. /\ reqs[r].pc = "outcome" /\ reqs[r].op \notin Calls
      /\ UNCHANGED <<catalog, changed>> /\ a \in {"none", "success", "denied", "error"}
  BY <1>0 DEF Outcome, StepsOfKind, Request
<1>2. CASE Append(r, a) /\ reqs' = [reqs EXCEPT ![r].pc = "idle"] /\ UNCHANGED failures
  <2> DEFINE q == Moved(r, "idle", a)
             t == trail[r] \cup {a} 
  <2>1. q.pc = "idle" /\ q.op = reqs[r].op /\ q.answer = a
    BY <1>1, MovedType
  <2>a. q = [reqs[r] EXCEPT !.pc = "idle"]
    BY MovedPc
  <2>b. a \in {"success", "denied", "error"}
    BY <1>0, <1>1 DEF StepsOfKind
  <2> HIDE DEF q
  <2>2. reqs' = [reqs EXCEPT ![r] = q] /\ trail' = [trail EXCEPT ![r] = t]
    BY <1>2, <2>a DEF Append
  <2>3. StepsOfKind(q) /\ TrailOfRequest(q, t, changed[r]) /\ LateCall(q, creds)
    BY <1>0, <1>1, <2>1 DEF StepsOfKind, TrailOfRequest, LateCall, Outcomes
  <2>4. t \in SUBSET {"attempt", "success", "denied", "error"} /\ failures' \in 0..MaxFailures
    BY <1>0, <1>2, <2>b
  <2> HIDE DEF t
  <2> QED
    BY <1>1, <2>2, <2>3, <2>4, CatalogMove DEF q
<1>3. CASE /\ Fails /\ UNCHANGED trail
           /\ reqs' = IF a = "success" THEN [reqs EXCEPT ![r].answer = "error"]
                      ELSE [reqs EXCEPT ![r].pc = "idle", ![r].answer = "error"]
  <2> DEFINE pc == IF a = "success" THEN "outcome" ELSE "idle"
             q == Moved(r, pc, "error")
  <2>1. q.pc = pc /\ q.op = reqs[r].op /\ q.answer = "error"
    BY <1>1, MovedType
  <2>2. reqs' = [reqs EXCEPT ![r] = q]
    <3>1. CASE a = "success"
      <4>1. q = [reqs[r] EXCEPT !.answer = "error"]
        BY <1>1, <3>1, MovedType
      <4> HIDE DEF q
      <4> QED
        BY <1>3, <3>1, <4>1
    <3>2. CASE a # "success"
      BY <1>3, <3>2 DEF Moved
    <3> QED
      BY <3>1, <3>2
  <2> HIDE DEF q
  <2>3. StepsOfKind(q) /\ TrailOfRequest(q, trail[r], changed[r]) /\ LateCall(q, creds)
    BY <1>0, <1>1, <2>1 DEF StepsOfKind, TrailOfRequest, LateCall, Outcomes
  <2> QED
    BY <1>0, <1>1, <1>3, <2>2, <2>3, CatalogMove, FailsType DEF q
<1> QED
  BY <1>2, <1>3 DEF Outcome

(* An agent's call: the store is asked for its key each time. *)
LEMMA CallKeeps ==
    ASSUME CatalogInv, NEW r \in Req,
           Authenticate(r) \/ Serve(r) \/ AuditNativeRejection(r)
    PROVE  CatalogInv'
<1> DEFINE ends(pc, answer) == reqs' = [reqs EXCEPT ![r] = Moved(r, pc, answer)]
           good == {"attempt", "success", "denied", "error"}
<1>0. /\ reqs[r] \in Request /\ trail[r] \in SUBSET good
      /\ trail = [trail EXCEPT ![r] = trail[r]]
      /\ failures \in 0..MaxFailures /\ StepsOfKind(reqs[r])
      /\ TrailOfRequest(reqs[r], trail[r], changed[r]) /\ LateCall(reqs[r], creds)
  BY OfRequest
<1>1. /\ reqs[r].op \in Calls /\ reqs[r].pc \in {"operate", "serve", "reject"}
      /\ UNCHANGED <<catalog, changed>> /\ failures' \in 0..MaxFailures
      /\ trail[r] \cap Outcomes = {} /\ reqs[r].c \in Cred
      /\ reqs[r].answer \in {"none", "success", "denied", "error"}
  <2>1. reqs[r].op \in Calls /\ reqs[r].pc \in {"operate", "serve", "reject"}
    BY <1>0 DEF Authenticate, Serve, AuditNativeRejection, StepsOfKind
  <2>2. UNCHANGED <<catalog, changed>>
    BY DEF Authenticate, Serve, AuditNativeRejection
  <2>3. failures' \in 0..MaxFailures
    BY <1>0, FailsType DEF Authenticate, Serve, AuditNativeRejection
  <2> QED
    BY <1>0, <2>1, <2>2, <2>3 DEF StepsOfKind, TrailOfRequest, Request
<1>2. ASSUME NEW pc \in {"serve", "reject"}, NEW answer \in {"none", "success", "denied", "error"},
             reqs' = [reqs EXCEPT ![r] = Moved(r, pc, answer)],
             pc = "reject" => answer \in {"denied", "error"},
             pc = "serve" => answer = reqs[r].answer,
             UNCHANGED trail, reqs[r].late => reqs[r].pc \in {"serve", "reject"}
      PROVE  CatalogInv'
  <2> DEFINE q == Moved(r, pc, answer)
  <2>1. /\ q.pc = pc /\ q.op = reqs[r].op /\ q.answer = answer /\ q.c = reqs[r].c
        /\ q.human = reqs[r].human /\ q.late = reqs[r].late
    BY <1>1, MovedType
  <2>2. reqs' = [reqs EXCEPT ![r] = q] /\ trail' = [trail EXCEPT ![r] = trail[r]]
    BY <1>0, <1>2
  <2> HIDE DEF q
  <2>3. StepsOfKind(q) /\ TrailOfRequest(q, trail[r], changed[r]) /\ LateCall(q, creds)
    BY <1>0, <1>1, <1>2, <2>1 DEF StepsOfKind, TrailOfRequest, LateCall, Outcomes
  <2> QED
    BY <1>0, <1>1, <2>2, <2>3, CatalogMove, ZenonT(60) DEF q
<1>3. ASSUME NEW answer \in {"success", "denied", "error"},
             reqs' = [reqs EXCEPT ![r].pc = "idle", ![r].answer = answer],
             NEW t \in SUBSET good, trail' = [trail EXCEPT ![r] = t],
             t = trail[r] \/ t = trail[r] \cup {answer},
             answer = "success" => reqs[r].pc = "serve"
      PROVE  CatalogInv'
  <2> DEFINE q == Moved(r, "idle", answer)
  <2>1. /\ q.pc = "idle" /\ q.op = reqs[r].op /\ q.answer = answer /\ q.c = reqs[r].c
        /\ q.human = reqs[r].human /\ q.late = reqs[r].late
    BY MovedType
  <2>2. reqs' = [reqs EXCEPT ![r] = q]
    BY <1>3 DEF Moved
  <2> HIDE DEF q
  <2>3. StepsOfKind(q) /\ LateCall(q, creds)
    BY <1>0, <1>1, <1>3, <2>1 DEF StepsOfKind, LateCall
  <2>4. TrailOfRequest(q, t, changed[r])
    BY <1>0, <1>1, <1>3, <2>1 DEF TrailOfRequest, Outcomes
  <2> QED
    BY <1>1, <1>3, <2>2, <2>3, <2>4, CatalogMove DEF q
<1>4. CASE Authenticate(r)
  <2> DEFINE c == reqs[r].c
             valid == IF creds[c].kind = "native" THEN ValidNativeKey(c) ELSE ValidServiceKey(c)
  <2>1. valid => creds[c].state = "active"
    BY DEF ValidNativeKey, ValidServiceKey
  <2>2. valid => ~reqs[r].late
    BY <1>0, <1>1, <2>1 DEF LateCall, Request
  <2>3. /\ UNCHANGED trail
        /\ \/ valid /\ reqs' = [reqs EXCEPT ![r].pc = "serve"]
           \/ \E answer \in {"denied", "error"} :
                reqs' = [reqs EXCEPT ![r].pc = "idle", ![r].answer = answer]
    BY <1>4 DEF Authenticate
  <2> HIDE DEF valid
  <2>4. CASE valid /\ reqs' = [reqs EXCEPT ![r].pc = "serve"]
    <3>1. reqs' = [reqs EXCEPT ![r] = Moved(r, "serve", reqs[r].answer)]
      BY <2>4, MovedPc
    <3> QED
      BY <1>1, <1>2, <2>2, <2>3, <2>4, <3>1
  <2>5. ASSUME NEW answer \in {"denied", "error"},
               reqs' = [reqs EXCEPT ![r].pc = "idle", ![r].answer = answer]
        PROVE  CatalogInv'
    BY <1>0, <1>3, <2>3, <2>5
  <2> QED
    BY <2>3, <2>4, <2>5
<1>5. CASE Serve(r)
  <2>1. PICK answer \in {"success", "denied", "error"}, pc \in {"idle", "reject"} :
          /\ pc = "reject" => answer # "success"
          /\ reqs' = [reqs EXCEPT ![r].pc = pc, ![r].answer = answer]
    BY <1>5 DEF Serve
  <2>2. UNCHANGED trail /\ reqs[r].pc = "serve"
    BY <1>5 DEF Serve
  <2>3. CASE pc = "reject"
    <3>1. reqs' = [reqs EXCEPT ![r] = Moved(r, "reject", answer)]
      BY <2>1, <2>3 DEF Moved
    <3> QED
      BY <1>2, <2>1, <2>2, <2>3, <3>1
  <2>4. CASE pc = "idle"
    <3>1. reqs' = [reqs EXCEPT ![r].pc = "idle", ![r].answer = answer]
      BY <2>1, <2>4
    <3> QED
      BY <1>0, <1>3, <2>2, <3>1
  <2> QED
    BY <2>3, <2>4
<1>6. CASE AuditNativeRejection(r)
  <2> DEFINE a == reqs[r].answer
  <2>0. a \in {"denied", "error"}
    BY <1>0, <1>6 DEF StepsOfKind, AuditNativeRejection
  <2>1. CASE Append(r, a) /\ reqs' = [reqs EXCEPT ![r].pc = "idle"]
    <3>1. reqs' = [reqs EXCEPT ![r].pc = "idle", ![r].answer = a]
      <4>1. Moved(r, "idle", a) = [reqs[r] EXCEPT !.pc = "idle"]
        BY MovedPc
      <4> QED
        BY <2>1, <4>1 DEF Moved
    <3> HIDE DEF a
    <3> QED
      BY <1>0, <1>3, <2>0, <2>1, <3>1 DEF Append
  <2>2. CASE /\ reqs' = [reqs EXCEPT ![r].pc = "idle", ![r].answer = "error"]
             /\ UNCHANGED trail
    BY <1>0, <1>3, <2>2
  <2> QED
    BY <1>6, <2>1, <2>2 DEF AuditNativeRejection
<1> QED
  BY <1>4, <1>5, <1>6

(* Every step keeps the invariant. *)
LEMMA CatalogNext ==
    ASSUME CatalogInv, [Next]_vars
    PROVE  CatalogInv'
<1>1. CASE UNCHANGED vars
  BY <1>1 DEF CatalogInv, TypeOK, vars
<1>2. ASSUME NEW r \in Req, Step(r)
      PROVE  CatalogInv'
  BY <1>2, ArriveKeeps, AttemptKeeps, GivenUpKeeps, OperateKeeps, OutcomeKeeps, CallKeeps
     DEF Step
<1> QED
  BY <1>1, <1>2 DEF Next

LEMMA CatalogInvariant == Spec => []CatalogInv
BY CatalogInit, CatalogNext, PTL DEF Spec

(* The state of the control plane keeps its shape, whatever requests do    *)
(* and wherever statements of the store fail.                              *)
THEOREM CatalogTypeCorrect == Spec => []TypeOK
<1>1. CatalogInv => TypeOK
  BY DEF CatalogInv
<1> QED
  BY <1>1, CatalogInvariant, PTL

(* runAuditedMutation: no row of the catalog and no credential changes on  *)
(* behalf of a request whose attempt is not in the audit trail.            *)
THEOREM EveryChangeIsAudited == Spec => []ChangesAreAudited
<1>1. CatalogInv => ChangesAreAudited
  BY DEF CatalogInv, TrailOfRequest, ChangesAreAudited
<1> QED
  BY <1>1, CatalogInvariant, PTL

(* What runAuditedMutation and auditNativeRejection wrote about a request  *)
(* that has ended agrees with what its caller was told.                    *)
THEOREM TrailAgreesWithAnswer == Spec => []AnswerMatchesTrail
<1>1. CatalogInv => AnswerMatchesTrail
  BY DEF CatalogInv, TrailOfRequest, AnswerMatchesTrail, Outcomes
<1> QED
  BY <1>1, CatalogInvariant, PTL

(* authenticateServiceCredential and authenticateNativeCredential ask the  *)
(* store at each call: one that begins after the key was revoked, by its   *)
(* own revocation or with its service, environment or project, is never    *)
(* served.                                                                 *)
THEOREM RevokedKeyIsRefused == Spec => []RevokedIsRefused
<1>1. CatalogInv => RevokedIsRefused
  BY DEF CatalogInv, LateCall, RevokedIsRefused
<1> QED
  BY <1>1, CatalogInvariant, PTL


-----------------------------------------------------------------------------
(* A person's request *)

Asked == [pc : {"idle", "token", "lookup", "member", "wait", "scope"},
          by : Kind, mcp : BOOLEAN,
          seen : Membership \cup {"unanswered"}, age : 0..DelayUnits,
          late : BOOLEAN, answer : {"none", "served", "refused", "failed"}]

(* A request q while the user is gone for g units, with or without a       *)
(* resolver: what Clerk saw of a member is no older than the loss, a late  *)
(* request does not get past the lookup, and none gets to the choice of an *)
(* environment without rows.                                               *)
Careful(q, g, asksClerk, provisioned) ==
    /\ q.pc = "lookup" => asksClerk
    /\ q.pc # "lookup" => q.seen = "unanswered"
    /\ q.seen = "mapped" => g <= q.age
    /\ q.pc # "idle" => q.answer = "none"
    /\ q.late => q.pc \in {"idle", "token", "lookup"} /\ q.answer # "served"
    /\ (q.late /\ q.pc # "idle") => g > HorizonOf(asksClerk)
    /\ (q.pc = "scope" \/ q.answer = "served") => provisioned

(* A cached membership is no older than the cache keeps one, counted from  *)
(* when Clerk looked.                                                      *)
Fresh(entries, g) ==
    \A k \in Kind : (entries[k].left > 0 /\ entries[k].role = "mapped")
                      => g + entries[k].left <= CacheUnits + DelayUnits

(* The inductive invariant. *)
AccessInv ==
    /\ AccessTypeOK
    /\ member = "mapped" => gone = 0
    /\ Fresh(cache, gone)
    /\ scope = "done" => rows
    /\ \A r \in HumanReq : Careful(asked[r], gone, resolver, rows)

LEMMA HorizonType ==
    /\ CacheUnits \in Nat \ {0} /\ DelayUnits \in Nat /\ TokenUnits \in Nat
    /\ Horizon \in Nat /\ Horizon = HorizonOf(resolver)
    /\ HorizonOf(TRUE) = CacheUnits + DelayUnits /\ HorizonOf(FALSE) = TokenUnits
BY AccessAssumption DEF Horizon, HorizonOf

LEMMA NoEntryType == NoEntry \in Entry /\ NoEntry.left = 0
<1>1. 0 \in 0..CacheUnits
  BY HorizonType
<1> QED
  BY <1>1 DEF NoEntry, Entry, Membership

LEMMA QuietType ==
    /\ Quiet \in Asked
    /\ Quiet.seen = "unanswered" /\ Quiet.pc = "idle" /\ Quiet.answer = "none"
    /\ Quiet.late = FALSE
<1>1. 0 \in 0..DelayUnits
  BY HorizonType
<1> QED
  BY <1>1 DEF Quiet, Asked, Kind

(* A request that has ended. *)
Ended(a, l) == [Quiet EXCEPT !.answer = a, !.late = l]

LEMMA EndedType ==
    ASSUME NEW a \in {"none", "served", "refused", "failed"}, NEW l \in BOOLEAN
    PROVE  /\ Ended(a, l) \in Asked
           /\ Ended(a, l).pc = "idle" /\ Ended(a, l).seen = "unanswered"
           /\ Ended(a, l).answer = a /\ Ended(a, l).late = l
<1>1. 0 \in 0..DelayUnits
  BY HorizonType
<1>2. CASE l = TRUE
  BY <1>1, <1>2 DEF Ended, Quiet, Asked, Kind
<1>3. CASE l = FALSE
  BY <1>1, <1>3 DEF Ended, Quiet, Asked, Kind
<1> QED
  BY <1>2, <1>3

LEMMA AccessInitial == AccessInit => AccessInv
<1> SUFFICES ASSUME AccessInit PROVE AccessInv
  OBVIOUS
<1>1. AccessTypeOK
  <2>1. 0 \in 0..(Horizon + 1) /\ 0 \in 0..CacheUnits /\ 0 \in 0..MaxFaults
    BY HorizonType, AccessAssumption
  <2>2. cache \in [Kind -> Entry]
    BY NoEntryType DEF AccessInit, NoEntries
  <2>3. asked \in [HumanReq -> Asked]
    BY QuietType DEF AccessInit
  <2> QED
    BY <2>1, <2>2, <2>3 DEF AccessInit, AccessTypeOK, Membership, Asked
<1>2. ASSUME NEW r \in HumanReq
      PROVE  Careful(asked[r], gone, resolver, rows)
  BY DEF AccessInit, Careful, Quiet
<1> QED
  BY <1>1, <1>2, NoEntryType DEF AccessInit, AccessInv, NoEntries, Fresh

(* One request moves, and with it at most the cache and the scope. *)
LEMMA AccessStep ==
    ASSUME AccessInv, NEW r \in HumanReq, NEW q \in Asked,
           asked' = [asked EXCEPT ![r] = q], Careful(q, gone, resolver, rows),
           UNCHANGED <<resolver, member, gone, rows>>,
           cache' \in [Kind -> Entry],
           Fresh(cache', gone),
           scope' \in {"absent", "running", "done"}, scope' = "done" => rows,
           faults' \in 0..MaxFaults
    PROVE  AccessInv'
<1>1. AccessTypeOK'
  BY DEF AccessInv, AccessTypeOK, Asked, Horizon
<1>2. ASSUME NEW x \in HumanReq
      PROVE  Careful(asked'[x], gone', resolver', rows')
  <2>1. CASE x = r
    BY <2>1 DEF AccessInv, AccessTypeOK
  <2>2. CASE x # r
    <3>1. asked'[x] = asked[x]
      BY <2>2 DEF AccessInv, AccessTypeOK
    <3> QED
      BY <3>1 DEF AccessInv
  <2> QED
    BY <2>1, <2>2
<1> QED
  BY <1>1, <1>2 DEF AccessInv

(* What is known of the request that moves. *)
LEMMA OfAsked ==
    ASSUME AccessInv, NEW r \in HumanReq
    PROVE  /\ asked[r] \in Asked /\ Careful(asked[r], gone, resolver, rows)
           /\ cache \in [Kind -> Entry]
           /\ Fresh(cache, gone)
           /\ gone \in Nat /\ faults \in 0..MaxFaults
           /\ scope \in {"absent", "running", "done"} /\ (scope = "done" => rows)
           /\ member \in Membership /\ (member = "mapped" => gone = 0)
<1>1. gone \in 0..(Horizon + 1)
  BY DEF AccessInv, AccessTypeOK
<1>2. gone \in Nat
  BY <1>1, HorizonType
<1> QED
  BY <1>2 DEF AccessInv, AccessTypeOK, Asked

(* A request that ends is quiet; only one that may be served is served. *)
LEMMA AnswerKeeps ==
    ASSUME AccessInv, NEW r \in HumanReq,
           NEW a \in {"served", "refused", "failed"}, Answer(r, a),
           a = "served" => asked[r].pc = "scope",
           UNCHANGED <<resolver, member, gone, rows>>,
           cache' \in [Kind -> Entry],
           Fresh(cache', gone),
           UNCHANGED scope, faults' \in 0..MaxFaults
    PROVE  AccessInv'
<1> DEFINE q == Ended(a, asked[r].late)
<1>1. asked[r].late \in BOOLEAN
  BY OfAsked DEF Asked
<1>2. /\ q \in Asked /\ q.pc = "idle" /\ q.seen = "unanswered" /\ q.answer = a
      /\ q.late = asked[r].late
  BY <1>1, EndedType
<1>3. asked' = [asked EXCEPT ![r] = q]
  BY DEF Answer, Ended
<1> HIDE DEF q
<1>4. Careful(q, gone, resolver, rows)
  BY <1>2, OfAsked DEF Careful
<1> QED
  BY <1>2, <1>3, <1>4, OfAsked, AccessStep

LEMMA FaultType ==
    ASSUME faults \in 0..MaxFaults, Fault
    PROVE  faults' \in 0..MaxFaults
BY AccessAssumption DEF Fault

(* The membership decides; one that is mapped is not a late request's. *)
LEMMA JudgedKeeps ==
    ASSUME AccessInv, NEW r \in HumanReq, NEW role \in Membership, Judged(r, role),
           asked[r].pc \in {"token", "lookup"},
           role = "mapped" => ~asked[r].late,
           UNCHANGED <<resolver, member, gone, rows, scope, faults>>,
           cache' \in [Kind -> Entry],
           Fresh(cache', gone)
    PROVE  AccessInv'
<1>1. faults' \in 0..MaxFaults
  BY OfAsked
<1>2. CASE role # "mapped"
  BY <1>1, <1>2, AnswerKeeps DEF Judged
<1>3. CASE role = "mapped"
  <2> DEFINE q == [asked[r] EXCEPT !.pc = "member", !.age = 0, !.seen = "unanswered"]
  <2>1. /\ q \in Asked /\ q.pc = "member" /\ q.seen = "unanswered"
        /\ q.late = asked[r].late /\ q.answer = asked[r].answer
    <3>1. 0 \in 0..DelayUnits /\ asked[r] \in Asked
      BY OfAsked, HorizonType
    <3> QED
      BY <3>1 DEF Asked
  <2>2. asked' = [asked EXCEPT ![r] = q]
    BY <1>3 DEF Judged
  <2> HIDE DEF q
  <2>3. Careful(q, gone, resolver, rows)
    BY <1>3, <2>1, OfAsked DEF Careful
  <2> QED
    BY <1>1, <2>1, <2>2, <2>3, OfAsked, AccessStep
<1> QED
  BY <1>2, <1>3


(* authenticate of the Clerk authenticators, up to the membership. *)
LEMMA TokenKeeps ==
    ASSUME AccessInv, NEW r \in HumanReq,
           Ask(r) \/ RejectSession(r) \/ RejectOAuth(r) \/ ByToken(r) \/ Cached(r) \/ LookUp(r)
    PROVE  AccessInv'
<1>0. /\ asked[r] \in Asked /\ Careful(asked[r], gone, resolver, rows)
      /\ cache \in [Kind -> Entry]
      /\ Fresh(cache, gone)
      /\ gone \in Nat /\ faults \in 0..MaxFaults
      /\ scope \in {"absent", "running", "done"} /\ (scope = "done" => rows)
  BY OfAsked
<1>1. CASE Ask(r)
  <2>1. PICK by \in Kind, mcp \in BOOLEAN :
          asked' = [asked EXCEPT ![r] = [Quiet EXCEPT !.pc = "token", !.by = by, !.mcp = mcp,
                                                      !.late = gone > Horizon]]
    BY <1>1 DEF Ask
  <2> DEFINE late == gone > Horizon
             q == [Quiet EXCEPT !.pc = "token", !.by = by, !.mcp = mcp, !.late = late]
  <2>2. asked' = [asked EXCEPT ![r] = q]
    BY <2>1
  <2>3. late \in BOOLEAN /\ (late <=> gone > Horizon)
    BY <1>0, HorizonType
  <2> HIDE DEF late
  <2>4. q \in Asked
    BY <2>3, QuietType DEF Asked
  <2>5. q.pc = "token" /\ q.seen = "unanswered" /\ q.answer = "none" /\ (q.late <=> late)
    BY <2>3, QuietType DEF Asked
  <2> HIDE DEF q
  <2>6. Careful(q, gone, resolver, rows)
    BY <2>3, <2>5 DEF Careful, Horizon
  <2> QED
    BY <1>0, <1>1, <2>2, <2>4, <2>6, AccessStep DEF Ask
<1>2. CASE RejectSession(r) \/ RejectOAuth(r)
  BY <1>0, <1>2, AnswerKeeps DEF RejectSession, RejectOAuth
<1>3. CASE Cached(r)
  <2> DEFINE entry == cache[asked[r].by]
  <2>0. entry \in Entry /\ asked[r].by \in Kind
    BY <1>0 DEF Asked
  <2>1. entry.role = "mapped" => ~asked[r].late
    <3> SUFFICES ASSUME entry.role = "mapped", asked[r].late PROVE FALSE
      OBVIOUS
    <3>1. entry.left > 0 /\ resolver /\ asked[r].pc = "token"
      BY <1>3 DEF Cached
    <3>2. gone > CacheUnits + DelayUnits
      BY <1>0, <3>1, HorizonType DEF Careful, HorizonOf
    <3>3. gone + entry.left <= CacheUnits + DelayUnits
      BY <1>0, <2>0, <3>1 DEF Fresh
    <3>4. entry.left \in Nat
      BY <2>0, HorizonType DEF Entry
    <3> HIDE DEF entry
    <3> QED
      BY <1>0, <3>1, <3>2, <3>3, <3>4, HorizonType
  <2>2. entry.role \in Membership
    BY <2>0 DEF Entry
  <2>3. Judged(r, entry.role) /\ asked[r].pc = "token"
    BY <1>3 DEF Cached
  <2> HIDE DEF entry
  <2> QED
    BY <1>0, <1>3, <2>1, <2>2, <2>3, JudgedKeeps DEF Cached
<1>4. CASE LookUp(r)
  <2> DEFINE q == [asked[r] EXCEPT !.pc = "lookup"]
  <2>1. /\ q \in Asked /\ q.pc = "lookup" /\ q.seen = asked[r].seen /\ q.age = asked[r].age
        /\ q.late = asked[r].late /\ q.answer = asked[r].answer
    BY <1>0 DEF Asked
  <2>2. asked' = [asked EXCEPT ![r] = q]
    BY <1>4 DEF LookUp
  <2> HIDE DEF q
  <2>3. Careful(q, gone, resolver, rows)
    BY <1>0, <1>4, <2>1 DEF LookUp, Careful
  <2> QED
    BY <1>0, <1>4, <2>1, <2>2, <2>3, AccessStep DEF LookUp
<1>5. CASE ByToken(r)
  <2>1. PICK role \in Membership : /\ role = "mapped" => gone <= TokenUnits
                                   /\ Judged(r, role)
    BY <1>5 DEF ByToken
  <2>2. role = "mapped" => ~asked[r].late
    <3>1. asked[r].pc = "token" /\ ~resolver
      BY <1>5 DEF ByToken
    <3> QED
      BY <1>0, <2>1, <3>1, HorizonType DEF Careful, HorizonOf
  <2> QED
    BY <1>0, <1>5, <2>1, <2>2, JudgedKeeps DEF ByToken
<1> QED
  BY <1>1, <1>2, <1>3, <1>4, <1>5

(* Clerk's answer to the lookup. *)
LEMMA ClerkKeeps ==
    ASSUME AccessInv, NEW r \in HumanReq,
           ClerkLooks(r) \/ ClerkAnswers(r) \/ ClerkFails(r)
    PROVE  AccessInv'
<1>0. /\ asked[r] \in Asked /\ Careful(asked[r], gone, resolver, rows)
      /\ cache \in [Kind -> Entry]
      /\ Fresh(cache, gone)
      /\ gone \in Nat /\ faults \in 0..MaxFaults
      /\ scope \in {"absent", "running", "done"} /\ (scope = "done" => rows)
      /\ member \in Membership /\ (member = "mapped" => gone = 0)
  BY OfAsked
<1>1. CASE ClerkLooks(r)
  <2> DEFINE q == [asked[r] EXCEPT !.seen = member]
  <2>1. /\ q \in Asked /\ q.pc = "lookup" /\ q.seen = member /\ q.age = asked[r].age
        /\ q.late = asked[r].late /\ q.answer = asked[r].answer
    BY <1>0, <1>1 DEF Asked, ClerkLooks
  <2>2. asked' = [asked EXCEPT ![r] = q]
    BY <1>1 DEF ClerkLooks
  <2> HIDE DEF q
  <2>3. asked[r].age \in Nat
    BY <1>0, HorizonType DEF Asked
  <2>4. Careful(q, gone, resolver, rows)
    BY <1>0, <1>1, <2>1, <2>3, HorizonType DEF ClerkLooks, Careful, HorizonOf
  <2> QED
    BY <1>0, <1>1, <2>1, <2>2, <2>4, AccessStep DEF ClerkLooks
<1>2. CASE ClerkAnswers(r)
  <2> DEFINE role == asked[r].seen
  <2>1. role \in Membership /\ asked[r].pc = "lookup"
    BY <1>0, <1>2 DEF ClerkAnswers, Asked
  <2>2. role = "mapped" => gone <= DelayUnits
    <3>1. asked[r].age \in Nat /\ asked[r].age <= DelayUnits
      BY <1>0, HorizonType DEF Asked
    <3> QED
      BY <1>0, <3>1, HorizonType DEF Careful
  <2>3. role = "mapped" => ~asked[r].late
    BY <1>0, <2>1, <2>2, HorizonType DEF Careful, HorizonOf
  <2>4. CacheUnits \in 0..CacheUnits
    BY HorizonType
  <2> DEFINE entry == [left |-> CacheUnits, role |-> role]
  <2>5. cache' = [cache EXCEPT ![asked[r].by] = entry]
    BY <1>2 DEF ClerkAnswers
  <2>6. entry \in Entry /\ entry.left = CacheUnits /\ entry.role = role
    BY <2>1, <2>4 DEF Entry
  <2> HIDE DEF entry, role
  <2>7. cache' \in [Kind -> Entry]
    BY <1>0, <2>5, <2>6
  <2>8. Fresh(cache', gone)
    <3> SUFFICES ASSUME NEW k \in Kind, cache'[k].left > 0, cache'[k].role = "mapped"
                 PROVE  gone + cache'[k].left <= CacheUnits + DelayUnits
      BY DEF Fresh
    <3>1. CASE k = asked[r].by
      <4>1. cache'[k] = entry
        BY <1>0, <2>5, <3>1
      <4> QED
        BY <1>0, <2>2, <2>6, <4>1, HorizonType
    <3>2. CASE k # asked[r].by
      <4>1. cache'[k] = cache[k]
        BY <1>0, <2>5, <3>2
      <4> QED
        BY <1>0, <4>1 DEF Fresh
    <3> QED
      BY <3>1, <3>2
  <2>9. Judged(r, role)
    BY <1>2 DEF ClerkAnswers, role
  <2> QED
    BY <1>2, <2>1, <2>3, <2>7, <2>8, <2>9, JudgedKeeps DEF ClerkAnswers
<1>3. CASE ClerkFails(r)
  BY <1>0, <1>3, AnswerKeeps, FaultType DEF ClerkFails
<1> QED
  BY <1>1, <1>2, <1>3

(* ensureResourceScope and what follows it in the preHandler. *)
LEMMA ScopeKeeps ==
    ASSUME AccessInv, NEW r \in HumanReq, Provision(r) \/ EnterMcp(r) \/ SelectScope(r)
    PROVE  AccessInv'
<1>0. /\ asked[r] \in Asked /\ Careful(asked[r], gone, resolver, rows)
      /\ cache \in [Kind -> Entry]
      /\ Fresh(cache, gone)
      /\ gone \in Nat /\ faults \in 0..MaxFaults
      /\ scope \in {"absent", "running", "done"} /\ (scope = "done" => rows)
  BY OfAsked
<1>1. CASE Provision(r)
  <2>1. PICK pc \in {"scope", "wait"} :
          /\ asked' = [asked EXCEPT ![r].pc = pc]
          /\ pc = "scope" => rows
          /\ scope' = "done" => rows
          /\ scope' \in {"absent", "running", "done"}
    BY <1>0, <1>1 DEF Provision
  <2> DEFINE q == [asked[r] EXCEPT !.pc = pc]
  <2>2. /\ q \in Asked /\ q.pc = pc /\ q.seen = asked[r].seen
        /\ q.late = asked[r].late /\ q.answer = asked[r].answer
    BY <1>0 DEF Asked
  <2>3. asked' = [asked EXCEPT ![r] = q]
    BY <2>1
  <2> HIDE DEF q
  <2>4. Careful(q, gone, resolver, rows)
    BY <1>0, <1>1, <2>1, <2>2 DEF Provision, Careful
  <2> QED
    BY <1>0, <1>1, <2>1, <2>2, <2>3, <2>4, AccessStep DEF Provision
<1>2. CASE EnterMcp(r)
  <2> DEFINE q == [asked[r] EXCEPT !.pc = "token", !.mcp = FALSE]
  <2>1. /\ q \in Asked /\ q.pc = "token" /\ q.seen = asked[r].seen
        /\ q.late = asked[r].late /\ q.answer = asked[r].answer
    BY <1>0 DEF Asked
  <2>2. asked' = [asked EXCEPT ![r] = q]
    BY <1>2 DEF EnterMcp
  <2> HIDE DEF q
  <2>3. Careful(q, gone, resolver, rows)
    BY <1>0, <1>2, <2>1 DEF EnterMcp, Careful
  <2> QED
    BY <1>0, <1>2, <2>1, <2>2, <2>3, AccessStep DEF EnterMcp
<1>3. CASE SelectScope(r)
  BY <1>0, <1>3, AnswerKeeps DEF SelectScope
<1> QED
  BY <1>1, <1>2, <1>3

(* The steps that move every request at once. *)
LEMMA AllAsked ==
    ASSUME AccessInv, NEW f \in [HumanReq -> Asked], asked' = f,
           gone' \in 0..(Horizon + 1), rows' \in BOOLEAN, member' \in Membership,
           resolver' = resolver, faults' \in 0..MaxFaults,
           scope' \in {"absent", "running", "done"}, scope' = "done" => rows',
           cache' \in [Kind -> Entry],
           member' = "mapped" => gone' = 0,
           Fresh(cache', gone'),
           \A r \in HumanReq : Careful(f[r], gone', resolver', rows')
    PROVE  AccessInv'
BY DEF AccessInv, AccessTypeOK, Asked, Horizon

LEMMA AccessParts ==
    ASSUME AccessInv
    PROVE  /\ asked \in [HumanReq -> Asked]
           /\ \A r \in HumanReq : asked[r] \in Asked /\ Careful(asked[r], gone, resolver, rows)
           /\ gone \in 0..(Horizon + 1) /\ gone \in Nat
           /\ rows \in BOOLEAN /\ resolver \in BOOLEAN /\ faults \in 0..MaxFaults
           /\ scope \in {"absent", "running", "done"} /\ (scope = "done" => rows)
           /\ cache \in [Kind -> Entry]
           /\ \A k \in Kind : /\ cache[k] \in Entry /\ cache[k].role \in Membership
                              /\ cache[k].left \in Nat /\ cache[k].left <= CacheUnits
           /\ member \in Membership /\ (member = "mapped" => gone = 0)
           /\ Fresh(cache, gone)
<1>1. gone \in 0..(Horizon + 1) /\ cache \in [Kind -> Entry]
  BY DEF AccessInv, AccessTypeOK
<1>2. gone \in Nat
  BY <1>1, HorizonType
<1>3. ASSUME NEW k \in Kind
      PROVE  /\ cache[k] \in Entry /\ cache[k].role \in Membership
             /\ cache[k].left \in Nat /\ cache[k].left <= CacheUnits
  <2>1. cache[k] \in Entry
    BY <1>1
  <2> QED
    BY <2>1, HorizonType DEF Entry
<1> QED
  BY <1>1, <1>2, <1>3 DEF AccessInv, AccessTypeOK, Asked

(* The end of the provisioning, for all that wait for it. *)
LEMMA ProvisionedKeeps ==
    ASSUME AccessInv, Provisioned \/ ProvisionFails
    PROVE  AccessInv'
<1>0. \A r \in HumanReq : asked[r] \in Asked /\ Careful(asked[r], gone, resolver, rows)
  BY AccessParts
<1>1. CASE Provisioned
  <2> DEFINE w(r) == [asked[r] EXCEPT !.pc = "scope"]
             f == [r \in HumanReq |-> IF asked[r].pc # "wait" THEN asked[r] ELSE w(r)]
  <2>1. asked' = f
    BY <1>1 DEF Provisioned, Waiting
  <2>2. ASSUME NEW r \in HumanReq
        PROVE  /\ w(r) \in Asked /\ w(r).pc = "scope" /\ w(r).seen = asked[r].seen
               /\ w(r).late = asked[r].late /\ w(r).answer = asked[r].answer
    BY <1>0 DEF Asked
  <2> HIDE DEF w
  <2>3. ASSUME NEW r \in HumanReq, asked[r].pc = "wait"
        PROVE  Careful(w(r), gone, resolver, TRUE)
    BY <1>0, <2>2, <2>3 DEF Careful
  <2>4. ASSUME NEW r \in HumanReq
        PROVE  Careful(asked[r], gone, resolver, TRUE)
    BY <1>0 DEF Careful
  <2>5. f \in [HumanReq -> Asked] /\ \A r \in HumanReq : Careful(f[r], gone, resolver, TRUE)
    BY <1>0, <2>2, <2>3, <2>4
  <2> HIDE DEF f
  <2> QED
    BY <1>1, <2>1, <2>5, AccessParts, AllAsked DEF Provisioned
<1>2. CASE ProvisionFails
  <2> DEFINE w(r) == Ended("failed", asked[r].late)
             f == [r \in HumanReq |-> IF asked[r].pc # "wait" THEN asked[r] ELSE w(r)]
  <2>1. asked' = f
    BY <1>2 DEF ProvisionFails, Waiting, Ended
  <2>2. ASSUME NEW r \in HumanReq
        PROVE  /\ w(r) \in Asked /\ w(r).pc = "idle" /\ w(r).seen = "unanswered"
               /\ w(r).late = asked[r].late /\ w(r).answer = "failed"
    <3>1. asked[r].late \in BOOLEAN
      BY <1>0 DEF Asked
    <3> QED
      BY <3>1, EndedType
  <2> HIDE DEF w
  <2>3. ASSUME NEW r \in HumanReq
        PROVE  Careful(w(r), gone, resolver, rows)
    BY <1>0, <2>2 DEF Careful
  <2>5. f \in [HumanReq -> Asked] /\ \A r \in HumanReq : Careful(f[r], gone, resolver, rows)
    BY <1>0, <2>2, <2>3
  <2> HIDE DEF f
  <2> QED
    BY <1>2, <2>1, <2>5, AccessParts, FaultType, AllAsked DEF ProvisionFails
<1> QED
  BY <1>1, <1>2

(* The membership changes in Clerk. *)
LEMMA MembershipKeeps ==
    ASSUME AccessInv, MembershipChanges
    PROVE  AccessInv'
<1>0. /\ \A r \in HumanReq : asked[r] \in Asked /\ Careful(asked[r], gone, resolver, rows)
      /\ asked \in [HumanReq -> Asked] /\ gone \in Nat /\ member \in Membership
      /\ \A k \in Kind : cache[k].left \in Nat /\ cache[k].left <= CacheUnits
      /\ (member = "mapped" => gone = 0)
      /\ Fresh(cache, gone)
      /\ gone \in 0..(Horizon + 1)
  BY AccessParts
<1>1. CASE member' = "mapped"
  <2> DEFINE w(r) == [asked[r] EXCEPT !.late = FALSE]
             f == [r \in HumanReq |-> IF asked[r].pc # "idle" THEN w(r) ELSE asked[r]]
  <2>1. asked' = f /\ gone' = 0
    BY <1>1 DEF MembershipChanges
  <2>2. ASSUME NEW r \in HumanReq
        PROVE  /\ w(r) \in Asked /\ w(r).pc = asked[r].pc /\ w(r).seen = asked[r].seen
               /\ w(r).age = asked[r].age
               /\ ~w(r).late /\ w(r).answer = asked[r].answer
    BY <1>0 DEF Asked
  <2>3. ASSUME NEW r \in HumanReq
        PROVE  asked[r].age \in Nat
    BY <1>0, HorizonType DEF Asked
  <2> HIDE DEF w
  <2>4. ASSUME NEW r \in HumanReq
        PROVE  Careful(w(r), 0, resolver, rows)
    BY <1>0, <2>2, <2>3 DEF Careful
  <2>5. ASSUME NEW r \in HumanReq, asked[r].pc = "idle"
        PROVE  Careful(asked[r], 0, resolver, rows)
    BY <1>0, <2>3, <2>5 DEF Careful
  <2>6. f \in [HumanReq -> Asked] /\ \A r \in HumanReq : Careful(f[r], 0, resolver, rows)
    BY <1>0, <2>2, <2>4, <2>5
  <2> HIDE DEF f
  <2>7. 0 \in 0..(Horizon + 1) /\ Fresh(cache, 0)
    BY <1>0, HorizonType DEF Fresh
  <2> QED
    BY <1>1, <2>1, <2>6, <2>7, AccessParts, AllAsked DEF MembershipChanges
<1>2. CASE member' # "mapped"
  <2>1. asked' = asked /\ gone' = gone
    <3>1. asked' = [r \in HumanReq |-> asked[r]] /\ gone' = gone
      BY <1>2 DEF MembershipChanges
    <3> QED
      BY <1>0, <3>1
  <2> QED
    BY <1>0, <1>2, <2>1, AccessParts, AllAsked DEF MembershipChanges
<1> QED
  BY <1>1, <1>2

(* The thousandth entry of a cache. *)
LEMMA ClearedKeeps ==
    ASSUME AccessInv, CacheCleared
    PROVE  AccessInv'
<1>1. PICK c \in Kind : cache' = [cache EXCEPT ![c] = NoEntry]
  BY DEF CacheCleared
<1>2. cache' \in [Kind -> Entry] /\ Fresh(cache', gone)
  <2>1. cache \in [Kind -> Entry] /\ Fresh(cache, gone)
    BY AccessParts
  <2>2. ASSUME NEW k \in Kind
        PROVE  cache'[k] = NoEntry \/ cache'[k] = cache[k]
    BY <1>1, <2>1
  <2>3. Fresh(cache', gone)
    <3> SUFFICES ASSUME NEW k \in Kind, cache'[k].left > 0, cache'[k].role = "mapped"
                 PROVE  gone + cache'[k].left <= CacheUnits + DelayUnits
      BY DEF Fresh
    <3>1. cache'[k] # NoEntry
      BY NoEntryType
    <3> QED
      BY <2>1, <2>2, <3>1 DEF Fresh
  <2> QED
    BY <1>1, <2>1, <2>3, NoEntryType
<1> QED
  BY <1>2, AccessParts, AllAsked DEF CacheCleared

(* A restart of the broker forgets the cache and the provisioning. *)
LEMMA RestartKeeps ==
    ASSUME AccessInv, BrokerRestarts
    PROVE  AccessInv'
<1>0. \A r \in HumanReq : asked[r] \in Asked /\ Careful(asked[r], gone, resolver, rows)
  BY AccessParts
<1> DEFINE w(r) == Ended("failed", asked[r].late)
           f == [r \in HumanReq |-> IF asked[r].pc = "idle" THEN asked[r] ELSE w(r)]
<1>1. asked' = f
  BY DEF BrokerRestarts, Ended
<1>2. ASSUME NEW r \in HumanReq
      PROVE  /\ w(r) \in Asked /\ w(r).pc = "idle" /\ w(r).seen = "unanswered"
             /\ w(r).late = asked[r].late /\ w(r).answer = "failed"
  <2>1. asked[r].late \in BOOLEAN
    BY <1>0 DEF Asked
  <2> QED
    BY <2>1, EndedType
<1> HIDE DEF w
<1>3. ASSUME NEW r \in HumanReq
      PROVE  Careful(w(r), gone, resolver, rows)
  BY <1>0, <1>2 DEF Careful
<1>4. f \in [HumanReq -> Asked] /\ \A r \in HumanReq : Careful(f[r], gone, resolver, rows)
  BY <1>0, <1>2, <1>3
<1> HIDE DEF f
<1>5. /\ cache' = NoEntries
      /\ scope' = "absent" /\ faults' \in 0..MaxFaults /\ UNCHANGED <<resolver, member, gone, rows>>
  BY NoEntryType, AccessParts, FaultType DEF BrokerRestarts
<1> HIDE DEF BrokerRestarts
<1>6. cache' \in [Kind -> Entry] /\ Fresh(cache', gone')
  BY <1>5, NoEntryType DEF Fresh, NoEntries
<1> QED
  BY <1>1, <1>4, <1>5, <1>6, AccessParts, AllAsked

(* Time: what is cached or under way ages as fast as the loss does. *)
LEMMA TimeKeeps ==
    ASSUME AccessInv, TimePasses
    PROVE  AccessInv'
<1>0. /\ \A r \in HumanReq : asked[r] \in Asked /\ Careful(asked[r], gone, resolver, rows)
      /\ gone \in Nat /\ gone \in 0..(Horizon + 1) /\ member \in Membership
      /\ \A k \in Kind : /\ cache[k] \in Entry /\ cache[k].role \in Membership
                         /\ cache[k].left \in Nat /\ cache[k].left <= CacheUnits
      /\ cache \in [Kind -> Entry]
      /\ (member = "mapped" => gone = 0)
      /\ Fresh(cache, gone)
  BY AccessParts, HorizonType
<1>1. /\ gone' \in 0..(Horizon + 1) /\ gone' \in Nat /\ gone' <= gone + 1
      /\ gone > Horizon => gone' > Horizon
      /\ member' = "mapped" => gone' = 0
  BY <1>0, HorizonType DEF TimePasses
<1>2. /\ cache' \in [Kind -> Entry]
      /\ Fresh(cache', gone')
  <2> DEFINE e(k) == IF cache[k].left <= 1 THEN NoEntry
                     ELSE [cache[k] EXCEPT !.left = @ - 1]
  <2>1. cache' = [k \in Kind |-> e(k)]
    BY DEF TimePasses
  <2>2. ASSUME NEW k \in Kind
        PROVE  /\ e(k) \in Entry
               /\ (e(k).left > 0 /\ e(k).role = "mapped")
                     => gone' + e(k).left <= CacheUnits + DelayUnits
    <3>1. CASE cache[k].left <= 1
      BY <3>1, NoEntryType
    <3>2. CASE ~(cache[k].left <= 1)
      <4>1. e(k) = [cache[k] EXCEPT !.left = cache[k].left - 1]
        BY <3>2
      <4>2. cache[k].left - 1 \in 0..CacheUnits /\ cache[k].left > 0
        BY <1>0, <3>2, HorizonType
      <4>3. cache[k] \in Entry
        BY <1>0
      <4>4. /\ e(k) \in Entry
            /\ e(k).left = cache[k].left - 1 /\ e(k).role = cache[k].role
        BY <4>1, <4>2, <4>3 DEF Entry
      <4>5. cache[k].role = "mapped" => gone + cache[k].left <= CacheUnits + DelayUnits
        BY <1>0, <4>2 DEF Fresh
      <4> HIDE DEF e
      <4> QED
        BY <1>0, <1>1, <4>2, <4>4, <4>5, HorizonType
    <3> QED
      BY <3>1, <3>2
  <2> HIDE DEF e
  <2> QED
    BY <2>1, <2>2 DEF Fresh
<1> DEFINE w(r) == [asked[r] EXCEPT !.age = @ + 1]
           f == [r \in HumanReq |-> IF asked[r].pc = "lookup" THEN w(r) ELSE asked[r]]
<1>3. asked' = f
  BY DEF TimePasses
<1>4. ASSUME NEW r \in HumanReq
      PROVE  asked[r].age \in Nat /\ asked[r].age <= DelayUnits
  BY <1>0, HorizonType DEF Asked
<1>5. ASSUME NEW r \in HumanReq, asked[r].pc = "lookup"
      PROVE  /\ w(r) \in Asked /\ w(r).pc = "lookup" /\ w(r).seen = asked[r].seen
             /\ w(r).age = asked[r].age + 1
             /\ w(r).late = asked[r].late /\ w(r).answer = asked[r].answer
  <2>1. asked[r].age + 1 \in 0..DelayUnits
    BY <1>4, <1>5, HorizonType DEF TimePasses
  <2> QED
    BY <1>0, <1>5, <2>1 DEF Asked
<1> HIDE DEF w
<1>6. ASSUME NEW r \in HumanReq, asked[r].pc = "lookup"
      PROVE  Careful(w(r), gone', resolver, rows)
  BY <1>0, <1>1, <1>4, <1>5, <1>6, HorizonType DEF Careful
<1>7. ASSUME NEW r \in HumanReq, asked[r].pc # "lookup"
      PROVE  Careful(asked[r], gone', resolver, rows)
  BY <1>0, <1>1, <1>7, HorizonType DEF Careful
<1>8. f \in [HumanReq -> Asked] /\ \A r \in HumanReq : Careful(f[r], gone', resolver, rows)
  BY <1>0, <1>5, <1>6, <1>7
<1> HIDE DEF f
<1> QED
  BY <1>1, <1>2, <1>3, <1>8, AccessParts, AllAsked DEF TimePasses

(* Every step keeps the invariant. *)
LEMMA AccessNextKeeps ==
    ASSUME AccessInv, [AccessNext]_avars
    PROVE  AccessInv'
<1>1. CASE UNCHANGED avars
  BY <1>1 DEF AccessInv, AccessTypeOK, avars, Horizon
<1>2. CASE AccessNext
  BY <1>2, TokenKeeps, ClerkKeeps, ScopeKeeps, ProvisionedKeeps, MembershipKeeps,
     ClearedKeeps, RestartKeeps, TimeKeeps DEF AccessNext
<1> QED
  BY <1>1, <1>2

LEMMA AccessInvariant == AccessSpec => []AccessInv
BY AccessInitial, AccessNextKeeps, PTL DEF AccessSpec

(* A user who lost the membership or the role at Clerk is not served by    *)
(* any request that begins more than the life of a cached answer plus the  *)
(* longest delay of Clerk later, however answers overtake each other in    *)
(* the caches of the authenticators; without a resolver, later than a      *)
(* token lives.                                                            *)
THEOREM RemovedMemberIsRefused == AccessSpec => []RemovedMemberRefused
<1>1. AccessInv => RemovedMemberRefused
  BY DEF AccessInv, Careful, RemovedMemberRefused
<1> QED
  BY <1>1, AccessInvariant, PTL

(* ensureResourceScope shares one operation between the requests of a      *)
(* tenant, forgets one that failed, and none of the requests is served     *)
(* before the rows exist, across failures and restarts.                    *)
THEOREM ServedIsProvisioned == AccessSpec => []ServedMeansProvisioned
<1>1. AccessInv => ServedMeansProvisioned
  BY DEF AccessInv, Careful, ServedMeansProvisioned
<1> QED
  BY <1>1, AccessInvariant, PTL

===============================================================================
