------------------------------- MODULE Catalog -------------------------------
(***************************************************************************)
(* The control plane kept in PostgreSQL: projects, environments and        *)
(* services of one tenant, the service and native credentials issued for   *)
(* them, the calls of agents that use these, and the audit trail around    *)
(* every change (packages/broker/src/index.ts: runAuditedMutation and the  *)
(* routes that use it; packages/broker/src/store/postgres.ts).             *)
(*                                                                         *)
(* A request is a process: it reads and writes the store in several        *)
(* statements, and others run in between.  One statement, and one          *)
(* transaction under the advisory lock, is one step.                       *)
(***************************************************************************)
EXTENDS Naturals, FiniteSets

CONSTANTS
    Req, Project, Env, Service, Cred, None,
    HomeProject, HomeEnv,  \* the scope of the human principals
    MaxFailures            \* bound on statements that fail

ASSUME CatalogAssumption ==
    /\ HomeProject \in Project /\ HomeEnv \in Env
    /\ Service # {}
    /\ None \notin Cred
    /\ MaxFailures \in Nat

VARIABLES
    projects, envs, services,  \* rows: absent, active or archived
    creds,                     \* service_credentials and native_credentials
    reqs,                      \* the requests under way
    trail,                     \* audit_events of each request's last use
    changed,                   \* did the request change the catalog or a credential?
    failures

vars == <<projects, envs, services, creds, reqs, trail, changed, failures>>
catalog == <<projects, envs, services, creds>>

Row == {"absent", "active", "archived"}
NoCred == [state |-> "none", kind |-> "service", p |-> HomeProject, e |-> HomeEnv,
           s |-> CHOOSE s \in Service : TRUE]
CredRow == [state : {"none", "active", "revoked"}, kind : {"service", "native"},
            p : Project, e : Env, s : Service]

Creations == {"project.create", "environment.create", "service.create"}
Archivals == {"project.archive", "environment.archive", "service.archive"}
Issues    == {"service_credential.create", "native_credential.create"}
Revokes   == {"service_credential.revoke", "native_credential.revoke"}
Calls     == {"service.call", "native.call"}
Op == Creations \cup Archivals \cup Issues \cup Revokes \cup Calls

Idle == [pc |-> "idle", op |-> "project.create", human |-> TRUE, p |-> HomeProject,
         e |-> HomeEnv, s |-> NoCred.s, c |-> None, answer |-> "none", late |-> FALSE]

TypeOK ==
    /\ projects \in [Project -> Row]
    /\ envs \in [Project \X Env -> Row]
    /\ services \in [Project \X Service -> Row]
    /\ creds \in [Cred -> CredRow]
    /\ reqs \in [Req -> [pc : {"idle", "attempt", "operate", "lookup", "register", "issue",
                               "outcome", "serve", "reject"},
                         op : Op, human : BOOLEAN, p : Project, e : Env, s : Service,
                         c : Cred \cup {None}, late : BOOLEAN,
                         answer : {"none", "success", "denied", "error"}]]
    /\ trail \in [Req -> SUBSET {"attempt", "success", "denied", "error"}]
    /\ changed \in [Req -> BOOLEAN]
    /\ failures \in 0..MaxFailures

Init ==
    /\ projects = [p \in Project |-> IF p = HomeProject THEN "active" ELSE "absent"]
    /\ envs = [x \in Project \X Env |-> IF x = <<HomeProject, HomeEnv>>
                                        THEN "active" ELSE "absent"]
    /\ services = [x \in Project \X Service |-> "absent"]
    /\ creds = [c \in Cred |-> NoCred]
    /\ reqs = [r \in Req |-> Idle]
    /\ trail = [r \in Req |-> {}]
    /\ changed = [r \in Req |-> FALSE]
    /\ failures = 0

-----------------------------------------------------------------------------
\* service_credential routes ask for the role before they begin the audit.
RoleFirst(op) == op \in {"service_credential.create", "service_credential.revoke"}

\* The bound on issued credentials: there is one left for every request for one.
CredentialLeft ==
    Cardinality({q \in Req : reqs[q].pc # "idle" /\ reqs[q].op \in Issues})
        < Cardinality({c \in Cred : creds[c].state = "none"})

\* External: which request a client sends.  A revocation and a call name a
\* credential that was issued.
Arrive(r) ==
    /\ reqs[r].pc = "idle"
    /\ \E op \in Op, p \in Project, e \in Env, s \in Service, c \in Cred \cup {None},
          human \in BOOLEAN :
         LET native == op \in {"native.call", "native_credential.revoke"}
             here   == op \in {"native_credential.create", "native_credential.revoke"}
         IN
         /\ (op \in Revokes \cup Calls) <=> (c # None)
         /\ c # None => /\ creds[c].state # "none"
                        /\ creds[c].kind = IF native THEN "native" ELSE "service"
                        /\ p = creds[c].p /\ e = creds[c].e /\ s = creds[c].s
         /\ here => p = HomeProject /\ e = HomeEnv
         /\ op \in Calls => ~human
         /\ op \in Issues => CredentialLeft
         /\ reqs' = [reqs EXCEPT ![r] =
                [pc |-> IF op \in Calls THEN "operate"
                        ELSE IF RoleFirst(op) /\ ~human THEN "idle" ELSE "attempt",
                 op |-> op, human |-> human, p |-> p, e |-> e, s |-> s, c |-> c,
                 answer |-> IF RoleFirst(op) /\ ~human THEN "denied" ELSE "none",
                 late |-> c # None /\ creds[c].state = "revoked"]]
    /\ trail' = [trail EXCEPT ![r] = {}]
    /\ changed' = [changed EXCEPT ![r] = FALSE]
    /\ UNCHANGED <<catalog, failures>>

\* An event of the audit trail is stored.
Append(r, outcome) == trail' = [trail EXCEPT ![r] = @ \cup {outcome}]

\* A statement of the store fails; each step below has this way out.
Fails == failures < MaxFailures /\ failures' = failures + 1

\* Mutant: the operation begins whether or not the attempt is on record.
AttemptOptional(r) ==
    /\ reqs[r].pc = "attempt"
    /\ \/ /\ Append(r, "attempt")
          /\ reqs' = [reqs EXCEPT ![r].pc = "operate"]
          /\ UNCHANGED failures
       \/ /\ Fails
          /\ reqs' = [reqs EXCEPT ![r].pc = "operate"]
          /\ UNCHANGED trail
    /\ UNCHANGED <<catalog, changed>>

\* runAuditedMutation: no attempt on record, no operation.
Attempt(r) ==
    /\ reqs[r].pc = "attempt"
    /\ \/ /\ Append(r, "attempt")
          /\ reqs' = [reqs EXCEPT ![r].pc = "operate"]
          /\ UNCHANGED failures
       \/ /\ Fails
          /\ reqs' = [reqs EXCEPT ![r].pc = "idle", ![r].answer = "error"]
          /\ UNCHANGED trail
    /\ UNCHANGED <<catalog, changed>>

\* How an operation ends: with an answer that the audit still has to record.
Ends(r, answer) == reqs' = [reqs EXCEPT ![r].pc = "outcome", ![r].answer = answer]

\* requireAdmin inside the audited operation.
Refused(r) ==
    /\ reqs[r].pc = "operate" /\ reqs[r].op \notin Calls /\ ~reqs[r].human
    /\ Ends(r, "denied")
    /\ UNCHANGED <<catalog, trail, changed, failures>>

\* Any statement of the operation fails and leaves the store alone.
StatementFails(r) ==
    /\ reqs[r].pc \in {"operate", "lookup", "register", "issue"}
    /\ reqs[r].human
    /\ Fails
    /\ Ends(r, "error")
    /\ UNCHANGED <<catalog, trail, changed>>

\* The statements of the store.  Creating something that exists, archived or
\* not, makes it active; archiving takes along what is below, and revokes the
\* credentials of it, in one transaction.
InsertProject(p) ==
    /\ projects' = [projects EXCEPT ![p] = "active"]
    /\ UNCHANGED <<envs, services, creds>>

InsertEnvironment(p, e) ==
    /\ envs' = [envs EXCEPT ![<<p, e>>] = "active"]
    /\ UNCHANGED <<projects, services, creds>>

InsertService(p, s) ==
    /\ services' = [services EXCEPT ![<<p, s>>] = "active"]
    /\ UNCHANGED <<projects, envs, creds>>

InsertServiceCredential(p, e, s) ==
    /\ \E c \in Cred : /\ creds[c].state = "none"
                       /\ creds' = [creds EXCEPT ![c] = [state |-> "active", kind |-> "service",
                                                         p |-> p, e |-> e, s |-> s]]
    /\ UNCHANGED <<projects, envs, services>>

InsertNativeCredential(p, e, s) ==
    /\ \E c \in Cred : /\ creds[c].state = "none"
                       /\ creds' = [creds EXCEPT ![c] = [state |-> "active", kind |-> "native",
                                                         p |-> p, e |-> e, s |-> s]]
    /\ UNCHANGED <<projects, envs, services>>

Archived(rows, X) == [x \in DOMAIN rows |-> IF x \in X /\ rows[x] = "active"
                                            THEN "archived" ELSE rows[x]]
Revoked(C) == [c \in Cred |-> IF c \in C /\ creds[c].state = "active"
                              THEN [creds[c] EXCEPT !.state = "revoked"] ELSE creds[c]]

UpdateProject(p) ==
    /\ projects' = [projects EXCEPT ![p] = "archived"]
    /\ envs' = Archived(envs, {p} \X Env)
    /\ services' = Archived(services, {p} \X Service)
    /\ creds' = Revoked({c \in Cred : creds[c].p = p})

UpdateEnvironment(p, e) ==
    /\ envs' = [envs EXCEPT ![<<p, e>>] = "archived"]
    /\ creds' = Revoked({c \in Cred : creds[c].p = p /\ creds[c].e = e})
    /\ UNCHANGED <<projects, services>>

UpdateService(p, s) ==
    /\ services' = [services EXCEPT ![<<p, s>>] = "archived"]
    /\ creds' = Revoked({c \in Cred : creds[c].kind = "service" /\ creds[c].p = p
                                      /\ creds[c].s = s})
    /\ UNCHANGED <<projects, envs>>

UpdateServiceCredential(c) ==
    creds' = Revoked({c}) /\ UNCHANGED <<projects, envs, services>>

UpdateNativeCredential(c) ==
    creds' = Revoked({c}) /\ UNCHANGED <<projects, envs, services>>

-----------------------------------------------------------------------------
\* The routes.  A statement that finds its row changes the store and ends the
\* operation well; one that does not is an error of the caller.
Begins(r, op) == reqs[r].pc = "operate" /\ reqs[r].op = op /\ reqs[r].human

Effect(r, found, Statement) ==
    /\ IF found
       THEN Statement /\ changed' = [changed EXCEPT ![r] = TRUE] /\ Ends(r, "success")
       ELSE Ends(r, "error") /\ UNCHANGED <<catalog, changed>>
    /\ UNCHANGED <<trail, failures>>

\* The tenant of a principal always exists: the migrations insert the shared
\* one, ensureResourceScope a person's before the request is served, and no
\* statement deletes one.  So the insertion is never the 404 of its route.
CreateProject(r) ==
    /\ Begins(r, "project.create")
    /\ Effect(r, TRUE, InsertProject(reqs[r].p))

ArchiveProject(r) ==
    /\ Begins(r, "project.archive")
    /\ Effect(r, projects[reqs[r].p] = "active", UpdateProject(reqs[r].p))

CreateEnvironment(r) ==
    /\ Begins(r, "environment.create")
    /\ Effect(r, projects[reqs[r].p] = "active", InsertEnvironment(reqs[r].p, reqs[r].e))

ArchiveEnvironment(r) ==
    /\ Begins(r, "environment.archive")
    /\ Effect(r, envs[reqs[r].p, reqs[r].e] = "active", UpdateEnvironment(reqs[r].p, reqs[r].e))

CreateRegisteredService(r) ==
    /\ Begins(r, "service.create")
    /\ Effect(r, projects[reqs[r].p] = "active", InsertService(reqs[r].p, reqs[r].s))

ArchiveRegisteredService(r) ==
    /\ Begins(r, "service.archive")
    /\ Effect(r, services[reqs[r].p, reqs[r].s] = "active", UpdateService(reqs[r].p, reqs[r].s))

\* The creation of a service credential looks at the environment, then at the
\* service, registers it if need be, and inserts the credential.
CheckEnvironment(r) ==
    /\ Begins(r, "service_credential.create")
    /\ IF envs[reqs[r].p, reqs[r].e] # "active"
       THEN Ends(r, "error")
       ELSE reqs' = [reqs EXCEPT ![r].pc = "lookup"]
    /\ UNCHANGED <<catalog, trail, changed, failures>>

LookUpService(r) ==
    LET row == services[reqs[r].p, reqs[r].s] IN
    /\ reqs[r].pc = "lookup"
    /\ IF row = "archived" THEN Ends(r, "error")
       ELSE reqs' = [reqs EXCEPT ![r].pc = IF row = "absent" THEN "register" ELSE "issue"]
    /\ UNCHANGED <<catalog, trail, changed, failures>>

RegisterService(r) ==
    /\ reqs[r].pc = "register"
    /\ IF projects[reqs[r].p] # "active"
       THEN Ends(r, "error") /\ UNCHANGED <<catalog, changed>>
       ELSE /\ InsertService(reqs[r].p, reqs[r].s)
            /\ reqs' = [reqs EXCEPT ![r].pc = "issue"]
            /\ changed' = [changed EXCEPT ![r] = TRUE]
    /\ UNCHANGED <<trail, failures>>

IssueServiceCredential(r) ==
    /\ reqs[r].pc = "issue"
    /\ Effect(r, TRUE, InsertServiceCredential(reqs[r].p, reqs[r].e, reqs[r].s))

\* A native credential is inserted at once, into the scope of the principal.
IssueNativeCredential(r) ==
    /\ Begins(r, "native_credential.create")
    /\ Effect(r, TRUE, InsertNativeCredential(reqs[r].p, reqs[r].e, reqs[r].s))

RevokeServiceCredential(r) ==
    /\ Begins(r, "service_credential.revoke")
    /\ Effect(r, creds[reqs[r].c].state = "active", UpdateServiceCredential(reqs[r].c))

RevokeNativeCredential(r) ==
    /\ Begins(r, "native_credential.revoke")
    /\ Effect(r, creds[reqs[r].c].state = "active", UpdateNativeCredential(reqs[r].c))

\* The outcome is recorded.  When that fails for a success, the request ends as
\* an error like any other, and that is recorded instead; when that fails too,
\* nothing is (mutant: the failed record of a success is ignored).
OutcomeIgnoringFailure(r) ==
    LET a == reqs[r].answer IN
    /\ reqs[r].pc = "outcome"
    /\ \/ /\ Append(r, a)
          /\ reqs' = [reqs EXCEPT ![r].pc = "idle"]
          /\ UNCHANGED failures
       \/ /\ Fails
          /\ reqs' = [reqs EXCEPT ![r].pc = "idle"]
          /\ UNCHANGED trail
    /\ UNCHANGED <<catalog, changed>>

Outcome(r) ==
    LET a == reqs[r].answer IN
    /\ reqs[r].pc = "outcome"
    /\ \/ /\ Append(r, a)
          /\ reqs' = [reqs EXCEPT ![r].pc = "idle"]
          /\ UNCHANGED failures
       \/ /\ Fails
          /\ reqs' = IF a = "success" THEN [reqs EXCEPT ![r].answer = "error"]
                     ELSE [reqs EXCEPT ![r].pc = "idle", ![r].answer = "error"]
          /\ UNCHANGED trail
    /\ UNCHANGED <<catalog, changed>>

\* Whose key is accepted: the store is asked at every call (mutant: a key that
\* was revoked still is).
ValidEvenRevoked(c) == creds[c].state # "none"
ValidServiceKey(c) == creds[c].state = "active"
ValidNativeKey(c) ==
    /\ creds[c].state = "active"
    /\ projects[creds[c].p] = "active"
    /\ envs[creds[c].p, creds[c].e] = "active"

\* An agent's call: its key is looked up, and the handler runs later.
Authenticate(r) ==
    /\ reqs[r].pc = "operate" /\ reqs[r].op \in Calls
    /\ LET c == reqs[r].c
           valid == IF creds[c].kind = "native" THEN ValidNativeKey(c) ELSE ValidServiceKey(c)
       IN \/ /\ reqs' = IF valid THEN [reqs EXCEPT ![r].pc = "serve"]
                        ELSE [reqs EXCEPT ![r].pc = "idle", ![r].answer = "denied"]
             /\ UNCHANGED failures
          \/ /\ Fails
             /\ reqs' = [reqs EXCEPT ![r].pc = "idle", ![r].answer = "error"]
    /\ UNCHANGED <<catalog, trail, changed>>

\* The handler refuses a key that is not for the service, or not for the agent,
\* that the call names (denied), and a call that is malformed, about something
\* unknown or in conflict with the state (error); or it fails otherwise.
Serve(r) ==
    /\ reqs[r].pc = "serve"
    /\ \E answer \in {"success", "denied", "error"} :
         \E pc \in {"idle", "reject"} :
           /\ pc = "reject" => reqs[r].op = "native.call" /\ answer # "success"
           /\ (reqs[r].op = "native.call" /\ answer = "denied") => pc = "reject"
           /\ reqs' = [reqs EXCEPT ![r].pc = pc, ![r].answer = answer]
    /\ UNCHANGED <<catalog, trail, changed, failures>>

\* Calls of native agents are audited only when they are refused: as denied for
\* a 403, as an error for a 400, 404 or 409; other failures leave no trace.
AuditNativeRejection(r) ==
    /\ reqs[r].pc = "reject"
    /\ \/ /\ Append(r, reqs[r].answer)
          /\ reqs' = [reqs EXCEPT ![r].pc = "idle"]
          /\ UNCHANGED failures
       \/ /\ Fails
          /\ reqs' = [reqs EXCEPT ![r].pc = "idle", ![r].answer = "error"]
          /\ UNCHANGED trail
    /\ UNCHANGED <<catalog, changed>>

Operate(r) ==
    \/ CreateProject(r) \/ ArchiveProject(r)
    \/ CreateEnvironment(r) \/ ArchiveEnvironment(r)
    \/ CreateRegisteredService(r) \/ ArchiveRegisteredService(r)
    \/ CheckEnvironment(r) \/ LookUpService(r) \/ RegisterService(r)
    \/ IssueServiceCredential(r) \/ IssueNativeCredential(r)
    \/ RevokeServiceCredential(r) \/ RevokeNativeCredential(r)

Step(r) == Arrive(r) \/ Attempt(r) \/ Refused(r) \/ StatementFails(r) \/ Operate(r)
           \/ Outcome(r) \/ Authenticate(r) \/ Serve(r) \/ AuditNativeRejection(r)

Next == \E r \in Req : Step(r)
Spec == Init /\ [][Next]_vars

-----------------------------------------------------------------------------
(* Properties *)

\* No change of the catalog or of a credential happens unless the trail already
\* has the attempt, whatever the store does.
ChangesAreAudited == \A r \in Req : changed[r] => "attempt" \in trail[r]

\* What a caller was told is what the trail says of it;
\* a trail that could not be written leaves an attempt without an outcome, and
\* the caller with an error.
AnswerMatchesTrail ==
    \A r \in Req : reqs[r].pc = "idle" =>
        /\ trail[r] \cap {"success", "denied", "error"} \subseteq {reqs[r].answer}
        /\ (reqs[r].answer = "success" /\ reqs[r].op \notin Calls) => "success" \in trail[r]

\* A call that comes after its key was revoked is never served, by whichever of
\* the four ways it was revoked.
RevokedIsRefused ==
    \A r \in Req : (reqs[r].op \in Calls /\ reqs[r].late) => reqs[r].answer # "success"

\* No service credential works in an archived environment, or for an archived
\* service.  One can, if it is issued while the archival is under way.
ArchivedHasNoCredential ==
    \A c \in Cred : (creds[c].state = "active" /\ creds[c].kind = "service") =>
        /\ envs[creds[c].p, creds[c].e] = "active"
        /\ services[creds[c].p, creds[c].s] = "active"
=============================================================================
