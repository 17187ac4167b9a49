------------------------------- MODULE Access -------------------------------
(***************************************************************************)
(* How a person's request gets its principal and its scope: the Clerk      *)
(* authenticators with their membership caches (clerk-auth.ts), the        *)
(* preHandler of buildBroker, the remote MCP endpoint that authenticates   *)
(* a request and then calls the broker's own API with the same token, and  *)
(* ensureResourceScope, which provisions the tenant once per process and   *)
(* shares the operation between the requests that need it.                 *)
(*                                                                         *)
(* One user of one organization sends several requests at a time.  Time    *)
(* passes in units of which a cache keeps an answer for CacheUnits.        *)
(***************************************************************************)
EXTENDS Naturals, FiniteSets

CONSTANTS
    HumanReq,
    CacheUnits,   \* cacheTtlMs
    DelayUnits,   \* how long Clerk may take to answer
    TokenUnits,   \* how long Clerk lets a session token live
    MaxFaults     \* bound on failures of Clerk and of the store

ASSUME AccessAssumption ==
    /\ CacheUnits \in Nat \ {0} /\ DelayUnits \in Nat
    /\ TokenUnits \in Nat /\ MaxFaults \in Nat

VARIABLES
    resolver, \* was the broker started with a CLERK_SECRET_KEY, to ask Clerk with?
    member,   \* the membership as Clerk has it: its role, or none
    gone,     \* units since the user was last entitled, up to one more than can matter
    cache,    \* of each authenticator: the membership and the units it has left
    asked,    \* the requests
    scope,    \* provisionedScopes: is there an operation, and how did it end?
    rows,     \* the rows of tenant, project and environment exist
    faults

avars == <<resolver, member, gone, cache, asked, scope, rows, faults>>

\* A role that maps to a LiveProbe role, one that does not, no membership.
Membership == {"mapped", "unmapped", "none"}
Kind == {"session", "oauth"}
Entry == [left : 0..CacheUnits, role : Membership]
NoEntry == [left |-> 0, role |-> "none"]
NoEntries == [k \in Kind |-> NoEntry]

\* How long a membership may outlive its end: as long as a cached answer, with
\* the time it was under way; where Clerk is not asked, as long as a token.
HorizonOf(asksClerk) == IF asksClerk THEN CacheUnits + DelayUnits ELSE TokenUnits
Horizon == HorizonOf(resolver)

Quiet == [pc |-> "idle", by |-> "session", mcp |-> FALSE, seen |-> "unanswered",
          age |-> 0, late |-> FALSE, answer |-> "none"]

AccessTypeOK ==
    /\ resolver \in BOOLEAN
    /\ member \in Membership
    /\ gone \in 0..(Horizon + 1)
    /\ cache \in [Kind -> Entry]
    /\ asked \in [HumanReq -> [pc : {"idle", "token", "lookup", "member", "wait", "scope"},
                          by : Kind, mcp : BOOLEAN,
                          seen : Membership \cup {"unanswered"}, age : 0..DelayUnits,
                          late : BOOLEAN,
                          answer : {"none", "served", "refused", "failed"}]]
    /\ scope \in {"absent", "running", "done"}
    /\ rows \in BOOLEAN
    /\ faults \in 0..MaxFaults

AccessInit ==
    /\ resolver \in BOOLEAN
    /\ member = "mapped"
    /\ gone = 0
    /\ cache = NoEntries
    /\ asked = [r \in HumanReq |-> Quiet]
    /\ scope = "absent"
    /\ rows = FALSE
    /\ faults = 0

-----------------------------------------------------------------------------
Fault == faults < MaxFaults /\ faults' = faults + 1
Answer(r, a) == asked' = [asked EXCEPT ![r] = [Quiet EXCEPT !.answer = a,
                                                            !.late = asked[r].late]]

\* A request with a token of a Clerk session or of OAuth, the latter through
\* /mcp or not.  OAuth is not configured without the secret key.
Ask(r) ==
    /\ asked[r].pc = "idle"
    /\ \E by \in Kind, mcp \in BOOLEAN :
         /\ by = "oauth" => resolver
         /\ mcp => by = "oauth"
         /\ asked' = [asked EXCEPT ![r] =
                [Quiet EXCEPT !.pc = "token", !.by = by, !.mcp = mcp, !.late = gone > Horizon]]
    /\ UNCHANGED <<resolver, member, gone, cache, scope, rows, faults>>

\* The token is not valid, pending, or without an organization ...
RejectSession(r) ==
    /\ asked[r].pc = "token" /\ asked[r].by = "session"
    /\ Answer(r, "refused")
    /\ UNCHANGED <<resolver, member, gone, cache, scope, rows, faults>>

\* ... or, with OAuth, without the scope, or of another user than its claims.
RejectOAuth(r) ==
    /\ asked[r].pc = "token" /\ asked[r].by = "oauth"
    /\ Answer(r, "refused")
    /\ UNCHANGED <<resolver, member, gone, cache, scope, rows, faults>>

\* The role of a membership decides.
Judged(r, role) ==
    IF role = "mapped" THEN asked' = [asked EXCEPT ![r].pc = "member", ![r].age = 0,
                                                   ![r].seen = "unanswered"]
    ELSE Answer(r, "refused")

\* Without a resolver the role is the one the token carries, as it was when
\* Clerk issued it: no cache and no question.
ByToken(r) ==
    /\ asked[r].pc = "token" /\ ~resolver
    /\ \E role \in Membership : /\ role = "mapped" => gone <= TokenUnits
                                /\ Judged(r, role)
    /\ UNCHANGED <<resolver, member, gone, cache, scope, rows, faults>>

\* Mutant: an entry that is used lives longer.
CachedSliding(r) ==
    LET entry == cache[asked[r].by] IN
    /\ asked[r].pc = "token" /\ resolver /\ entry.left > 0
    /\ cache' = [cache EXCEPT ![asked[r].by].left = CacheUnits]
    /\ Judged(r, entry.role)
    /\ UNCHANGED <<resolver, member, gone, scope, rows, faults>>

\* The membership is in the cache of the token's authenticator ...
Cached(r) ==
    LET entry == cache[asked[r].by] IN
    /\ asked[r].pc = "token" /\ resolver /\ entry.left > 0
    /\ Judged(r, entry.role)
    /\ UNCHANGED <<resolver, member, gone, cache, scope, rows, faults>>

\* ... or Clerk is asked for it,
LookUp(r) ==
    /\ asked[r].pc = "token" /\ resolver /\ cache[asked[r].by].left = 0
    /\ asked' = [asked EXCEPT ![r].pc = "lookup"]
    /\ UNCHANGED <<resolver, member, gone, cache, scope, rows, faults>>

\* which looks (external) ...
ClerkLooks(r) ==
    /\ asked[r].pc = "lookup" /\ asked[r].seen = "unanswered"
    /\ asked' = [asked EXCEPT ![r].seen = member]
    /\ UNCHANGED <<resolver, member, gone, cache, scope, rows, faults>>

\* ... and whose answer, of whatever age, replaces the entry; failures do not.
ClerkAnswers(r) ==
    /\ asked[r].pc = "lookup" /\ asked[r].seen # "unanswered"
    /\ cache' = [cache EXCEPT ![asked[r].by] = [left |-> CacheUnits, role |-> asked[r].seen]]
    /\ Judged(r, asked[r].seen)
    /\ UNCHANGED <<resolver, member, gone, scope, rows, faults>>

ClerkFails(r) ==
    /\ asked[r].pc = "lookup" /\ Fault
    /\ Answer(r, "failed")
    /\ UNCHANGED <<resolver, member, gone, cache, scope, rows>>

\* Mutant: an operation under way counts as done.
ProvisionEager(r) ==
    /\ asked[r].pc = "member"
    /\ \/ /\ scope # "absent"
          /\ asked' = [asked EXCEPT ![r].pc = "scope"]
          /\ UNCHANGED scope
       \/ /\ scope = "absent"
          /\ scope' = "running"
          /\ asked' = [asked EXCEPT ![r].pc = "wait"]
    /\ UNCHANGED <<resolver, member, gone, cache, rows, faults>>

\* The scope of a person is provisioned before the request goes on: the first
\* request starts the operation, later ones wait for the same one.
Provision(r) ==
    /\ asked[r].pc = "member"
    /\ \/ /\ scope = "done"
          /\ asked' = [asked EXCEPT ![r].pc = "scope"]
          /\ UNCHANGED scope
       \/ /\ scope # "done"
          /\ scope' = "running"
          /\ asked' = [asked EXCEPT ![r].pc = "wait"]
    /\ UNCHANGED <<resolver, member, gone, cache, rows, faults>>

Waiting(pc, a) == [r \in HumanReq |-> IF asked[r].pc # "wait" THEN asked[r]
                                 ELSE IF pc = "scope" THEN [asked[r] EXCEPT !.pc = "scope"]
                                 ELSE [Quiet EXCEPT !.answer = a, !.late = asked[r].late]]

Provisioned ==
    /\ scope = "running"
    /\ scope' = "done" /\ rows' = TRUE
    /\ asked' = Waiting("scope", "none")
    /\ UNCHANGED <<resolver, member, gone, cache, faults>>

\* The transaction fails, for all that wait for it, and is forgotten.
ProvisionFails ==
    /\ scope = "running" /\ Fault
    /\ scope' = "absent"
    /\ asked' = Waiting("idle", "failed")
    /\ UNCHANGED <<resolver, member, gone, cache, rows>>

\* What /mcp has accepted begins again as a request to the API, with the same
\* token.
EnterMcp(r) ==
    /\ asked[r].pc = "scope" /\ asked[r].mcp
    /\ asked' = [asked EXCEPT ![r].pc = "token", ![r].mcp = FALSE]
    /\ UNCHANGED <<resolver, member, gone, cache, scope, rows, faults>>

\* The preHandler's last check: a request may name another environment than the
\* user's own (the LiveProbe-Environment header), and is refused when that is
\* not active at the time.
SelectScope(r) ==
    /\ asked[r].pc = "scope" /\ ~asked[r].mcp
    /\ \E a \in {"served", "refused"} : Answer(r, a)
    /\ UNCHANGED <<resolver, member, gone, cache, scope, rows, faults>>

-----------------------------------------------------------------------------
\* External: the organization's administrators.  A request that is under way when
\* the user is entitled again no longer counts as late.
MembershipChanges ==
    /\ member' \in Membership \ {member}
    /\ gone' = IF member' = "mapped" THEN 0 ELSE gone
    /\ asked' = [r \in HumanReq |-> IF member' = "mapped" /\ asked[r].pc # "idle"
                               THEN [asked[r] EXCEPT !.late = FALSE] ELSE asked[r]]
    /\ UNCHANGED <<resolver, cache, scope, rows, faults>>

\* The thousandth entry, of another user, empties one of the caches.
CacheCleared ==
    /\ \E k \in Kind : cache[k].left > 0 /\ cache' = [cache EXCEPT ![k] = NoEntry]
    /\ UNCHANGED <<resolver, member, gone, asked, scope, rows, faults>>

\* The broker restarts: caches are empty, requests fail, rows stay.
BrokerRestarts ==
    /\ Fault
    /\ cache' = NoEntries
    /\ scope' = "absent"
    /\ asked' = [r \in HumanReq |-> IF asked[r].pc = "idle" THEN asked[r]
                               ELSE [Quiet EXCEPT !.answer = "failed",
                                                  !.late = asked[r].late]]
    /\ UNCHANGED <<resolver, member, gone, rows>>

\* Time: no answer of Clerk is older than DelayUnits, and a request does not
\* linger over a tick between two steps that await nothing.
TimePasses ==
    /\ \A r \in HumanReq : /\ asked[r].pc \notin {"token", "member", "scope"}
                           /\ asked[r].pc = "lookup" => asked[r].age < DelayUnits
    /\ cache' = [k \in Kind |-> IF cache[k].left <= 1 THEN NoEntry
                               ELSE [cache[k] EXCEPT !.left = @ - 1]]
    /\ asked' = [r \in HumanReq |-> IF asked[r].pc = "lookup" THEN [asked[r] EXCEPT !.age = @ + 1]
                                    ELSE asked[r]]
    /\ gone' = IF member = "mapped" THEN 0
               ELSE IF gone > Horizon THEN gone ELSE gone + 1
    /\ UNCHANGED <<resolver, member, scope, rows, faults>>

AccessNext ==
    \/ \E r \in HumanReq :
         \/ Ask(r) \/ RejectSession(r) \/ RejectOAuth(r) \/ ByToken(r) \/ Cached(r)
         \/ LookUp(r) \/ ClerkLooks(r) \/ ClerkAnswers(r) \/ ClerkFails(r) \/ Provision(r)
         \/ EnterMcp(r) \/ SelectScope(r)
    \/ Provisioned \/ ProvisionFails
    \/ MembershipChanges \/ CacheCleared \/ BrokerRestarts
    \/ TimePasses

AccessSpec == AccessInit /\ [][AccessNext]_avars

-----------------------------------------------------------------------------
(* Properties *)

\* A user who has lost the membership, or the role, is refused from the time a
\* cached answer can live plus the time one can be under way, in spite of
\* answers that overtake each other; a broker that cannot ask Clerk
\* (resolveHumanRole without a resolver) refuses from the life of a token.
RemovedMemberRefused ==
    \A r \in HumanReq : asked[r].answer = "served" => ~asked[r].late

\* No request is served, or let through to the choice of an environment, before
\* the rows of its tenant exist.
ServedMeansProvisioned ==
    \A r \in HumanReq : (asked[r].answer = "served" \/ asked[r].pc = "scope") => rows
=============================================================================
