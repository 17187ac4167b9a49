------------------------------ MODULE McpTools ------------------------------
(***************************************************************************)
(* The MCP server (packages/mcp-server/src/index.ts): the tools an AI      *)
(* client calls, the one or two HTTP requests each makes to the broker     *)
(* with the timeout of BrokerClient, and the answer that tells the client  *)
(* what became of it.                                                      *)
(*                                                                         *)
(* The broker is external here: it handles a request once, or never, and   *)
(* does not notice that the caller has given up.  Time passes in units of  *)
(* which a request may take RequestTimeout.                                *)
(***************************************************************************)
EXTENDS Naturals, FiniteSets

CONSTANTS
    ToolCall,         \* calls that may be under way
    Tool,             \* the tools called
    RequestTimeout,   \* requestTimeoutMs
    MaxWait           \* the most wait_seconds may be

\* The tools that arm a probe, that wait for evidence, that read, that create,
\* and those whose answer has no content.
ProbeTools  == {"set_snapshot_probe", "set_log_probe", "set_counter_probe",
                "set_metric_probe"}
WaitTools   == {"get_probe_data"}
ReadTools   == {"list_services", "ping_broker", "get_safety_overview", "list_audit_events",
                "list_projects", "list_environments", "list_registered_services",
                "list_service_credentials", "list_probes"}
CreateTools == {"create_project", "create_environment", "register_service",
                "create_service_credential"}
RemoveTools == {"archive_project", "archive_environment", "archive_service",
                "revoke_service_credential", "remove_probe"}
Changing    == ProbeTools \cup CreateTools \cup RemoveTools

ASSUME McpAssumption ==
    /\ Tool # {} /\ Tool \subseteq Changing \cup WaitTools \cup ReadTools
    /\ RequestTimeout \in Nat \ {0} /\ MaxWait \in Nat

VARIABLES
    calls,      \* the tool calls, their request and their answer
    effects,    \* how often the broker carried out what a call asked for
    commit,     \* the commit the target service reports, if it does
    evidence    \* the probe has events

mvars == <<calls, effects, commit, evidence>>

Commit == {"c1", "c2", "unknown"}   \* unknown: reports, but without a commit
Codes == {"none", "ok", "invalid_tool_input", "unknown_service", "unauthorized", "forbidden",
          "not_found", "broker_error", "invalid_broker_response", "broker_unreachable"}
NoCall == [pc |-> "idle", tool |-> CHOOSE t \in Tool : TRUE, wait |-> 0, age |-> 0,
           step |-> "main", seen |-> "none", asked |-> FALSE, status |-> 0, hit |-> FALSE,
           gone |-> FALSE, code |-> "none", retryable |-> FALSE, mismatch |-> FALSE]

McpTypeOK ==
    /\ calls \in [ToolCall ->
         [pc : {"idle", "sent", "replied", "body"}, tool : Tool, wait : 0..MaxWait,
          age : 0..RequestTimeout, step : {"list", "main"}, seen : Commit \cup {"none"},
          asked : BOOLEAN, status : {0, 200, 204, 401, 403, 404, 500}, hit : BOOLEAN,
          gone : BOOLEAN, code : Codes, retryable : BOOLEAN, mismatch : BOOLEAN]]
    /\ effects \in [ToolCall -> 0..1]
    /\ commit \in Commit \cup {"none"}
    /\ evidence \in BOOLEAN

McpInit ==
    /\ calls = [c \in ToolCall |-> NoCall]
    /\ effects = [c \in ToolCall |-> 0]
    /\ commit \in {"none", "c1"}
    /\ evidence = FALSE

-----------------------------------------------------------------------------
\* toolErrorResult, for what the broker answered: 401 and 403 override the
\* broker's own code, others keep it or have none.
CodeOf(status) == CASE status = 401 -> "unauthorized" [] status = 403 -> "forbidden"
                    [] status = 404 -> "not_found"    [] OTHER -> "broker_error"

\* executeTool: the call ends with a result or an error, unless the client of
\* the HTTP transport has gone and nobody is told.
Settle(c, code, fault) ==
    calls' = [calls EXCEPT ![c] = [@ EXCEPT !.pc = "idle", !.hit = calls[c].hit \/ fault,
                                            !.code = IF calls[c].gone THEN "none" ELSE code,
                                            !.retryable = (code = "broker_unreachable")]]

\* fetchWithTimeout begins: a request and its timer.
Sending(call, step) == [call EXCEPT !.pc = "sent", !.step = step, !.age = 0, !.asked = TRUE,
                                    !.status = 0]

\* A probe tool lists the services first.
FirstStep(t) == IF t \in ProbeTools THEN "list" ELSE "main"

\* A tool is called.  A call whose request the broker may still carry out is not
\* used again.
Invoke(c) ==
    /\ calls[c].pc = "idle" /\ ~calls[c].asked
    /\ \E t \in Tool, wait \in 0..MaxWait :
         /\ t \notin WaitTools => wait = 0
         /\ calls' = [calls EXCEPT ![c] = Sending([NoCall EXCEPT !.tool = t, !.wait = wait],
                                                  FirstStep(t))]
    /\ effects' = [effects EXCEPT ![c] = 0]
    /\ UNCHANGED <<commit, evidence>>

\* Input that the schema of the tool refuses makes no request.
InvalidInput(c) ==
    /\ calls[c].pc = "idle" /\ ~calls[c].asked
    /\ \E t \in Tool : calls' = [calls EXCEPT ![c] = [NoCall EXCEPT !.tool = t,
                                                          !.code = "invalid_tool_input"]]
    /\ effects' = [effects EXCEPT ![c] = 0]
    /\ UNCHANGED <<commit, evidence>>

\* The status of a request that was carried out, the only one of a success
\* that requestNoContent accepts.
GoodStatus(t) == IF t \in RemoveTools THEN 204 ELSE 200

\* External: the broker takes up a request, whether or not somebody still waits
\* for the answer.  It refuses it, carries it out, or fails, possibly after
\* having carried it out; where no content is expected it may answer with some
\* other success.  A wait for evidence lasts until there is some or the time is
\* over.
Ready(c) == calls[c].tool \in WaitTools => evidence \/ calls[c].age >= calls[c].wait
Handle(c) ==
    LET q == calls[c]
        good == IF q.step = "list" THEN 200 ELSE GoodStatus(q.tool)
        odd  == IF good = 204 THEN {200, 500} ELSE {500}
    IN
    /\ q.asked
    /\ \E status \in {401, 403, 404} \cup odd \cup (IF Ready(c) THEN {good} ELSE {}) :
         /\ calls' = [calls EXCEPT ![c] =
                [q EXCEPT !.status = status, !.asked = FALSE,
                          !.pc = IF q.pc = "sent" THEN "replied" ELSE q.pc]]
         /\ \E n \in IF q.step = "list" \/ q.tool \notin Changing THEN {0}
                     ELSE IF status = good THEN {1} ELSE IF status \in odd THEN {0, 1} ELSE {0} :
              effects' = [effects EXCEPT ![c] = @ + n]
    /\ UNCHANGED <<commit, evidence>>

\* createWithCommitWarning: a service that does not report gets no probe.
Listed(c) ==
    /\ IF commit = "none" THEN Settle(c, "unknown_service", FALSE)
       ELSE calls' = [calls EXCEPT ![c] = Sending([@ EXCEPT !.seen = commit], "main")]
    /\ UNCHANGED <<effects, commit, evidence>>

\* The headers arrive, the timer is cleared.  A success where no content is
\* expected ends the call, for better or worse; anything else has content that is
\* read,
Headers(c) ==
    LET q == calls[c] IN
    /\ q.pc = "replied"
    /\ IF q.status \in {200, 204} /\ q.tool \in RemoveTools
       THEN Settle(c, IF q.status = GoodStatus(q.tool) THEN "ok" ELSE "broker_error", FALSE)
       ELSE calls' = [calls EXCEPT ![c].pc = "body"]
    /\ UNCHANGED <<effects, commit, evidence>>

\* Mutant: the status is not looked at.
BodyAnyStatus(c) ==
    LET q == calls[c] IN
    /\ q.pc = "body"
    /\ IF q.step = "list" THEN Listed(c)
       ELSE Settle(c, "ok", FALSE) /\ UNCHANGED <<effects, commit, evidence>>

\* ... and decides the call: an error, the services a probe tool asked for, or
\* the result, with a warning when the service reported another commit than the
\* client named.
Body(c) ==
    LET q == calls[c] IN
    /\ q.pc = "body"
    /\ IF q.status # 200
       THEN Settle(c, CodeOf(q.status), FALSE) /\ UNCHANGED <<effects, commit, evidence>>
       ELSE IF q.step = "list" THEN Listed(c)
       ELSE /\ calls' = [calls EXCEPT ![c] =
                   [q EXCEPT !.pc = "idle", !.code = IF q.gone THEN "none" ELSE "ok",
                             !.mismatch = q.seen \in Commit \ {"c1", "unknown"}]]
            /\ UNCHANGED <<effects, commit, evidence>>

-----------------------------------------------------------------------------
\* Faults: the connection is lost, before or after the broker has taken up the
\* request,
ConnectionLost(c) ==
    /\ calls[c].pc \in {"sent", "replied"}
    /\ Settle(c, "broker_unreachable", TRUE)
    /\ UNCHANGED <<effects, commit, evidence>>

\* or the content breaks off or is not what the protocol says.  A result is lost
\* then,
MalformedResult(c) ==
    /\ calls[c].pc = "body" /\ calls[c].status = 200
    /\ Settle(c, "invalid_broker_response", TRUE)
    /\ UNCHANGED <<effects, commit, evidence>>

\* an error keeps its status.
MalformedError(c) ==
    /\ calls[c].pc = "body" /\ calls[c].status # 200
    /\ Settle(c, CodeOf(calls[c].status), TRUE)
    /\ UNCHANGED <<effects, commit, evidence>>

\* Mutant: a timed-out request is reported like any other failure.
AbortSilently(c) ==
    /\ calls[c].pc \in {"sent", "replied"} /\ calls[c].age >= RequestTimeout
    /\ Settle(c, "broker_error", FALSE)
    /\ UNCHANGED <<effects, commit, evidence>>

\* Mutant: the timer is one unit short.
AbortEarly(c) ==
    /\ calls[c].pc \in {"sent", "replied"} /\ calls[c].age >= RequestTimeout - 1
    /\ Settle(c, "broker_unreachable", FALSE)
    /\ UNCHANGED <<effects, commit, evidence>>

\* Mutant: the timer starts once the broker has answered.
AbortReplied(c) ==
    /\ calls[c].pc = "replied" /\ calls[c].age >= RequestTimeout
    /\ Settle(c, "broker_unreachable", FALSE)
    /\ UNCHANGED <<effects, commit, evidence>>

\* The timer of fetchWithTimeout aborts the request at the client.
AbortRequest(c) ==
    /\ calls[c].pc \in {"sent", "replied"} /\ calls[c].age >= RequestTimeout
    /\ Settle(c, "broker_unreachable", FALSE)
    /\ UNCHANGED <<effects, commit, evidence>>

\* The client of the HTTP transport goes: transport and server close, the
\* request to the broker stays.
ClientGone(c) ==
    /\ calls[c].pc # "idle" /\ ~calls[c].gone
    /\ calls' = [calls EXCEPT ![c].gone = TRUE]
    /\ UNCHANGED <<effects, commit, evidence>>

\* External: the target service is deployed again, and the probe is hit.
Redeploy ==
    /\ commit' \in Commit \ {commit}
    /\ UNCHANGED <<calls, effects, evidence>>

ProbeHit ==
    /\ ~evidence /\ evidence' = TRUE
    /\ UNCHANGED <<calls, effects, commit>>

\* A unit of time.  What a request has to wait for longer than that, although
\* the broker could answer, counts as a fault.
McpTick ==
    /\ \E c \in ToolCall : calls[c].pc \in {"sent", "replied"}
    /\ \A c \in ToolCall : calls[c].pc \in {"sent", "replied"} => calls[c].age < RequestTimeout
    /\ calls' = [c \in ToolCall |->
                   IF calls[c].pc \in {"sent", "replied"}
                   THEN [calls[c] EXCEPT !.age = @ + 1,
                                         !.hit = @ \/ calls[c].pc = "replied" \/ Ready(c)]
                   ELSE calls[c]]
    /\ UNCHANGED <<effects, commit, evidence>>

CallStep(c) ==
    \/ Invoke(c) \/ InvalidInput(c) \/ Handle(c) \/ Headers(c) \/ Body(c)
    \/ ConnectionLost(c) \/ MalformedResult(c) \/ MalformedError(c) \/ AbortRequest(c)
    \/ ClientGone(c)

McpNext == (\E c \in ToolCall : CallStep(c)) \/ Redeploy \/ ProbeHit \/ McpTick
McpSpec == McpInit /\ [][McpNext]_mvars

\* Timers fire and headers that arrive are looked at.  The broker need not
\* answer, nor send all of the content whose headers have come.
McpFairness ==
    /\ WF_mvars(McpTick)
    /\ \A c \in ToolCall : WF_mvars(AbortRequest(c)) /\ WF_mvars(Headers(c))

-----------------------------------------------------------------------------
(* Properties *)

\* A call that ended well was carried out exactly once if it changes anything,
\* however its requests, its timer and the broker interleave.
DoneExactlyOnce ==
    \A c \in ToolCall : (calls[c].code = "ok" /\ calls[c].tool \in Changing) => effects[c] = 1

\* A request the broker may carry out after the client was told it failed is
\* one the client was told is worth a second look, as far as it was told anything.
LateEffectsAreRetryable ==
    \A c \in ToolCall : (calls[c].pc = "idle" /\ calls[c].asked) => calls[c].retryable

\* get_probe_data waits up to wait_seconds for the first event, as its description
\* says.  It does not where wait_seconds exceeds the timeout of the request.
WaitIsHonoured ==
    \A c \in ToolCall : calls[c].code = "broker_unreachable" => calls[c].hit

\* Every call is answered, whether or not the broker handles its requests, or it
\* is left reading content whose headers have come: fetchWithTimeout clears its
\* timer there, and nothing else bounds the reading.
EveryCallAnswered ==
    \A c \in ToolCall : (calls[c].pc # "idle") ~>
                            (calls[c].pc = "idle" \/ [](calls[c].pc = "body"))
=============================================================================
