---------------------------- MODULE EvidenceProofs ----------------------------
(***************************************************************************)
(* The two ends of a wait for evidence, for any number of requests, probes *)
(* and tool calls: no wakeup of the broker's long poll is lost (LongPoll), *)
(* and what a tool reports is what the broker did (McpTools).              *)
(***************************************************************************)
EXTENDS LongPoll, McpTools, TLAPS

-----------------------------------------------------------------------------
(* The tool calls *)

Call == [pc : {"idle", "sent", "replied", "body"}, tool : Tool, wait : 0..MaxWait,
         age : 0..RequestTimeout, step : {"list", "main"}, seen : Commit \cup {"none"},
         asked : BOOLEAN, status : {0, 200, 204, 401, 403, 404, 500}, hit : BOOLEAN,
         gone : BOOLEAN, code : Codes, retryable : BOOLEAN, mismatch : BOOLEAN]

(* A call q for which the broker has done something n times: as long as it *)
(* may still do something it has done nothing; once it has answered with   *)
(* the status of a success it has done it, and nobody is told of a success *)
(* before; content is not read where none is expected.                     *)
Accounted(q, n) ==
    /\ n \in 0..1
    /\ q.pc = "sent" => q.asked
    /\ q.pc \in {"replied", "body"} => ~q.asked
    /\ (q.pc = "idle" /\ q.asked) => q.retryable
    /\ q.pc # "idle" => q.code = "none"
    /\ (q.asked \/ q.step = "list") => n = 0
    /\ (q.asked \/ q.step = "list") => q.code # "ok"
    /\ (q.pc \in {"replied", "body"} /\ q.step = "list") => q.status # 204
    /\ (q.pc \in {"replied", "body"} /\ q.step = "main" /\ q.tool \in Changing
            /\ q.status = GoodStatus(q.tool)) => n = 1
    /\ (q.pc = "body" /\ q.tool \in RemoveTools) => q.status \notin {200, 204}
    /\ (q.code = "ok" /\ q.tool \in Changing) => n = 1

(* The inductive invariant of the tool calls. *)
McpInv ==
    /\ McpTypeOK
    /\ \A c \in ToolCall : Accounted(calls[c], effects[c])

(* A field of a call is replaced. *)
LEMMA PutPc ==
    ASSUME NEW q \in Call, NEW v \in {"idle", "sent", "replied", "body"}
    PROVE  [q EXCEPT !.pc = v] \in Call
BY DEF Call

LEMMA PutStep ==
    ASSUME NEW q \in Call, NEW v \in {"list", "main"}
    PROVE  [q EXCEPT !.step = v] \in Call
BY DEF Call

LEMMA PutAge ==
    ASSUME NEW q \in Call, NEW v \in 0..RequestTimeout
    PROVE  [q EXCEPT !.age = v] \in Call
BY DEF Call

LEMMA PutAsked ==
    ASSUME NEW q \in Call, NEW v \in BOOLEAN
    PROVE  [q EXCEPT !.asked = v] \in Call
BY DEF Call

LEMMA PutStatus ==
    ASSUME NEW q \in Call, NEW v \in {0, 200, 204, 401, 403, 404, 500}
    PROVE  [q EXCEPT !.status = v] \in Call
BY DEF Call

LEMMA PutSeen ==
    ASSUME NEW q \in Call, NEW v \in Commit \cup {"none"}
    PROVE  [q EXCEPT !.seen = v] \in Call
BY DEF Call

LEMMA PutHit ==
    ASSUME NEW q \in Call, NEW v \in BOOLEAN
    PROVE  [q EXCEPT !.hit = v] \in Call
BY DEF Call

LEMMA PutGone ==
    ASSUME NEW q \in Call, NEW v \in BOOLEAN
    PROVE  [q EXCEPT !.gone = v] \in Call
BY DEF Call

LEMMA PutCode ==
    ASSUME NEW q \in Call, NEW v \in Codes
    PROVE  [q EXCEPT !.code = v] \in Call
BY DEF Call

LEMMA PutRetryable ==
    ASSUME NEW q \in Call, NEW v \in BOOLEAN
    PROVE  [q EXCEPT !.retryable = v] \in Call
BY DEF Call

LEMMA PutMismatch ==
    ASSUME NEW q \in Call, NEW v \in BOOLEAN
    PROVE  [q EXCEPT !.mismatch = v] \in Call
BY DEF Call

LEMMA PutTool ==
    ASSUME NEW q \in Call, NEW v \in Tool
    PROVE  [q EXCEPT !.tool = v] \in Call
BY DEF Call

LEMMA PutWait ==
    ASSUME NEW q \in Call, NEW v \in 0..MaxWait
    PROVE  [q EXCEPT !.wait = v] \in Call
BY DEF Call

LEMMA NoCallType ==
    /\ NoCall \in Call
    /\ NoCall.pc = "idle" /\ ~NoCall.asked /\ NoCall.step = "main" /\ NoCall.code = "none"
<1>1. /\ 0 \in 0..MaxWait /\ 0 \in 0..RequestTimeout
      /\ (CHOOSE t \in Tool : TRUE) \in Tool
  BY McpAssumption
<1> QED
  BY <1>1 DEF NoCall, Call, Codes

LEMMA McpInitial == McpInit => McpInv
<1> SUFFICES ASSUME McpInit PROVE McpInv
  OBVIOUS
<1>1. McpTypeOK
  <2>1. calls \in [ToolCall -> Call] /\ effects \in [ToolCall -> 0..1]
    BY NoCallType DEF McpInit
  <2> QED
    BY <2>1 DEF McpInit, McpTypeOK, Call, Commit
<1>2. ASSUME NEW c \in ToolCall
      PROVE  Accounted(calls[c], effects[c])
  BY NoCallType DEF McpInit, Accounted
<1> QED
  BY <1>1, <1>2 DEF McpInv

(* What is known of the call that takes a step. *)
LEMMA OfCall ==
    ASSUME McpInv, NEW c \in ToolCall
    PROVE  calls[c] \in Call /\ Accounted(calls[c], effects[c]) /\ effects[c] \in 0..1
BY DEF McpInv, McpTypeOK, Call

(* One call moves. *)
LEMMA McpStep ==
    ASSUME McpInv, NEW c \in ToolCall, NEW q \in Call, NEW n \in 0..1,
           calls' = [calls EXCEPT ![c] = q], effects' = [effects EXCEPT ![c] = n],
           Accounted(q, n), UNCHANGED <<commit, evidence>>
    PROVE  McpInv'
<1>1. McpTypeOK'
  BY DEF McpInv, McpTypeOK, Call
<1>2. ASSUME NEW x \in ToolCall
      PROVE  Accounted(calls'[x], effects'[x])
  <2>1. CASE x = c
    <3>1. calls'[x] = q /\ effects'[x] = n
      BY <2>1 DEF McpInv, McpTypeOK
    <3> QED
      BY <3>1
  <2>2. CASE x # c
    <3>1. calls'[x] = calls[x] /\ effects'[x] = effects[x]
      BY <2>2 DEF McpInv, McpTypeOK
    <3> QED
      BY <3>1 DEF McpInv
  <2> QED
    BY <2>1, <2>2
<1> QED
  BY <1>1, <1>2 DEF McpInv

(* A call that moves without the broker. *)
LEMMA McpMove ==
    ASSUME McpInv, NEW c \in ToolCall, NEW q \in Call,
           calls' = [calls EXCEPT ![c] = q], UNCHANGED <<effects, commit, evidence>>,
           Accounted(q, effects[c])
    PROVE  McpInv'
<1>1. effects' = [effects EXCEPT ![c] = effects[c]] /\ effects[c] \in 0..1
  BY DEF McpInv, McpTypeOK
<1> QED
  BY <1>1, McpStep

(* executeTool: a call ends with a code, and a result only once the broker *)
(* has answered well; one whose request is still with the broker is        *)
(* reported as unreachable.                                                *)
LEMMA SettleKeeps ==
    ASSUME McpInv, NEW c \in ToolCall, NEW code \in Codes, NEW fault \in BOOLEAN,
           Settle(c, code, fault), UNCHANGED <<effects, commit, evidence>>,
           calls[c].pc # "idle",
           calls[c].pc = "sent" => code = "broker_unreachable",
           code = "ok" => /\ calls[c].pc = "replied" /\ calls[c].status = 204
                          /\ calls[c].status = GoodStatus(calls[c].tool)
    PROVE  McpInv'
<1> DEFINE hit == calls[c].hit \/ fault
           cd == IF calls[c].gone THEN "none" ELSE code
           rt == (code = "broker_unreachable")
           q == [calls[c] EXCEPT !.pc = "idle", !.hit = hit, !.code = cd, !.retryable = rt]
<1>1. calls' = [calls EXCEPT ![c] = q]
  BY DEF Settle
<1>2. hit \in BOOLEAN /\ rt \in BOOLEAN /\ cd \in Codes /\ (cd = "none" \/ cd = code)
      /\ (rt <=> code = "broker_unreachable")
  BY DEF Codes
<1>3. calls[c] \in Call /\ Accounted(calls[c], effects[c])
  BY OfCall
<1> HIDE DEF hit, cd, rt
<1>4. q \in Call
  <2> DEFINE q1 == [calls[c] EXCEPT !.pc = "idle"]
             q2 == [q1 EXCEPT !.hit = hit]
             q3 == [q2 EXCEPT !.code = cd]
  <2>0. q = [q3 EXCEPT !.retryable = rt]
    OBVIOUS
  <2>1. q1 \in Call
    BY <1>3, PutPc
  <2> HIDE DEF q, q1
  <2>2. q2 \in Call
    BY <1>2, <2>1, PutHit
  <2> HIDE DEF q2
  <2>3. q3 \in Call
    BY <1>2, <2>2, PutCode
  <2> HIDE DEF q3
  <2> QED
    BY <1>2, <2>0, <2>3, PutRetryable
<1>a. /\ q.pc = "idle" /\ q.asked = calls[c].asked /\ q.step = calls[c].step
      /\ q.code = cd /\ q.tool = calls[c].tool
  BY <1>2, <1>3 DEF Call
<1>b. q.retryable <=> rt
  BY <1>2, <1>3 DEF Call
<1> HIDE DEF q
<1>5. Accounted(q, effects[c])
  BY <1>2, <1>3, <1>a, <1>b DEF Accounted, Call
<1> QED
  BY <1>1, <1>4, <1>5, McpMove

(* fetchWithTimeout begins a request for a call of which the broker has    *)
(* done nothing yet.                                                       *)
LEMMA SendingType ==
    ASSUME NEW q \in Call, NEW step \in {"list", "main"}
    PROVE  /\ Sending(q, step) \in Call
           /\ Sending(q, step).pc = "sent" /\ Sending(q, step).asked
           /\ Sending(q, step).step = step /\ Sending(q, step).code = q.code
           /\ Sending(q, step).tool = q.tool
<1>0. 0 \in 0..RequestTimeout
  BY McpAssumption
<1> DEFINE q1 == [q EXCEPT !.pc = "sent"]
           q2 == [q1 EXCEPT !.step = step]
           q3 == [q2 EXCEPT !.age = 0]
           q4 == [q3 EXCEPT !.asked = TRUE]
           q5 == [q4 EXCEPT !.status = 0]
<1>1. Sending(q, step) = q5
  BY DEF Sending
<1>f. /\ q5.pc = "sent" /\ q5.asked /\ q5.step = step /\ q5.code = q.code /\ q5.tool = q.tool
  BY DEF Call
<1>2. q1 \in Call
  BY PutPc
<1> HIDE DEF q1
<1>3. q2 \in Call
  BY <1>2, PutStep
<1> HIDE DEF q2
<1>4. q3 \in Call
  BY <1>0, <1>3, PutAge
<1> HIDE DEF q3
<1>5. q4 \in Call
  BY <1>4, PutAsked
<1> HIDE DEF q4
<1>6. q5 \in Call
  BY <1>5, PutStatus, ZenonT(60)
<1> HIDE DEF q5
<1> QED
  BY <1>1, <1>6, <1>f

LEMMA ZeroOrOne == 0 \in 0..1 /\ 1 \in 0..1 /\ \A n \in 0..1 : n = 0 \/ n = 1
OBVIOUS

LEMMA InvokeKeeps ==
    ASSUME McpInv, NEW c \in ToolCall, Invoke(c) \/ InvalidInput(c)
    PROVE  McpInv'
<1>0. UNCHANGED <<commit, evidence>> /\ effects' = [effects EXCEPT ![c] = 0]
  BY DEF Invoke, InvalidInput
<1>1. CASE Invoke(c)
  <2>1. PICK t \in Tool, wait \in 0..MaxWait :
          calls' = [calls EXCEPT ![c] = Sending([NoCall EXCEPT !.tool = t, !.wait = wait],
                                                FirstStep(t))]
    BY <1>1 DEF Invoke
  <2> DEFINE n == [NoCall EXCEPT !.tool = t, !.wait = wait]
             q == Sending(n, FirstStep(t))
  <2>2. [NoCall EXCEPT !.tool = t] \in Call
    BY NoCallType, PutTool
  <2>3. n \in Call
    BY <2>2, PutWait
  <2>4. n.code = "none"
    BY NoCallType DEF Call
  <2> HIDE DEF n
  <2>5. FirstStep(t) \in {"list", "main"}
    BY DEF FirstStep
  <2>6. q \in Call /\ q.pc = "sent" /\ q.asked /\ q.code = "none"
    BY <2>3, <2>4, <2>5, SendingType
  <2>7. calls' = [calls EXCEPT ![c] = q]
    BY <2>1 DEF n
  <2> HIDE DEF q
  <2>8. Accounted(q, 0)
    BY <2>6 DEF Accounted
  <2> QED
    BY <1>0, <2>6, <2>7, <2>8, ZeroOrOne, McpStep
<1>2. CASE InvalidInput(c)
  <2>1. PICK t \in Tool :
          calls' = [calls EXCEPT ![c] = [NoCall EXCEPT !.tool = t, !.code = "invalid_tool_input"]]
    BY <1>2 DEF InvalidInput
  <2> DEFINE q == [NoCall EXCEPT !.tool = t, !.code = "invalid_tool_input"]
  <2>2. [NoCall EXCEPT !.tool = t] \in Call
    BY NoCallType, PutTool
  <2>3. q \in Call
    BY <2>2, PutCode DEF Codes
  <2>4. q.pc = "idle" /\ ~q.asked /\ q.step = "main" /\ q.code = "invalid_tool_input"
    BY NoCallType DEF Call
  <2>5. calls' = [calls EXCEPT ![c] = q]
    BY <2>1
  <2> HIDE DEF q
  <2>6. Accounted(q, 0)
    BY <2>4 DEF Accounted
  <2> QED
    BY <1>0, <2>3, <2>5, <2>6, ZeroOrOne, McpStep
<1> QED
  BY <1>1, <1>2

Handled(u, status, pc) == [u EXCEPT !.status = status, !.asked = FALSE, !.pc = pc]

LEMMA HandledType ==
    ASSUME NEW u \in Call, NEW status \in {0, 200, 204, 401, 403, 404, 500},
           NEW pc \in {"idle", "sent", "replied", "body"}
    PROVE  /\ Handled(u, status, pc) \in Call
           /\ Handled(u, status, pc).pc = pc /\ ~Handled(u, status, pc).asked
           /\ Handled(u, status, pc).status = status /\ Handled(u, status, pc).step = u.step
           /\ Handled(u, status, pc).tool = u.tool /\ Handled(u, status, pc).code = u.code
<1>1. [u EXCEPT !.status = status] \in Call
  BY DEF Call
<1>2. [u EXCEPT !.status = status, !.asked = FALSE] \in Call
  BY <1>1, PutAsked
<1>3. [u EXCEPT !.status = status, !.asked = FALSE, !.pc = pc] \in Call
  BY <1>2, PutPc
<1> QED
  BY <1>3 DEF Handled, Call

(* The broker takes up a request: it carries it out at most once, and has  *)
(* done so when it answers well.                                           *)
LEMMA HandleKeeps ==
    ASSUME McpInv, NEW c \in ToolCall, Handle(c)
    PROVE  McpInv'
<1> DEFINE u == calls[c]
           good == IF u.step = "list" THEN 200 ELSE GoodStatus(u.tool)
           odd == IF good = 204 THEN {200, 500} ELSE {500}
           ns(status) == IF u.step = "list" \/ u.tool \notin Changing THEN {0}
                         ELSE IF status = good THEN {1} ELSE IF status \in odd THEN {0, 1} ELSE {0}
           pc == IF u.pc = "sent" THEN "replied" ELSE u.pc
<1>0. u \in Call /\ Accounted(u, effects[c])
  BY OfCall
<1>1. good \in {200, 204} /\ (u.step = "list" => good = 200)
  BY DEF GoodStatus
<1>2. PICK status \in {401, 403, 404} \cup odd \cup (IF Ready(c) THEN {good} ELSE {}) :
         /\ calls' = [calls EXCEPT ![c] = [u EXCEPT !.status = status, !.asked = FALSE, !.pc = pc]]
         /\ \E n \in ns(status) : effects' = [effects EXCEPT ![c] = @ + n]
  BY DEF Handle
<1>3. PICK n \in ns(status) : effects' = [effects EXCEPT ![c] = effects[c] + n]
  BY <1>2
<1>4. u.asked /\ UNCHANGED <<commit, evidence>>
  BY DEF Handle
<1>5. effects[c] = 0
  BY <1>0, <1>4 DEF Accounted
<1>6. /\ status \in {0, 200, 204, 401, 403, 404, 500}
      /\ status = 204 => status = good
  BY <1>1, <1>2
<1>7. pc \in {"idle", "sent", "replied", "body"} /\ pc \notin {"sent", "body"}
  BY <1>0, <1>4 DEF Accounted, Call
<1>b. u.step = "main" => good = GoodStatus(u.tool)
  OBVIOUS
<1>8. /\ n \in 0..1
      /\ u.step = "list" => n = 0
      /\ (u.step = "main" /\ u.tool \in Changing /\ status = good) => n = 1
  BY <1>3
<1>a. u.pc = "idle" => pc = "idle"
  BY <1>7
<1> HIDE DEF pc, ns, good, odd
<1> DEFINE q == Handled(u, status, pc)
<1>9. q \in Call
  BY <1>0, <1>6, <1>7, HandledType
<1>10. /\ q.pc = pc /\ ~q.asked /\ q.status = status /\ q.step = u.step /\ q.tool = u.tool
       /\ q.code = u.code
  BY <1>0, <1>6, <1>7, HandledType
<1>11. effects' = [effects EXCEPT ![c] = n] /\ calls' = [calls EXCEPT ![c] = q]
  <2>1. effects[c] + n = n
    BY <1>5, <1>8
  <2> QED
    BY <1>2, <1>3, <2>1, ZenonT(60) DEF Handled
<1> HIDE DEF q, u
<1>12. u.code # "ok"
  BY <1>0, <1>4 DEF Accounted
<1>13. u.pc # "idle" => u.code = "none"
  BY <1>0 DEF Accounted
<1>14. Accounted(q, n)
  <2>1. (q.pc \in {"replied", "body"} /\ q.step = "list") => q.status # 204
    BY <1>1, <1>6, <1>10
  <2>2. (q.pc \in {"replied", "body"} /\ q.step = "main" /\ q.tool \in Changing
            /\ q.status = GoodStatus(q.tool)) => n = 1
    BY <1>8, <1>10, <1>b
  <2>3. q.pc # "idle" => q.code = "none"
    BY <1>a, <1>10, <1>13
  <2> QED
    BY <1>7, <1>8, <1>10, <1>12, <2>1, <2>2, <2>3 DEF Accounted
<1> QED
  BY <1>4, <1>8, <1>9, <1>11, <1>14, McpStep, ZenonT(60)


(* A probe tool has the list of services. *)
LEMMA ListedKeeps ==
    ASSUME McpInv, NEW c \in ToolCall, Listed(c), calls[c].pc = "body", calls[c].step = "list"
    PROVE  McpInv'
<1>0. calls[c] \in Call /\ Accounted(calls[c], effects[c]) /\ effects[c] \in 0..1
  BY OfCall
<1>1. UNCHANGED <<effects, commit, evidence>>
  BY DEF Listed
<1>2. CASE commit = "none"
  <2>1. Settle(c, "unknown_service", FALSE)
    BY <1>2 DEF Listed
  <2> QED
    BY <1>1, <2>1, SettleKeeps DEF Codes
<1>3. CASE commit # "none"
  <2> DEFINE n == [calls[c] EXCEPT !.seen = commit]
             q == Sending(n, "main")
  <2>1. calls' = [calls EXCEPT ![c] = q]
    BY <1>3 DEF Listed
  <2>2. commit \in Commit \cup {"none"}
    BY DEF McpInv, McpTypeOK
  <2>3. n \in Call
    BY <1>0, <2>2, PutSeen
  <2>4. n.code = calls[c].code
    BY <1>0 DEF Call
  <2> HIDE DEF n
  <2>5. q \in Call /\ q.pc = "sent" /\ q.asked /\ q.code = n.code
    BY <2>3, SendingType
  <2> HIDE DEF q
  <2>6. effects[c] = 0 /\ calls[c].code = "none"
    BY <1>0 DEF Accounted
  <2>7. Accounted(q, effects[c])
    BY <2>4, <2>5, <2>6 DEF Accounted
  <2> QED
    BY <1>1, <2>1, <2>5, <2>7, McpMove
<1> QED
  BY <1>2, <1>3

LEMMA CodeOfType == \A status : CodeOf(status) \in Codes \ {"ok", "none"}
BY DEF CodeOf, Codes

(* The answer of the broker is read. *)
LEMMA AnswerRead ==
    ASSUME McpInv, NEW c \in ToolCall, Headers(c) \/ Body(c)
    PROVE  McpInv'
<1>0. calls[c] \in Call /\ Accounted(calls[c], effects[c]) /\ effects[c] \in 0..1
  BY OfCall
<1>1. CASE Headers(c)
  <2>1. calls[c].pc = "replied" /\ UNCHANGED <<effects, commit, evidence>>
    BY <1>1 DEF Headers
  <2>2. CASE calls[c].status \in {200, 204} /\ calls[c].tool \in RemoveTools
    <3> DEFINE code == IF calls[c].status = GoodStatus(calls[c].tool) THEN "ok" ELSE "broker_error"
    <3>1. Settle(c, code, FALSE)
      BY <1>1, <2>2 DEF Headers
    <3>2. code \in Codes /\ GoodStatus(calls[c].tool) = 204
      BY <2>2 DEF Codes, GoodStatus
    <3>3. code = "ok" => calls[c].status = GoodStatus(calls[c].tool)
      OBVIOUS
    <3> HIDE DEF code
    <3> QED
      BY <2>1, <3>1, <3>2, <3>3, SettleKeeps
  <2>3. CASE ~(calls[c].status \in {200, 204} /\ calls[c].tool \in RemoveTools)
    <3> DEFINE q == [calls[c] EXCEPT !.pc = "body"]
    <3>1. calls' = [calls EXCEPT ![c] = q]
      BY <1>1, <2>3 DEF Headers
    <3>2. q \in Call
      BY <1>0, PutPc
    <3>3. /\ q.pc = "body" /\ q.asked = calls[c].asked /\ q.step = calls[c].step
          /\ q.status = calls[c].status /\ q.tool = calls[c].tool /\ q.code = calls[c].code
      BY <1>0 DEF Call
    <3> HIDE DEF q
    <3>4. Accounted(q, effects[c])
      BY <1>0, <2>1, <2>3, <3>3 DEF Accounted
    <3> QED
      BY <2>1, <3>1, <3>2, <3>4, McpMove
  <2> QED
    BY <2>2, <2>3
<1>2. CASE Body(c)
  <2>1. calls[c].pc = "body"
    BY <1>2 DEF Body
  <2>2. CASE calls[c].status # 200
    <3>1. Settle(c, CodeOf(calls[c].status), FALSE) /\ UNCHANGED <<effects, commit, evidence>>
      BY <1>2, <2>2 DEF Body
    <3> QED
      BY <2>1, <3>1, CodeOfType, SettleKeeps
  <2>3. CASE calls[c].status = 200 /\ calls[c].step = "list"
    <3>1. Listed(c)
      BY <1>2, <2>3 DEF Body
    <3> QED
      BY <2>1, <2>3, <3>1, ListedKeeps
  <2>4. CASE calls[c].status = 200 /\ calls[c].step # "list"
    <3> DEFINE cd == IF calls[c].gone THEN "none" ELSE "ok"
               mm == calls[c].seen \in Commit \ {"c1", "unknown"}
               q == [calls[c] EXCEPT !.pc = "idle", !.code = cd, !.mismatch = mm]
    <3>1. calls' = [calls EXCEPT ![c] = q] /\ UNCHANGED <<effects, commit, evidence>>
      BY <1>2, <2>4 DEF Body
    <3>2. cd \in Codes /\ mm \in BOOLEAN
      BY DEF Codes
    <3> HIDE DEF cd, mm
    <3>3. [calls[c] EXCEPT !.pc = "idle"] \in Call
      BY <1>0, PutPc
    <3>4. [calls[c] EXCEPT !.pc = "idle", !.code = cd] \in Call
      BY <3>2, <3>3, PutCode
    <3>5. q \in Call
      BY <3>2, <3>4, PutMismatch
    <3>6. /\ q.pc = "idle" /\ q.asked = calls[c].asked /\ q.step = calls[c].step
          /\ q.tool = calls[c].tool
      BY <1>0 DEF Call
    <3> HIDE DEF q
    <3>7. ~q.asked /\ q.step = "main" /\ (q.tool \in Changing => effects[c] = 1)
      BY <1>0, <2>1, <2>4, <3>6 DEF Accounted, Call, GoodStatus
    <3>8. Accounted(q, effects[c])
      BY <1>0, <3>6, <3>7 DEF Accounted
    <3> QED
      BY <3>1, <3>5, <3>8, McpMove
  <2> QED
    BY <2>2, <2>3, <2>4
<1> QED
  BY <1>1, <1>2

(* Faults, timeouts and clients that go. *)
LEMMA GivesUpKeeps ==
    ASSUME McpInv, NEW c \in ToolCall,
           \/ ConnectionLost(c) \/ MalformedResult(c) \/ MalformedError(c) \/ AbortRequest(c)
    PROVE  McpInv'
<1>1. CASE ConnectionLost(c) \/ AbortRequest(c)
  BY <1>1, SettleKeeps DEF ConnectionLost, AbortRequest, Codes
<1>2. CASE MalformedResult(c)
  BY <1>2, SettleKeeps DEF MalformedResult, Codes
<1>3. CASE MalformedError(c)
  BY <1>3, CodeOfType, SettleKeeps DEF MalformedError
<1> QED
  BY <1>1, <1>2, <1>3

LEMMA ClientGoneKeeps ==
    ASSUME McpInv, NEW c \in ToolCall, ClientGone(c)
    PROVE  McpInv'
<1> DEFINE q == [calls[c] EXCEPT !.gone = TRUE]
<1>0. calls[c] \in Call /\ Accounted(calls[c], effects[c])
  BY OfCall
<1>1. calls' = [calls EXCEPT ![c] = q] /\ UNCHANGED <<effects, commit, evidence>>
  BY DEF ClientGone
<1>2. q \in Call
  BY <1>0, PutGone
<1>3. /\ q.pc = calls[c].pc /\ q.asked = calls[c].asked /\ q.step = calls[c].step
      /\ q.status = calls[c].status /\ q.tool = calls[c].tool /\ q.code = calls[c].code
      /\ q.retryable = calls[c].retryable
  BY <1>0 DEF Call
<1> HIDE DEF q
<1>4. Accounted(q, effects[c])
  BY <1>0, <1>3 DEF Accounted
<1> QED
  BY <1>1, <1>2, <1>4, McpMove

(* A unit of time. *)
LEMMA TickKeeps ==
    ASSUME McpInv, McpTick
    PROVE  McpInv'
<1> DEFINE hit(c) == calls[c].hit \/ calls[c].pc = "replied" \/ Ready(c)
           w(c) == [calls[c] EXCEPT !.age = calls[c].age + 1, !.hit = hit(c)]
           f == [c \in ToolCall |-> IF calls[c].pc \in {"sent", "replied"} THEN w(c) ELSE calls[c]]
<1>0. \A c \in ToolCall : calls[c] \in Call /\ Accounted(calls[c], effects[c])
  BY OfCall
<1>1. calls' = f /\ UNCHANGED <<effects, commit, evidence>>
  BY DEF McpTick
<1>2. ASSUME NEW c \in ToolCall, calls[c].pc \in {"sent", "replied"}
      PROVE  w(c) \in Call /\ Accounted(w(c), effects[c])
  <2>1. calls[c].age + 1 \in 0..RequestTimeout
    <3>1. calls[c].age < RequestTimeout
      BY <1>2 DEF McpTick
    <3>2. calls[c].age \in 0..RequestTimeout
      BY <1>0 DEF Call
    <3> QED
      BY <3>1, <3>2, McpAssumption
  <2>2. hit(c) \in BOOLEAN
    OBVIOUS
  <2> HIDE DEF hit
  <2>3. [calls[c] EXCEPT !.age = calls[c].age + 1] \in Call
    BY <1>0, <2>1, PutAge
  <2>4. w(c) \in Call
    BY <2>2, <2>3, PutHit
  <2>5. /\ w(c).pc = calls[c].pc /\ w(c).asked = calls[c].asked /\ w(c).step = calls[c].step
        /\ w(c).status = calls[c].status /\ w(c).tool = calls[c].tool
        /\ w(c).code = calls[c].code /\ w(c).retryable = calls[c].retryable
    BY <1>0 DEF Call
  <2> HIDE DEF w
  <2>6. Accounted(w(c), effects[c])
    BY <1>0, <2>5 DEF Accounted
  <2> QED
    BY <2>4, <2>6
<1> HIDE DEF w
<1>3. f \in [ToolCall -> Call] /\ \A c \in ToolCall : Accounted(f[c], effects[c])
  BY <1>0, <1>2
<1> HIDE DEF f
<1>4. McpTypeOK'
  BY <1>1, <1>3 DEF McpInv, McpTypeOK, Call
<1> QED
  BY <1>1, <1>3, <1>4 DEF McpInv

LEMMA McpNextKeeps ==
    ASSUME McpInv, [McpNext]_mvars
    PROVE  McpInv'
<1>1. CASE UNCHANGED mvars
  BY <1>1 DEF McpInv, McpTypeOK, mvars
<1>2. ASSUME NEW c \in ToolCall, CallStep(c)
      PROVE  McpInv'
  BY <1>2, InvokeKeeps, HandleKeeps, AnswerRead, GivesUpKeeps, ClientGoneKeeps DEF CallStep
<1>3. CASE Redeploy
  BY <1>3 DEF Redeploy, McpInv, McpTypeOK
<1>4. CASE ProbeHit
  BY <1>4 DEF ProbeHit, McpInv, McpTypeOK
<1>5. CASE McpTick
  BY <1>5, TickKeeps
<1> QED
  BY <1>1, <1>2, <1>3, <1>4, <1>5 DEF McpNext

LEMMA McpInvariant == McpSpec => []McpInv
BY McpInitial, McpNextKeeps, PTL DEF McpSpec

(* The calls keep their shape: no request is older than its timeout and    *)
(* the broker carries out nothing twice for one call.                      *)
THEOREM McpTypeCorrect == McpSpec => []McpTypeOK
<1>1. McpInv => McpTypeOK
  BY DEF McpInv
<1> QED
  BY <1>1, McpInvariant, PTL

(* executeTool and createWithCommitWarning: a tool that reports a result   *)
(* had its change carried out by the broker exactly once, whatever         *)
(* connections, timeouts and late answers do.                              *)
THEOREM ReportedIsDoneOnce == McpSpec => []DoneExactlyOnce
<1>1. McpInv => DoneExactlyOnce
  BY DEF McpInv, Accounted, DoneExactlyOnce
<1> QED
  BY <1>1, McpInvariant, PTL

(* fetchWithTimeout gives up at the client only: whenever the broker may   *)
(* still carry out the request of a call that has ended, its caller was    *)
(* told that the failure is retryable.                                     *)
THEOREM LateEffectIsRetryable == McpSpec => []LateEffectsAreRetryable
<1>1. McpInv => LateEffectsAreRetryable
  BY DEF McpInv, Accounted, LateEffectsAreRetryable
<1> QED
  BY <1>1, McpInvariant, PTL


-----------------------------------------------------------------------------
(* The long poll *)

(* `listeners` fits the requests that wait: each is found under its probe, *)
(* a Set is kept only while somebody waits in it, and a Set belongs to the *)
(* probe of the request that created it, so no two keys share one.         *)
Fits(l) ==
    /\ \A r \in Request : l.stage[r] = "waiting" =>
          l.listeners[l.target[r]] = l.set[r] /\ l.set[r] # NoSet
    /\ \A p \in Probe : l.listeners[p] # NoSet =>
          /\ l.target[l.listeners[p]] = p
          /\ \E r \in Request : l.stage[r] = "waiting" /\ l.target[r] = p

(* Who waits in m waited in l already, for the same probe. *)
FewerWait(l, m) ==
    /\ m.target = l.target
    /\ \A r \in Request : m.stage[r] = "waiting" => l.stage[r] = "waiting"

(* finish, for a set of requests that wait. *)
LEMMA FinishFits ==
    ASSUME NEW l \in Polls, Fits(l), NEW R \in SUBSET Request,
           \A r \in R : l.stage[r] = "waiting"
    PROVE  /\ Finish(l, R) \in Polls
           /\ Fits(Finish(l, R))
           /\ FewerWait(l, Finish(l, R))
           /\ \A r \in R : Finish(l, R).stage[r] # "waiting"
           /\ \A r \in Request \ R : Finish(l, R).stage[r] = l.stage[r]
<1> DEFINE m == Finish(l, R)
           gone(p) == \E r \in R : l.target[r] = p /\ Members(l, l.set[r]) \subseteq R
<1>1. /\ l.stage \in [Request -> Stages] /\ l.target \in [Request -> Probe]
      /\ l.set \in [Request -> Request \cup {NoSet}]
      /\ l.listeners \in [Probe -> Request \cup {NoSet}]
  BY DEF Polls
<1>2. /\ m.stage = [r \in Request |-> IF r \in R THEN "resumed" ELSE l.stage[r]]
      /\ m.listeners = [p \in Probe |-> IF gone(p) THEN NoSet ELSE l.listeners[p]]
      /\ m.target = l.target /\ m.set = l.set
  BY DEF Finish, Polls
<1>3. m \in Polls
  <2>1. m.stage \in [Request -> Stages]
    BY <1>1, <1>2 DEF Stages
  <2>2. m.listeners \in [Probe -> Request \cup {NoSet}]
    BY <1>1, <1>2
  <2>3. m = [l EXCEPT !.stage = m.stage, !.listeners = m.listeners]
    BY DEF Finish, Polls
  <2> HIDE DEF m
  <2> QED
    BY <2>1, <2>2, <2>3 DEF Polls
<1> HIDE DEF m
<1>4. ASSUME NEW r \in Request, m.stage[r] = "waiting"
      PROVE  r \notin R /\ l.stage[r] = "waiting"
  BY <1>1, <1>2, <1>4
<1>5. ASSUME NEW r \in Request, m.stage[r] = "waiting"
      PROVE  m.listeners[m.target[r]] = m.set[r] /\ m.set[r] # NoSet
  <2>1. r \notin R /\ l.stage[r] = "waiting"
    BY <1>4, <1>5
  <2>2. l.listeners[l.target[r]] = l.set[r] /\ l.set[r] # NoSet
    BY <2>1 DEF Fits
  <2>3. ~gone(l.target[r])
    <3> SUFFICES ASSUME NEW x \in R, l.target[x] = l.target[r], Members(l, l.set[x]) \subseteq R
                 PROVE  FALSE
      OBVIOUS
    <3>1. l.set[x] = l.set[r]
      BY <2>2 DEF Fits
    <3>2. r \in Members(l, l.set[x])
      BY <2>1, <3>1 DEF Members
    <3> QED
      BY <2>1, <3>2
  <2> QED
    BY <1>1, <1>2, <2>2, <2>3
<1>6. ASSUME NEW p \in Probe, m.listeners[p] # NoSet
      PROVE  /\ m.target[m.listeners[p]] = p
             /\ \E r \in Request : m.stage[r] = "waiting" /\ m.target[r] = p
  <2>1. ~gone(p) /\ m.listeners[p] = l.listeners[p] /\ l.listeners[p] # NoSet
    BY <1>2, <1>6
  <2>2. l.target[l.listeners[p]] = p
    BY <2>1 DEF Fits
  <2>3. PICK x \in Request : l.stage[x] = "waiting" /\ l.target[x] = p
    BY <2>1 DEF Fits
  <2>4. l.set[x] = l.listeners[p]
    BY <2>3 DEF Fits
  <2>5. PICK y \in Members(l, l.set[x]) : y \notin R
    <3>1. CASE x \in R
      BY <2>1, <2>3, <3>1
    <3>2. CASE x \notin R
      BY <2>3, <3>2 DEF Members
    <3> QED
      BY <3>1, <3>2
  <2>6. y \in Request /\ l.stage[y] = "waiting" /\ l.set[y] = l.listeners[p]
    BY <2>4, <2>5 DEF Members
  <2>7. l.listeners[l.target[y]] = l.listeners[p] /\ l.target[y] \in Probe
    BY <1>1, <2>6 DEF Fits
  <2>8. l.target[y] = p
    BY <2>1, <2>2, <2>7 DEF Fits
  <2>9. m.stage[y] = "waiting" /\ m.target[y] = p
    BY <1>1, <1>2, <2>5, <2>6, <2>8
  <2> QED
    BY <1>2, <2>1, <2>2, <2>6, <2>9
<1>7. Fits(m)
  BY <1>5, <1>6 DEF Fits
<1>8. FewerWait(l, m)
  BY <1>2, <1>4 DEF FewerWait
<1>9. /\ \A r \in R : m.stage[r] # "waiting"
      /\ \A r \in Request \ R : m.stage[r] = l.stage[r]
  BY <1>2
<1> QED
  BY <1>3, <1>7, <1>8, <1>9 DEF m

(* signalActivity reaches everybody who waits for one of the probes. *)
LEMMA SignalFits ==
    ASSUME NEW l \in Polls, Fits(l), NEW P \in SUBSET Probe
    PROVE  /\ Signal(l, P) \in Polls
           /\ Fits(Signal(l, P))
           /\ FewerWait(l, Signal(l, P))
           /\ \A r \in Request : Signal(l, P).stage[r] = "waiting" => l.target[r] \notin P
           /\ \A r \in Request : l.stage[r] # "waiting" => Signal(l, P).stage[r] = l.stage[r]
<1> DEFINE R == UNION {Members(l, l.listeners[p]) : p \in {q \in P : l.listeners[q] # NoSet}}
<1>1. R \in SUBSET Request /\ \A r \in R : l.stage[r] = "waiting"
  BY DEF Members
<1>2. Signal(l, P) = Finish(l, R)
  BY DEF Signal
<1>3. ASSUME NEW r \in Request, l.stage[r] = "waiting", l.target[r] \in P
      PROVE  r \in R
  <2>1. l.listeners[l.target[r]] = l.set[r] /\ l.set[r] # NoSet
    BY <1>3 DEF Fits
  <2>2. r \in Members(l, l.listeners[l.target[r]])
    BY <1>3, <2>1 DEF Members
  <2> QED
    BY <1>3, <2>1, <2>2
<1> HIDE DEF R
<1>4. /\ Finish(l, R) \in Polls /\ Fits(Finish(l, R)) /\ FewerWait(l, Finish(l, R))
      /\ \A r \in R : Finish(l, R).stage[r] # "waiting"
      /\ \A r \in Request \ R : Finish(l, R).stage[r] = l.stage[r]
  BY <1>1, FinishFits
<1> QED
  BY <1>1, <1>2, <1>3, <1>4 DEF FewerWait

(* registerActivityListener, before it looks at the ring. *)
LEMMA RegisterFits ==
    ASSUME NEW l \in Polls, Fits(l), NEW b, NEW r \in Request, l.stage[r] # "waiting"
    PROVE  /\ Register(l, b, r) \in Polls
           /\ Fits(Register(l, b, r))
           /\ Register(l, b, r).target = l.target
           /\ Register(l, b, r).stage = [l.stage EXCEPT ![r] = "waiting"]
<1> DEFINE m == Register(l, b, r)
           p == l.target[r]
           s == IF l.listeners[p] = NoSet THEN r ELSE l.listeners[p]
<1>1. /\ l.stage \in [Request -> Stages] /\ l.target \in [Request -> Probe]
      /\ l.set \in [Request -> Request \cup {NoSet}]
      /\ l.listeners \in [Probe -> Request \cup {NoSet}]
      /\ p \in Probe
  BY DEF Polls
<1>2. /\ m.stage = [l.stage EXCEPT ![r] = "waiting"]
      /\ m.set = [l.set EXCEPT ![r] = s]
      /\ m.listeners = [l.listeners EXCEPT ![p] = s]
      /\ m.target = l.target
  BY DEF Register, Polls
<1>3. s \in Request /\ s # NoSet
  BY <1>1, NoSetType
<1>4. l.target[s] = p
  BY <1>1 DEF Fits
<1>5. \A x \in Request : (l.stage[x] = "waiting" /\ l.target[x] = p) => l.set[x] = s
  BY DEF Fits
<1> HIDE DEF s
<1>6. m \in Polls
  <2>1. m.stage \in [Request -> Stages]
    BY <1>1, <1>2 DEF Stages
  <2>2. m.set \in [Request -> Request \cup {NoSet}]
    BY <1>1, <1>2, <1>3
  <2>3. m.listeners \in [Probe -> Request \cup {NoSet}]
    BY <1>1, <1>2, <1>3
  <2>4. m = [l EXCEPT !.stage = m.stage, !.set = m.set, !.listeners = m.listeners]
    BY DEF Register, Polls
  <2> HIDE DEF m
  <2> QED
    BY <2>1, <2>2, <2>3, <2>4 DEF Polls
<1> HIDE DEF m
<1>7. ASSUME NEW x \in Request, m.stage[x] = "waiting"
      PROVE  m.listeners[m.target[x]] = m.set[x] /\ m.set[x] # NoSet
  <2>1. CASE x = r
    BY <1>1, <1>2, <1>3, <2>1
  <2>2. CASE x # r
    <3>1. l.stage[x] = "waiting" /\ m.set[x] = l.set[x]
      BY <1>1, <1>2, <1>7, <2>2
    <3>2. l.listeners[l.target[x]] = l.set[x] /\ l.set[x] # NoSet
      BY <3>1 DEF Fits
    <3> QED
      BY <1>1, <1>2, <1>5, <3>1, <3>2
  <2> QED
    BY <2>1, <2>2
<1>8. ASSUME NEW x \in Probe, m.listeners[x] # NoSet
      PROVE  /\ m.target[m.listeners[x]] = x
             /\ \E y \in Request : m.stage[y] = "waiting" /\ m.target[y] = x
  <2>1. CASE x = p
    BY <1>1, <1>2, <1>4, <2>1
  <2>2. CASE x # p
    <3>1. m.listeners[x] = l.listeners[x]
      BY <1>1, <1>2, <2>2
    <3>2. l.target[l.listeners[x]] = x
      BY <1>8, <3>1 DEF Fits
    <3>3. PICK y \in Request : l.stage[y] = "waiting" /\ l.target[y] = x
      BY <1>8, <3>1 DEF Fits
    <3>4. m.stage[y] = "waiting"
      BY <1>1, <1>2, <3>3
    <3> QED
      BY <1>2, <3>1, <3>2, <3>3, <3>4
  <2> QED
    BY <2>1, <2>2
<1>9. Fits(m)
  BY <1>7, <1>8 DEF Fits
<1> QED
  BY <1>2, <1>6, <1>9 DEF m

(* A handler that answers does not wait. *)
LEMMA AnswerFits ==
    ASSUME NEW l \in Polls, Fits(l), NEW r \in Request, l.stage[r] # "waiting"
    PROVE  /\ Answer(l, r) \in Polls /\ Fits(Answer(l, r)) /\ FewerWait(l, Answer(l, r))
<1> DEFINE m == Answer(l, r)
<1>1. /\ l.stage \in [Request -> Stages] /\ l.target \in [Request -> Probe]
  BY DEF Polls
<1>2. /\ m.stage = [l.stage EXCEPT ![r] = "answered"]
      /\ m.set = l.set /\ m.listeners = l.listeners /\ m.target = l.target
  BY DEF Answer, Polls
<1>3. m \in Polls
  <2>1. [l.stage EXCEPT ![r] = "answered"] \in [Request -> Stages]
    BY <1>1 DEF Stages
  <2> QED
    BY <2>1 DEF Answer, Polls
<1> HIDE DEF m
<1>4. \A x \in Request : m.stage[x] = "waiting" <=> l.stage[x] = "waiting"
  BY <1>1, <1>2
<1> QED
  BY <1>2, <1>3, <1>4 DEF m, Fits, FewerWait


(* Only probes that exist have events. *)
RingOfProbe(b, M) ==
    /\ b.probes \subseteq M
    /\ \A p \in Probe : b.events[p] # 0 => p \in b.probes

(* o is the snapshot behind b: what exists and is empty in b was empty in  *)
(* o, and what was removed and exists in b existed in o.                   *)
SnapshotOf(o, b, R) ==
    /\ \A p \in b.probes : b.events[p] = 0 => o.events[p] = 0
    /\ b.probes \cap R \subseteq o.probes

(* Who waits has nothing to read, now and after a rollback to one of the   *)
(* snapshots S, and waits for no probe that was removed.                   *)
Waits(l, b, S, R) ==
    \A r \in Request : l.stage[r] = "waiting" =>
        /\ b.events[l.target[r]] = 0
        /\ l.target[r] \notin R \ b.probes
        /\ \A o \in S : o.events[l.target[r]] = 0

(* The inductive invariant of the long poll. *)
PollInv ==
    /\ minted \subseteq Probe /\ removed \subseteq minted /\ overdue \subseteq Probe
    /\ broker \in Brokers /\ saved \subseteq Brokers /\ polls \in Polls /\ closed \in BOOLEAN
    /\ Fits(polls)
    /\ RingOfProbe(broker, minted)
    /\ \A o \in saved : RingOfProbe(o, minted) /\ SnapshotOf(o, broker, removed)
    /\ Waits(polls, broker, saved, removed)

LEMMA FewerWaits ==
    ASSUME NEW l, NEW m, FewerWait(l, m), NEW b, NEW S, NEW R, Waits(l, b, S, R)
    PROVE  Waits(m, b, S, R)
BY DEF FewerWait, Waits

LEMMA AppendedType ==
    ASSUME NEW n \in 0..RingCapacity
    PROVE  Appended(n) \in 0..RingCapacity /\ Appended(n) # 0
BY RingCapacityType DEF Appended

(* expireDueProbes appends an event to each probe that is due. *)
LEMMA ExpireEvents ==
    ASSUME NEW b \in Brokers
    PROVE  /\ Expire(b) \in Brokers /\ Expire(b).probes = b.probes
           /\ Due(b) \subseteq b.probes
           /\ \A p \in Probe : Expire(b).events[p] = 0 <=> (b.events[p] = 0 /\ p \notin Due(b))
<1> DEFINE ev == [p \in Probe |-> IF p \in Due(b) THEN Appended(b.events[p]) ELSE b.events[p]]
           ex == b.expired \cup Due(b)
<1>1. /\ b.probes \subseteq Probe /\ b.expired \subseteq Probe
      /\ b.events \in [Probe -> 0..RingCapacity]
  BY DEF Brokers
<1>2. Due(b) \subseteq b.probes
  BY DEF Due
<1>3. \A p \in Probe : b.events[p] \in 0..RingCapacity /\ Appended(b.events[p]) \in 0..RingCapacity
                       /\ Appended(b.events[p]) # 0
  BY <1>1, AppendedType
<1>4. ev \in [Probe -> 0..RingCapacity] /\ ex \subseteq Probe
  BY <1>1, <1>2, <1>3
<1>5. \A p \in Probe : ev[p] = 0 <=> (b.events[p] = 0 /\ p \notin Due(b))
  BY <1>3
<1>6. Expire(b) = [b EXCEPT !.expired = ex, !.events = ev]
  BY DEF Expire
<1> HIDE DEF ev, ex
<1>7. Expire(b) \in Brokers /\ Expire(b).probes = b.probes /\ Expire(b).events = ev
  BY <1>4, <1>6 DEF Brokers
<1> QED
  BY <1>2, <1>5, <1>7

(* A handler that expires what is due and signals it. *)
LEMMA ExpireWaits ==
    ASSUME NEW b \in Brokers, NEW l \in Polls, Fits(l), NEW M, NEW S, NEW R,
           RingOfProbe(b, M), \A o \in S : SnapshotOf(o, b, R), Waits(l, b, S, R)
    PROVE  /\ Expire(b) \in Brokers
           /\ RingOfProbe(Expire(b), M)
           /\ \A o \in S : SnapshotOf(o, Expire(b), R)
           /\ Signal(l, Due(b)) \in Polls /\ Fits(Signal(l, Due(b)))
           /\ Waits(Signal(l, Due(b)), Expire(b), S, R)
<1> DEFINE e == Expire(b)
           D == Due(b)
           m == Signal(l, D)
<1>1. /\ e \in Brokers /\ e.probes = b.probes /\ D \subseteq b.probes
      /\ \A p \in Probe : e.events[p] = 0 <=> (b.events[p] = 0 /\ p \notin D)
  BY ExpireEvents
<1>2. D \in SUBSET Probe /\ b.probes \subseteq Probe
  BY <1>1 DEF Brokers
<1> HIDE DEF e, D
<1>3. /\ m \in Polls /\ Fits(m) /\ FewerWait(l, m)
      /\ \A r \in Request : m.stage[r] = "waiting" => l.target[r] \notin D
  BY <1>2, SignalFits
<1> HIDE DEF m
<1>4. RingOfProbe(e, M)
  BY <1>1, <1>2 DEF RingOfProbe
<1>5. \A o \in S : SnapshotOf(o, e, R)
  BY <1>1, <1>2 DEF SnapshotOf
<1>6. Waits(m, b, S, R) /\ \A r \in Request : l.target[r] \in Probe /\ m.target[r] = l.target[r]
  BY <1>3, FewerWaits DEF FewerWait, Polls
<1>7. Waits(m, e, S, R)
  BY <1>1, <1>3, <1>6 DEF Waits
<1> QED
  BY <1>1, <1>3, <1>4, <1>5, <1>7 DEF e, D, m

LEMMA PollInitial == Init => PollInv
<1> SUFFICES ASSUME Init PROVE PollInv
  OBVIOUS
<1>1. 0 \in 0..RingCapacity
  BY RingCapacityType
<1>2. broker \in Brokers
  BY <1>1 DEF Init, Brokers
<1>3. polls \in Polls /\ \A r \in Request : polls.stage[r] = "idle"
  BY DEF Init, Polls, Stages
<1>4. \A p \in Probe : polls.listeners[p] = NoSet /\ broker.events[p] = 0
  BY DEF Init
<1>5. Fits(polls)
  BY <1>3, <1>4 DEF Fits
<1>6. RingOfProbe(broker, minted)
  BY <1>4 DEF RingOfProbe, Init
<1>7. Waits(polls, broker, saved, removed)
  BY <1>3 DEF Waits
<1> QED
  BY <1>2, <1>3, <1>5, <1>6, <1>7 DEF PollInv, Init

(* The handlers that expire what is due: the route itself and its          *)
(* continuation, and the other readers.                                    *)
LEMMA ReadsKeep ==
    ASSUME PollInv, NEW r, (r \in Request /\ (Get(r) \/ Resume(r))) \/ Read
    PROVE  PollInv'
<1> DEFINE b == Expire(broker)
           l == Signal(polls, Due(broker))
<1>1. /\ b \in Brokers /\ RingOfProbe(b, minted)
      /\ \A o \in saved : SnapshotOf(o, b, removed)
      /\ l \in Polls /\ Fits(l) /\ Waits(l, b, saved, removed)
  BY ExpireWaits DEF PollInv
<1>2. broker' = b /\ UNCHANGED <<minted, removed, overdue, saved, closed>>
  BY DEF Get, Resume, Read
<1>3. /\ FewerWait(polls, l)
      /\ \A x \in Request : polls.stage[x] # "waiting" => l.stage[x] = polls.stage[x]
  <2>1. Due(broker) \in SUBSET Probe
    BY ExpireEvents DEF PollInv, Brokers
  <2> QED
    BY <2>1, SignalFits DEF PollInv
<1>4. \/ polls' = l
      \/ r \in Request /\ polls' = Answer(l, r) /\ polls.stage[r] \in {"idle", "resumed"}
      \/ /\ r \in Request /\ polls.stage[r] = "idle" /\ polls.target[r] \in b.probes
         /\ polls' = RegisterActivityListener(l, b, r)
  BY DEF Get, Resume, Read
<1> HIDE DEF b, l
<1>5. polls' \in Polls /\ Fits(polls') /\ Waits(polls', b, saved, removed)
  <2>1. CASE polls' = l
    BY <1>1, <2>1
  <2>2. CASE r \in Request /\ polls' = Answer(l, r) /\ polls.stage[r] \in {"idle", "resumed"}
    <3>1. l.stage[r] # "waiting"
      BY <1>3, <2>2
    <3>2. polls' \in Polls /\ Fits(polls') /\ FewerWait(l, polls')
      BY <1>1, <2>2, <3>1, AnswerFits
    <3> QED
      BY <1>1, <3>2, FewerWaits
  <2>3. CASE /\ r \in Request /\ polls.stage[r] = "idle" /\ polls.target[r] \in b.probes
             /\ polls' = RegisterActivityListener(l, b, r)
    <3> DEFINE m == Register(l, b, r)
    <3>1. l.stage[r] # "waiting" /\ l.target = polls.target
      BY <1>3, <2>3 DEF FewerWait
    <3>2. /\ m \in Polls /\ Fits(m) /\ m.target = l.target
          /\ m.stage = [l.stage EXCEPT ![r] = "waiting"]
      BY <1>1, <2>3, <3>1, RegisterFits
    <3>3. l.stage \in [Request -> Stages]
      BY <1>1 DEF Polls
    <3> HIDE DEF m
    <3>4. CASE b.events[l.target[r]] > 0
      <4>1. polls' = Finish(m, {r})
        BY <2>3, <3>4 DEF RegisterActivityListener, m
      <4>2. m.stage[r] = "waiting"
        BY <2>3, <3>2, <3>3
      <4>3. /\ polls' \in Polls /\ Fits(polls') /\ FewerWait(m, polls')
            /\ polls'.stage[r] # "waiting"
        <5>1. {r} \in SUBSET Request /\ \A x \in {r} : m.stage[x] = "waiting"
          BY <2>3, <4>2
        <5>2. /\ Finish(m, {r}) \in Polls /\ Fits(Finish(m, {r})) /\ FewerWait(m, Finish(m, {r}))
              /\ \A x \in {r} : Finish(m, {r}).stage[x] # "waiting"
          BY <3>2, <5>1, FinishFits
        <5> QED
          BY <4>1, <5>2
      <4>4. FewerWait(l, polls')
        BY <2>3, <3>2, <3>3, <4>3 DEF FewerWait
      <4> QED
        BY <1>1, <4>3, <4>4, FewerWaits
    <3>5. CASE ~(b.events[l.target[r]] > 0)
      <4>1. polls' = m
        BY <2>3, <3>5 DEF RegisterActivityListener, m
      <4>2. l.target[r] \in Probe /\ l.target[r] \in b.probes
        BY <1>1, <2>3, <3>1 DEF Polls
      <4>3. b.events[l.target[r]] \in 0..RingCapacity
        BY <1>1, <4>2 DEF Brokers
      <4>4. b.events[l.target[r]] = 0
        BY <3>5, <4>3
      <4>5. \A o \in saved : o.events[l.target[r]] = 0
        BY <1>1, <4>2, <4>4 DEF SnapshotOf
      <4>6. Waits(m, b, saved, removed)
        BY <1>1, <2>3, <3>2, <3>3, <4>2, <4>4, <4>5 DEF Waits
      <4> QED
        BY <3>2, <4>1, <4>6
    <3> QED
      BY <3>4, <3>5
  <2> QED
    BY <1>4, <2>1, <2>2, <2>3
<1> QED
  BY <1>1, <1>2, <1>5 DEF PollInv

(* A wait ends by its timer, its client or the shutdown. *)
LEMMA EndsKeep ==
    ASSUME PollInv, NEW r, (r \in Request /\ (Timeout(r) \/ Abort(r))) \/ Close
    PROVE  PollInv'
<1>1. UNCHANGED <<minted, removed, overdue, broker, saved>> /\ closed' \in BOOLEAN
  BY DEF PollInv, Timeout, Abort, Close
<1>2. polls \in Polls /\ Fits(polls) /\ Waits(polls, broker, saved, removed)
  BY DEF PollInv
<1>3. polls' \in Polls /\ Fits(polls') /\ Waits(polls', broker, saved, removed)
  <2>1. CASE r \in Request /\ (Timeout(r) \/ Abort(r))
    <3>1. polls' = Finish(polls, {r}) /\ r \in Request /\ polls.stage[r] = "waiting"
      BY <2>1 DEF Timeout, Abort
    <3>2. polls' \in Polls /\ Fits(polls') /\ FewerWait(polls, polls')
      BY <1>2, <3>1, FinishFits
    <3> QED
      BY <1>2, <3>2, FewerWaits
  <2>2. CASE Close
    <3> DEFINE R == {x \in Request : polls.stage[x] = "waiting"}
               m == Finish(polls, R)
               n == [p \in Probe |-> NoSet]
    <3>1. polls' = [m EXCEPT !.listeners = n]
      BY <2>2 DEF Close
    <3>2. /\ m \in Polls
          /\ \A x \in R : m.stage[x] # "waiting"
          /\ \A x \in Request \ R : m.stage[x] = polls.stage[x]
      BY <1>2, FinishFits
    <3>3. n \in [Probe -> Request \cup {NoSet}]
      OBVIOUS
    <3>4. \A x \in Request : m.stage[x] # "waiting"
      BY <3>2
    <3> HIDE DEF m, n
    <3>5. polls' \in Polls /\ polls'.stage = m.stage /\ polls'.listeners = n
      BY <3>1, <3>2, <3>3 DEF Polls
    <3>6. Fits(polls')
      BY <3>4, <3>5 DEF Fits, n
    <3>7. Waits(polls', broker, saved, removed)
      BY <3>4, <3>5 DEF Waits
    <3> QED
      BY <3>5, <3>6, <3>7
  <2> QED
    BY <2>1, <2>2
<1> QED
  BY <1>1, <1>3 DEF PollInv


(* mutateDurably: b becomes the state of the broker, the old one the       *)
(* snapshot, and the waits for the probes `active` are woken.              *)
LEMMA MutateKeeps ==
    ASSUME PollInv, NEW b \in Brokers, NEW active \in SUBSET Probe, Mutate(b, active),
           minted \subseteq minted', minted' \subseteq Probe, removed' \subseteq minted',
           RingOfProbe(b, minted'), SnapshotOf(broker, b, removed'),
           \A p \in Probe \ active : /\ broker.events[p] = 0 => b.events[p] = 0
                                     /\ p \notin removed \ broker.probes =>
                                            p \notin removed' \ b.probes
    PROVE  PollInv'
<1>1. /\ saved = {} /\ saved' = {broker} /\ broker' = b /\ polls' = Signal(polls, active)
      /\ UNCHANGED <<overdue, closed>>
  BY DEF Mutate
<1>2. /\ polls' \in Polls /\ Fits(polls') /\ FewerWait(polls, polls')
      /\ \A r \in Request : polls'.stage[r] = "waiting" => polls.target[r] \notin active
  BY <1>1, SignalFits DEF PollInv
<1>3. RingOfProbe(broker, minted')
  BY DEF PollInv, RingOfProbe
<1>4. Waits(polls', b, {broker}, removed')
  <2> SUFFICES ASSUME NEW r \in Request, polls'.stage[r] = "waiting"
               PROVE  /\ b.events[polls'.target[r]] = 0
                      /\ polls'.target[r] \notin removed' \ b.probes
                      /\ broker.events[polls'.target[r]] = 0
    BY DEF Waits
  <2>1. polls'.target[r] = polls.target[r] /\ polls.stage[r] = "waiting"
    BY <1>2 DEF FewerWait
  <2>2. polls.target[r] \in Probe \ active
    BY <1>2 DEF PollInv, Polls
  <2>3. /\ broker.events[polls.target[r]] = 0
        /\ polls.target[r] \notin removed \ broker.probes
    BY <2>1 DEF PollInv, Waits
  <2> QED
    BY <2>1, <2>2, <2>3
<1>5. broker \in Brokers /\ overdue \subseteq Probe /\ closed \in BOOLEAN
  BY DEF PollInv
<1> QED
  BY <1>1, <1>2, <1>3, <1>4, <1>5 DEF PollInv

LEMMA CreateKeeps ==
    ASSUME PollInv, NEW p \in Probe, BeginCreate(p)
    PROVE  PollInv'
<1> DEFINE ps == broker.probes \cup {p}
           ev == [broker.events EXCEPT ![p] = 0]
           b == [broker EXCEPT !.probes = ps, !.events = ev]
<1>1. /\ broker \in Brokers /\ broker.probes \subseteq minted /\ minted \subseteq Probe
      /\ removed \subseteq minted
      /\ broker.events \in [Probe -> 0..RingCapacity]
      /\ \A q \in Probe : broker.events[q] # 0 => q \in broker.probes
  BY DEF PollInv, RingOfProbe, Brokers
<1>2. p \notin minted /\ minted' = minted \cup {p} /\ UNCHANGED removed /\ Mutate(b, {})
  BY DEF BeginCreate
<1>3. ps \in SUBSET Probe /\ ev \in [Probe -> 0..RingCapacity]
  BY <1>1, RingCapacityType
<1>4. \A q \in Probe : ev[q] = broker.events[q]
  BY <1>1, <1>2
<1>5. b \in Brokers /\ b.probes = ps /\ b.events = ev
  <2> HIDE DEF ps, ev
  <2> QED
    BY <1>1, <1>3 DEF Brokers
<1> HIDE DEF b, ev
<1>6. RingOfProbe(b, minted')
  BY <1>1, <1>2, <1>4, <1>5 DEF RingOfProbe
<1>7. SnapshotOf(broker, b, removed')
  BY <1>1, <1>2, <1>4, <1>5 DEF SnapshotOf
<1>8. \A q \in Probe \ {} : /\ broker.events[q] = 0 => b.events[q] = 0
                            /\ q \notin removed \ broker.probes => q \notin removed' \ b.probes
  BY <1>2, <1>4, <1>5
<1> QED
  BY <1>1, <1>2, <1>5, <1>6, <1>7, <1>8, MutateKeeps

LEMMA DeleteKeeps ==
    ASSUME PollInv, NEW p \in Probe, BeginDelete(p)
    PROVE  PollInv'
<1> DEFINE ps == broker.probes \ {p}
           ex == broker.expired \ {p}
           ev == [broker.events EXCEPT ![p] = 0]
           b == [broker EXCEPT !.probes = ps, !.expired = ex, !.events = ev]
<1>1. /\ broker \in Brokers /\ broker.probes \subseteq minted /\ minted \subseteq Probe
      /\ removed \subseteq minted /\ broker.expired \subseteq Probe
      /\ broker.events \in [Probe -> 0..RingCapacity]
      /\ \A q \in Probe : broker.events[q] # 0 => q \in broker.probes
  BY DEF PollInv, RingOfProbe, Brokers
<1>2. /\ p \in broker.probes /\ UNCHANGED minted /\ removed' = removed \cup {p}
      /\ Mutate(b, {p})
  BY DEF BeginDelete
<1>3. ps \in SUBSET Probe /\ ex \in SUBSET Probe /\ ev \in [Probe -> 0..RingCapacity]
  BY <1>1, RingCapacityType
<1>4. ev[p] = 0 /\ \A q \in Probe \ {p} : ev[q] = broker.events[q]
  BY <1>1
<1>5. b \in Brokers /\ b.probes = ps /\ b.events = ev
  <2> HIDE DEF ps, ev, ex
  <2> QED
    BY <1>1, <1>3 DEF Brokers
<1> HIDE DEF b, ev
<1>6. RingOfProbe(b, minted')
  BY <1>1, <1>2, <1>4, <1>5 DEF RingOfProbe
<1>7. SnapshotOf(broker, b, removed')
  BY <1>1, <1>2, <1>4, <1>5 DEF SnapshotOf
<1>8. \A q \in Probe \ {p} : /\ broker.events[q] = 0 => b.events[q] = 0
                             /\ q \notin removed \ broker.probes => q \notin removed' \ b.probes
  BY <1>2, <1>4, <1>5
<1> QED
  BY <1>1, <1>2, <1>5, <1>6, <1>7, <1>8, MutateKeeps

(* An ingest, and the sweep, which is one without an event of its own. *)
LEMMA IngestKeeps ==
    ASSUME PollInv, NEW p, (p \in Probe /\ BeginIngest(p)) \/ BeginSweep
    PROVE  PollInv'
<1> DEFINE e == Expire(broker)
           ev == [e.events EXCEPT ![p] = Appended(e.events[p])]
           b == [e EXCEPT !.events = ev]
           D == Due(broker)
<1>1. /\ broker \in Brokers /\ broker.probes \subseteq minted /\ minted \subseteq Probe
      /\ removed \subseteq minted /\ broker.probes \subseteq Probe
      /\ \A q \in Probe : broker.events[q] # 0 => q \in broker.probes
  BY DEF PollInv, RingOfProbe, Brokers
<1>2. /\ e \in Brokers /\ e.probes = broker.probes /\ D \subseteq broker.probes
      /\ \A q \in Probe : e.events[q] = 0 <=> (broker.events[q] = 0 /\ q \notin D)
  BY <1>1, ExpireEvents
<1>3. e.events \in [Probe -> 0..RingCapacity]
  BY <1>2 DEF Brokers
<1>4. \/ p \in broker.probes /\ Mutate(b, D \cup {p})
      \/ Mutate(e, D)
  BY DEF BeginIngest, BeginSweep
<1>5. UNCHANGED <<minted, removed>>
  BY DEF BeginIngest, BeginSweep
<1> HIDE DEF e, D
<1>6. CASE Mutate(e, D)
  <2>1. RingOfProbe(e, minted') /\ SnapshotOf(broker, e, removed')
    BY <1>1, <1>2, <1>5 DEF RingOfProbe, SnapshotOf
  <2>2. \A q \in Probe \ D : /\ broker.events[q] = 0 => e.events[q] = 0
                             /\ q \notin removed \ broker.probes => q \notin removed' \ e.probes
    BY <1>2, <1>5
  <2> QED
    BY <1>1, <1>2, <1>5, <1>6, <2>1, <2>2, MutateKeeps
<1>7. CASE p \in broker.probes /\ Mutate(b, D \cup {p})
  <2>1. Appended(e.events[p]) \in 0..RingCapacity /\ Appended(e.events[p]) # 0
    BY <1>1, <1>3, <1>7, AppendedType
  <2>2. /\ ev \in [Probe -> 0..RingCapacity] /\ ev[p] # 0
        /\ \A q \in Probe \ {p} : ev[q] = e.events[q]
    BY <1>1, <1>3, <1>7, <2>1
  <2>3. b \in Brokers /\ b.probes = e.probes /\ b.events = ev
    <3> HIDE DEF ev
    <3> QED
      BY <1>2, <2>2 DEF Brokers
  <2> HIDE DEF b, ev
  <2>4. RingOfProbe(b, minted') /\ SnapshotOf(broker, b, removed')
    BY <1>1, <1>2, <1>5, <1>7, <2>2, <2>3 DEF RingOfProbe, SnapshotOf
  <2>5. \A q \in Probe \ (D \cup {p}) :
           /\ broker.events[q] = 0 => b.events[q] = 0
           /\ q \notin removed \ broker.probes => q \notin removed' \ b.probes
    BY <1>2, <1>5, <2>2, <2>3
  <2>6. D \cup {p} \in SUBSET Probe
    BY <1>1, <1>2, <1>7
  <2> QED
    BY <1>1, <1>5, <1>7, <2>3, <2>4, <2>5, <2>6, MutateKeeps
<1> QED
  BY <1>4, <1>6, <1>7

(* The persist ends: the snapshot is dropped, or loaded again. *)
LEMMA PersistKeeps ==
    ASSUME PollInv, PersistOk \/ PersistFail
    PROVE  PollInv'
<1>1. CASE PersistOk
  BY <1>1 DEF PersistOk, PollInv, Waits
<1>2. CASE PersistFail
  <2>1. PICK o \in saved : broker' = Expire(o) /\ polls' = Signal(polls, Due(o))
    BY <1>2 DEF PersistFail
  <2>2. saved' = {} /\ UNCHANGED <<minted, removed, overdue, closed>>
    BY <1>2 DEF PersistFail
  <2>3. o \in Brokers /\ RingOfProbe(o, minted) /\ SnapshotOf(o, broker, removed)
        /\ polls \in Polls /\ Fits(polls)
    BY DEF PollInv
  <2>4. Waits(polls, o, {}, removed)
    BY <2>3 DEF PollInv, Waits, SnapshotOf
  <2>5. /\ Expire(o) \in Brokers /\ RingOfProbe(Expire(o), minted)
        /\ Signal(polls, Due(o)) \in Polls /\ Fits(Signal(polls, Due(o)))
        /\ Waits(Signal(polls, Due(o)), Expire(o), {}, removed)
    BY <2>3, <2>4, ExpireWaits
  <2> QED
    BY <2>1, <2>2, <2>5 DEF PollInv
<1> QED
  BY <1>1, <1>2

LEMMA PollNextKeeps ==
    ASSUME PollInv, [Next]_vars
    PROVE  PollInv'
<1>1. CASE UNCHANGED vars
  BY <1>1 DEF PollInv, vars
<1>2. ASSUME NEW r \in Request, Get(r) \/ Resume(r) \/ Timeout(r) \/ Abort(r)
      PROVE  PollInv'
  BY <1>2, ReadsKeep, EndsKeep
<1>3. ASSUME NEW p \in Probe, BeginCreate(p) \/ BeginDelete(p) \/ BeginIngest(p)
      PROVE  PollInv'
  BY <1>3, CreateKeeps, DeleteKeeps, IngestKeeps
<1>4. ASSUME NEW p \in Probe, Elapse(p)
      PROVE  PollInv'
  BY <1>4 DEF Elapse, PollInv
<1>5. CASE PersistOk \/ PersistFail
  BY <1>5, PersistKeeps
<1> QED
  BY <1>1, <1>2, <1>3, <1>4, <1>5, ReadsKeep, EndsKeep, IngestKeeps DEF Next


LEMMA PollInvariant == Spec => []PollInv
BY PollInitial, PollNextKeeps, PTL DEF Spec

(* waitForEvents: a request that waits has no event to read, after an      *)
(* ingest, an expiry, a deletion or the rollback of any of them, for any   *)
(* number of probes, requests and events.                                  *)
THEOREM NoWakeupIsLost == Spec => []NoLostWakeup
<1>1. PollInv => NoLostWakeup
  BY DEF PollInv, Waits, NoLostWakeup
<1> QED
  BY <1>1, PollInvariant, PTL

(* registerActivityListener and finish: everybody who waits is in the Set  *)
(* that a signal looks up, and no Set outlives its waits, although keys    *)
(* are dropped and created again while requests hold on to their Set.      *)
THEOREM ListenersFitWaits == Spec => []ListenersExact
<1>1. PollInv => ListenersExact
  <2> SUFFICES ASSUME PollInv PROVE ListenersExact
    OBVIOUS
  <2>1. Fits(polls)
    BY DEF PollInv
  <2>2. ASSUME NEW p \in Probe, polls.listeners[p] # NoSet
        PROVE  Members(polls, polls.listeners[p]) # {}
    <3>1. PICK r \in Request : polls.stage[r] = "waiting" /\ polls.target[r] = p
      BY <2>1, <2>2 DEF Fits
    <3>2. r \in Members(polls, polls.listeners[p])
      BY <2>1, <3>1 DEF Fits, Members
    <3> QED
      BY <3>2
  <2> QED
    BY <2>1, <2>2 DEF Fits, ListenersExact
<1> QED
  BY <1>1, PollInvariant, PTL

(* deleteProbe signals, and rollbacks, which do not, bring no deletion     *)
(* back: nobody waits for a probe that was deleted.                        *)
THEOREM NoWaitForDeleted == Spec => []NobodyWaitsForDeleted
<1>1. PollInv => NobodyWaitsForDeleted
  BY DEF PollInv, Waits, NobodyWaitsForDeleted
<1> QED
  BY <1>1, PollInvariant, PTL

===============================================================================
