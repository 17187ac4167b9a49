------------------------------ MODULE SourceMaps ------------------------------
(***************************************************************************)
(* The source-map handshake of spec/protocol.md 4.2: Node agents of one    *)
(* service agree, commit by commit, on one of them that uploads the maps   *)
(* of the build.  The broker's side is sourceMapStatus, uploadSourceMap,   *)
(* completeSourceMaps and their routes, with the PostgreSQL store; the     *)
(* agents' side is SourceMapUploader.sync and the retries of LiveProbe.    *)
(*                                                                         *)
(* A map is known by its path and by the agent it came from.  Time passes  *)
(* in units of 20 seconds, the delay between two questions of a waiting    *)
(* agent; the 5 seconds after an error are less than one unit.             *)
(*                                                                         *)
(* Two fields are history and not in the code: a request is old once its   *)
(* sender has claimed the commit anew, and a set is stray if an old        *)
(* request completed it.                                                   *)
(***************************************************************************)
EXTENDS Naturals, Sequences, FiniteSets

CONSTANTS
    Uploader, Commit, NoOne,
    Deployments,     \* the commit each agent uploads for, NoOne if it knows none
    Files,           \* how many maps the build of each commit has
    Retained,        \* SOURCE_MAP_COMMITS_PER_SERVICE
    LeaseUnits,      \* 120 s
    WaitAttempts, ErrorAttempts,
    Patience,        \* units that uploads may take, in EventuallyComplete
    MaxErrors        \* bound on requests that fail or time out, and restarts

ASSUME SourceMapsAssumption ==
    /\ NoOne \notin Uploader \cup Commit
    /\ Deployments \subseteq [Uploader -> Commit \cup {NoOne}]
    /\ Files \in [Commit -> Nat]
    /\ {Retained, LeaseUnits, WaitAttempts, ErrorAttempts} \subseteq Nat \ {0}
    /\ {Patience, MaxErrors} \subseteq Nat

VARIABLES
    sets,    \* sourceMapSets
    recent,  \* the commits that have a set, by updatedAt, the oldest first
    leases,  \* sourceMapLeases: holder and units left
    rows,    \* source_map_sets and source_maps as stored
    queue,   \* requests in mutationQueue; the first one may be persisting
    txn,     \* the mutation whose persist is awaited
    saves,   \* persists of status requests, which do not use the queue
    agents,  \* the agents' syncs
    errors,  \* requests that failed, and restarts
    slow     \* units that passed while somebody was at work, up to Patience + 1

mapsVars == <<sets, recent, leases, rows, queue, txn, saves, agents, errors, slow>>

Path == UNION {1..Files[c] : c \in Commit}
NoSet == [complete |-> FALSE, maps |-> [f \in Path |-> NoOne], there |-> FALSE,
          stray |-> FALSE]
NewSet == [NoSet EXCEPT !.there = TRUE]
NoLease == [by |-> NoOne, left |-> 0]
NoLeases == [c \in Commit |-> NoLease]
NoTxn == [on |-> FALSE, sets |-> [c \in Commit |-> NoSet], recent |-> <<>>, row |-> NoSet]
Request == [op : {"upload", "complete"}, by : Uploader,
            file : {0} \cup Path, waited : BOOLEAN, old : BOOLEAN]
SetRecord == [complete : BOOLEAN, maps : [Path -> Uploader \cup {NoOne}], there : BOOLEAN,
              stray : BOOLEAN]
Stages == {"asking", "sending", "requested", "saving", "waiting", "done", "gaveup", "stopped"}

MapsInit ==
    /\ sets = [c \in Commit |-> NoSet]
    /\ recent = <<>>
    /\ leases = NoLeases
    /\ rows = [c \in Commit |-> NoSet]
    /\ queue = <<>>
    /\ txn = NoTxn
    /\ saves = {}
    /\ \E deployed \in Deployments :
         agents = [u \in Uploader |->
                     [pc |-> IF deployed[u] = NoOne THEN "stopped" ELSE "asking",
                      sent |-> 0, attempt |-> 1, commit |-> deployed[u]]]
    /\ errors = 0
    /\ slow = 0

MapsTypeOK ==
    /\ sets \in [Commit -> SetRecord] /\ rows \in [Commit -> SetRecord]
    /\ recent \in Seq(Commit)
    /\ leases \in [Commit -> [by : Uploader \cup {NoOne}, left : 0..LeaseUnits]]
    /\ queue \in Seq(Request)
    /\ txn \in [on : BOOLEAN, sets : [Commit -> SetRecord], recent : Seq(Commit),
                row : SetRecord]
    /\ saves \subseteq [by : Uploader, waited : BOOLEAN]
    /\ agents \in [Uploader -> [pc : Stages, sent : {0} \cup Path,
                                attempt : 1..(WaitAttempts + ErrorAttempts),
                                commit : Commit \cup {NoOne}]]
    /\ errors \in 0..MaxErrors /\ slow \in 0..(Patience + 1)

-----------------------------------------------------------------------------
(* The agent *)

Active(u) == agents[u].pc \in {"asking", "sending", "requested", "saving"}

\* MUTANT: an agent asks as often as the lease has units, which is once too few.
WaitOrGiveUpEarly(a) == IF a.attempt < LeaseUnits
                        THEN [a EXCEPT !.pc = "waiting", !.attempt = @ + 1]
                        ELSE [a EXCEPT !.pc = "gaveup"]

\* #syncSourceMaps after sync() was told to wait, and after it threw.
WaitOrGiveUp(a) == IF a.attempt < WaitAttempts
                   THEN [a EXCEPT !.pc = "waiting", !.attempt = @ + 1]
                   ELSE [a EXCEPT !.pc = "gaveup"]
RetryOrGiveUp(a) == IF a.attempt < ErrorAttempts
                    THEN [a EXCEPT !.pc = "asking", !.attempt = @ + 1]
                    ELSE [a EXCEPT !.pc = "gaveup"]

Failed(U) == [u \in Uploader |-> IF u \in U THEN RetryOrGiveUp(agents[u]) ELSE agents[u]]

\* sync sends the next map, and complete after the last one.
Send(u) ==
    LET a == agents[u]
        op == IF a.sent < Files[agents[u].commit] THEN "upload" ELSE "complete"
    IN
    /\ a.pc = "sending"
    /\ queue' = Append(queue, [op |-> op, by |-> u, waited |-> TRUE, old |-> FALSE,
                               file |-> IF op = "upload" THEN a.sent + 1 ELSE 0])
    /\ agents' = [agents EXCEPT ![u].pc = "requested"]
    /\ UNCHANGED <<sets, recent, leases, rows, txn, saves, errors, slow>>

\* The request timeout of BrokerClient: the agent gives up, the broker goes on.
Timeout(u) ==
    /\ errors < MaxErrors
    /\ agents[u].pc \in {"requested", "saving"}
    /\ agents' = Failed({u})
    /\ queue' = [i \in DOMAIN queue |-> IF queue[i].by = u
                                        THEN [queue[i] EXCEPT !.waited = FALSE]
                                        ELSE queue[i]]
    /\ saves' = {IF s.by = u THEN [s EXCEPT !.waited = FALSE] ELSE s : s \in saves}
    /\ errors' = errors + 1
    /\ UNCHANGED <<sets, recent, leases, rows, txn, slow>>

\* The process of the agent ends; what it has sent stays with the broker.
StopAgent(u) ==
    /\ agents[u].pc \notin {"done", "gaveup", "stopped"}
    /\ agents' = [agents EXCEPT ![u].pc = "stopped"]
    /\ queue' = [i \in DOMAIN queue |-> IF queue[i].by = u
                                        THEN [queue[i] EXCEPT !.waited = FALSE]
                                        ELSE queue[i]]
    /\ saves' = {IF s.by = u THEN [s EXCEPT !.waited = FALSE] ELSE s : s \in saves}
    /\ UNCHANGED <<sets, recent, leases, rows, txn, errors, slow>>

-----------------------------------------------------------------------------
(* The broker *)

Bump(r, c) == Append(SelectSeq(r, LAMBDA d : d # c), c)
\* The check of the lease (mutant: whose lease it is does not matter).
AnyLease(c, u) == leases[c].left > 0
Holds(c, u) == leases[c].by = u /\ leases[c].left > 0

\* What a claim by u leaves of a set: the maps of an earlier claim go.
ClaimedKeeping(c, u) == sets[c]
Claimed(c, u) == IF sets[c].there /\ leases[c].by # u
                 THEN [sets[c] EXCEPT !.maps = NoSet.maps] ELSE sets[c]

\* A new claim by u: what u has still in the queue is from before it.
Aged(u) == [i \in DOMAIN queue |-> IF queue[i].by = u THEN [queue[i] EXCEPT !.old = TRUE]
                                   ELSE queue[i]]

\* POST /v1/source-maps/status.  A claim that emptied a set persists it,
\* without waiting for the queue.
Status(u) ==
    LET c == agents[u].commit
        claims == leases[c].left = 0 \/ leases[c].by = u
        emptied == sets[c].maps # NoSet.maps /\ Claimed(c, u).maps = NoSet.maps
    IN
    /\ agents[u].pc = "asking"
    /\ \/ /\ sets[c].complete
          /\ agents' = [agents EXCEPT ![u].pc = "done"]
          /\ UNCHANGED <<sets, recent, leases, saves, queue>>
       \/ /\ ~sets[c].complete /\ claims
          /\ sets' = [sets EXCEPT ![c] = Claimed(c, u)]
          /\ recent' = IF sets[c].there /\ leases[c].by # u THEN Bump(recent, c) ELSE recent
          /\ leases' = [leases EXCEPT ![c] = [by |-> u, left |-> LeaseUnits]]
          /\ saves' = IF emptied THEN saves \cup {[by |-> u, waited |-> TRUE]} ELSE saves
          /\ agents' = [agents EXCEPT ![u].pc = IF emptied THEN "saving" ELSE "sending",
                                      ![u].sent = 0]
          /\ queue' = IF leases[c].by # u THEN Aged(u) ELSE queue
       \/ /\ ~sets[c].complete /\ ~claims
          /\ agents' = [agents EXCEPT ![u] = WaitOrGiveUp(@)]
          /\ UNCHANGED <<sets, recent, leases, saves, queue>>
    /\ UNCHANGED <<rows, txn, errors, slow>>

\* Any persist of a set also deletes the rows of commits memory has dropped.
StoreSet(c, set) ==
    rows' = [d \in Commit |-> IF ~sets[d].there /\ d # c THEN NoSet
                              ELSE IF d = c THEN (IF sets[c].there THEN set ELSE NoSet)
                              ELSE rows[d]]

\* The persist of a status request ends, in either way.
SaveEnds(s) ==
    LET u == s.by IN
    \/ /\ StoreSet(agents[u].commit, NewSet)
       /\ agents' = IF s.waited THEN [agents EXCEPT ![u].pc = "sending"] ELSE agents
       /\ saves' = saves \ {s}
       /\ UNCHANGED <<sets, recent, leases, queue, txn, errors, slow>>
    \/ /\ errors < MaxErrors
       /\ errors' = errors + 1
       /\ agents' = IF s.waited THEN Failed({u}) ELSE agents
       /\ saves' = saves \ {s}
       /\ UNCHANGED <<sets, recent, leases, rows, queue, txn, slow>>

\* completeSourceMaps keeps the sets that changed last and drops the others.
Complete(c, old) ==
    LET order == Bump(recent, c)
        kept  == IF Len(order) <= Retained THEN order
                 ELSE SubSeq(order, Len(order) - Retained + 1, Len(order))
        Kept(d) == \E i \in DOMAIN kept : kept[i] = d
    IN
    /\ sets' = [d \in Commit |-> IF d = c
                                 THEN [sets[c] EXCEPT !.complete = TRUE, !.there = TRUE, !.stray = old]
                                 ELSE IF Kept(d) THEN sets[d] ELSE NoSet]
    /\ recent' = kept
    \* The lease of an unstarted upload has no set, and stays.
    /\ leases' = [d \in Commit |-> IF d = c \/ (sets[d].there /\ ~Kept(d))
                                   THEN NoLease ELSE leases[d]]

\* The mutation at the head of the queue runs and its persist begins; or the
\* lease check refuses it.
Mutate ==
    LET r == Head(queue)
        c == agents[r.by].commit
        u == r.by
        begin == [on |-> TRUE, sets |-> sets, recent |-> recent, row |-> NoSet]
    IN
    /\ ~txn.on /\ queue # <<>>
    /\ \/ /\ r.op = "upload" /\ Holds(c, u)
          /\ sets' = [sets EXCEPT ![c] = [complete |-> FALSE, there |-> TRUE, stray |-> FALSE,
                                          maps |-> [@.maps EXCEPT ![r.file] = u]]]
          /\ recent' = Bump(recent, c)
          /\ leases' = [leases EXCEPT ![c].left = LeaseUnits]
          /\ txn' = [begin EXCEPT !.row = sets'[c]]
          /\ UNCHANGED <<queue, agents, errors>>
       \/ /\ r.op = "complete" /\ Holds(c, u)
          /\ Complete(c, r.old)
          /\ txn' = [begin EXCEPT !.row = sets'[c]]
          /\ UNCHANGED <<queue, agents, errors>>
       \/ /\ ~Holds(c, u)
          /\ queue' = Tail(queue)
          /\ agents' = IF r.waited THEN Failed({u}) ELSE agents
          \* A refusal counts as an error, but is not bounded like the faults.
          /\ errors' = IF errors < MaxErrors THEN errors + 1 ELSE errors
          /\ UNCHANGED <<sets, recent, leases, txn>>
    /\ UNCHANGED <<rows, saves, slow>>

\* The persist succeeds and the request is answered ...
Persisted ==
    LET r == Head(queue) IN
    /\ txn.on
    /\ StoreSet(agents[r.by].commit, txn.row)
    /\ agents' = IF ~r.waited THEN agents
                 ELSE IF r.op = "upload"
                 THEN [agents EXCEPT ![r.by].pc = "sending", ![r.by].sent = r.file]
                 ELSE [agents EXCEPT ![r.by].pc = "done"]
    /\ queue' = Tail(queue)
    /\ txn' = NoTxn
    /\ UNCHANGED <<sets, recent, leases, saves, errors, slow>>

\* ... or it fails: memory goes back to what it was, and every lease goes too.
PersistFails ==
    LET r == Head(queue) IN
    /\ txn.on /\ errors < MaxErrors
    /\ sets' = txn.sets
    /\ recent' = txn.recent
    /\ leases' = NoLeases
    /\ agents' = IF r.waited THEN Failed({r.by}) ELSE agents
    /\ queue' = Tail(queue)
    /\ txn' = NoTxn
    /\ errors' = errors + 1
    /\ UNCHANGED <<rows, saves, slow>>

\* The persist of a mutation that has nothing to do with source maps fails:
\* memory goes back, here to where it is, and every lease goes too.
OtherMutationFails ==
    /\ ~txn.on /\ errors < MaxErrors
    /\ leases' = NoLeases
    /\ errors' = errors + 1
    /\ UNCHANGED <<sets, recent, rows, queue, txn, saves, agents, slow>>

\* The broker restarts: the sets are those stored, nobody holds a lease, and
\* whoever waited for an answer gets an error.
Restart ==
    LET stored == {c \in Commit : rows[c].there}
        lost == {u \in Uploader : agents[u].pc \in {"requested", "saving"}}
    IN
    /\ errors < MaxErrors
    /\ errors' = errors + 1
    /\ sets' = rows
    /\ \E order \in [1..Cardinality(stored) -> stored] :
         /\ \A i, j \in DOMAIN order : order[i] = order[j] => i = j
         /\ recent' = order
    /\ leases' = NoLeases
    /\ queue' = <<>>
    /\ txn' = NoTxn
    /\ saves' = {}
    /\ agents' = Failed(lost)
    /\ UNCHANGED <<rows, slow>>

-----------------------------------------------------------------------------
\* 20 seconds pass: leases run down, and the agents that wait ask again.
Tick ==
    /\ \E u \in Uploader : Active(u) \/ agents[u].pc = "waiting"
    /\ leases' = [c \in Commit |-> [leases[c] EXCEPT !.left = IF @ > 0 THEN @ - 1 ELSE 0]]
    /\ agents' = [u \in Uploader |-> IF agents[u].pc = "waiting"
                                     THEN [agents[u] EXCEPT !.pc = "asking"] ELSE agents[u]]
    /\ slow' = IF slow <= Patience /\ (queue # <<>> \/ \E u \in Uploader : Active(u))
               THEN slow + 1 ELSE slow
    /\ UNCHANGED <<sets, recent, rows, queue, txn, saves, errors>>

MapsNext ==
    \/ \E u \in Uploader : Status(u) \/ Send(u) \/ Timeout(u) \/ StopAgent(u)
    \/ \E s \in saves : SaveEnds(s)
    \/ Mutate \/ Persisted \/ PersistFails \/ OtherMutationFails \/ Restart
    \/ Tick

MapsSpec == MapsInit /\ [][MapsNext]_mapsVars
\* Agents and broker go on, the store answers, and time passes.
MapsFairness ==
    /\ \A u \in Uploader : WF_mapsVars(Status(u)) /\ WF_mapsVars(Send(u))
    /\ WF_mapsVars(\E s \in saves : SaveEnds(s))
    /\ WF_mapsVars(Mutate) /\ WF_mapsVars(Persisted \/ PersistFails)
    /\ WF_mapsVars(Tick)

-----------------------------------------------------------------------------
(* Properties *)

\* A set never holds maps of two builds, in memory or stored: whoever takes
\* over from another uploader starts from an empty set, whatever the former
\* one still sends and whichever persists fail or restarts come in between.
NotMixed ==
    \A c \in Commit, f, g \in Path : \A s \in {sets[c], rows[c]} :
        (s.maps[f] # NoOne /\ s.maps[g] # NoOne) => s.maps[f] = s.maps[g]

\* A set that counts as complete, and is used to translate probe locations,
\* has every map of the build, although agents give up on requests that the
\* broker still works on.  The exception: a request to complete the set that was
\* given up, and that the broker comes to after its sender has lost the lease,
\* claimed it anew and so emptied the set.
CompleteIsWhole ==
    \A c \in Commit : \A f \in 1..Files[c] : \A s \in {sets[c], rows[c]} :
        s.complete /\ ~s.stray => s.maps[f] # NoOne

\* The uploader of a commit may stop at any moment: as long as one of its
\* agents goes on, no request fails, and uploads take no more than Patience
\* units, that agent asks until the lease has run out, and the set is completed.
EventuallyComplete ==
    \A c \in Commit :
        <>(\/ sets[c].complete
           \/ errors > 0 \/ slow > Patience
           \/ \A u \in Uploader : agents[u].commit = c => agents[u].pc = "stopped")
=============================================================================
