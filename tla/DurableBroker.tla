---------------------------- MODULE DurableBroker ----------------------------
(***************************************************************************)
(* The broker process around BrokerState: mutateDurably, the durable store *)
(* (JSON snapshot file or PostgreSQL rows), persist failures with their    *)
(* rollback, crashes and restarts, the TTL sweep, and agents that poll.    *)
(*                                                                         *)
(* mutateDurably chains mutations on one promise queue: the next starts    *)
(* when the previous one has persisted or rolled back.  Reads (poll, list, *)
(* data, safety) do not join the queue: they run while a persist is        *)
(* awaited, see the unpersisted state, and expire probes in it.            *)
(***************************************************************************)
EXTENDS BrokerState

CONSTANTS
    Agent,         \* polling runtime agents
    AgentSvc,      \* the service each agent serves
    Store,         \* "json" (JsonFileStore) or "postgres" (PostgresStore)
    CanFail,       \* TRUE: the store may refuse a write
    CanCrash,      \* TRUE: the broker process may die and restart
    MapServices,   \* services whose agents upload source maps
    ReportKinds,   \* kinds of events agents report
    MaxClock,      \* bound on the clock
    MaxReports,    \* bound on ingest batches
    MaxVersion,    \* bound on the versions a crash may be taken at
    NoProbe

ASSUME AgentSvcType == AgentSvc \in [Agent -> Service]
ASSUME StoreType == Store \in {"json", "postgres"}
ASSUME FaultType == CanFail \in BOOLEAN /\ CanCrash \in BOOLEAN
ASSUME MapServicesType == MapServices \subseteq Service
ASSUME ReportKindsType == ReportKinds \subseteq Kinds
ASSUME NoProbeFresh == NoProbe \notin Probe
ASSUME BoundsType == MaxClock \in Nat /\ MaxReports \in Nat /\ MaxVersion \in Nat

VARIABLES
    clock,     \* Date.now()
    mem,       \* the BrokerState object
    disk,      \* what the store holds
    inflight,  \* the mutation whose persist is awaited
    view,      \* per agent: last version seen and the probes it reconciled
    minted,    \* ids the generator has returned
    acked,     \* probes whose creation was answered 201 and that no
               \* completed deletion has removed
    reports    \* ingest batches so far

vars == <<clock, mem, disk, inflight, view, minted, acked, reports>>

Ops == {"idle", "create", "delete", "ingest", "maps", "sweep", "snapshot"}
Idle == [op |-> "idle", probe |-> NoProbe, before |-> EmptyMemory,
         write |-> EmptyMemory]
Views == [since : Nat, probes : SUBSET Probe, mapped : BOOLEAN]
NoView == [since |-> 0, probes |-> {}, mapped |-> FALSE]

TypeOK ==
    /\ clock \in Nat \ {0}
    /\ mem \in Memories
    /\ disk \in Memories
    /\ inflight \in [op : Ops, probe : Probe \cup {NoProbe},
                     before : Memories, write : Memories]
    /\ view \in [Agent -> Views]
    /\ minted \subseteq Probe
    /\ acked \subseteq Probe
    /\ reports \in Nat

Init ==
    /\ clock = 1
    /\ mem = EmptyMemory
    /\ disk = EmptyMemory
    /\ inflight = Idle
    /\ view = [a \in Agent |-> NoView]
    /\ minted = {}
    /\ acked = {}
    /\ reports = 0

-----------------------------------------------------------------------------
(* What each persist call leaves in the store.  The snapshot it writes is  *)
(* taken synchronously when the persist starts.  The JSON file is replaced *)
(* whole; PostgreSQL receives only the rows the mutation names.            *)

WriteProbe(after, p) ==
    IF Store = "json" THEN after
    ELSE [disk EXCEPT !.probes = disk.probes \cup {p},
                      !.expired = disk.expired \ {p},
                      !.expiresAt = [disk.expiresAt EXCEPT ![p] = after.expiresAt[p]],
                      !.version = [disk.version EXCEPT
                                     ![SvcOf[p]] = after.version[SvcOf[p]]]]

(* MUTANT: the delete statement names the service instead of the probe. *)
WriteDeleteService(after, p) ==
    IF Store = "json" THEN after
    ELSE [disk EXCEPT !.probes = {q \in disk.probes : SvcOf[q] # SvcOf[p]},
                      !.version = after.version]

WriteDelete(after, p) ==
    IF Store = "json" THEN after
    ELSE [disk EXCEPT !.probes = disk.probes \ {p},
                      !.expired = disk.expired \ {p},
                      !.expiresAt = [disk.expiresAt EXCEPT ![p] = 0],
                      !.events = [disk.events EXCEPT ![p] = <<>>],
                      !.status = [disk.status EXCEPT ![p] = NoStatus],
                      !.version = after.version]

(* probe_statuses rows are replaced only by a row that is not older. *)
NewerStatus(after, p) ==
    IF after.status[p].updatedAt >= disk.status[p].updatedAt
    THEN after.status[p] ELSE disk.status[p]

(* MUTANT: persistIngest stores statuses and forgets the events. *)
WriteIngestStatuses(after, ps) ==
    IF Store = "json" THEN after
    ELSE [disk EXCEPT
            !.status = [p \in Probe |-> IF p \in ps THEN NewerStatus(after, p)
                                                    ELSE disk.status[p]]]

WriteIngest(after, ps) ==
    IF Store = "json" THEN after
    ELSE [disk EXCEPT
            !.events = [p \in Probe |-> IF p \in ps THEN after.events[p]
                                                    ELSE disk.events[p]],
            !.status = [p \in Probe |-> IF p \in ps THEN NewerStatus(after, p)
                                                    ELSE disk.status[p]]]

(* persistSourceMapSet writes the set and its maps, no service version. *)
WriteMaps(after, s) ==
    IF Store = "json" THEN after ELSE [disk EXCEPT !.mapped = disk.mapped \cup {s}]

(* PostgresStore.persist upserts every row and removes none. *)
WriteAll(after) ==
    IF Store = "json" THEN after
    ELSE [disk EXCEPT
            !.probes = disk.probes \cup after.probes,
            !.expired = (disk.expired \ after.probes) \cup after.expired,
            !.expiresAt = [p \in Probe |-> IF p \in after.probes
                                           THEN after.expiresAt[p]
                                           ELSE disk.expiresAt[p]],
            !.events = [p \in Probe |-> IF p \in after.probes
                                        THEN after.events[p] ELSE disk.events[p]],
            !.status = [p \in Probe |-> IF p \in after.probes
                                        THEN NewerStatus(after, p)
                                        ELSE disk.status[p]],
            !.version = after.version]

-----------------------------------------------------------------------------
(* mutateDurably: snapshot, mutate, start the persist. *)
Mutate(op, p, after, write) ==
    /\ inflight.op = "idle"
    /\ mem' = after
    /\ inflight' = [op |-> op, probe |-> p, before |-> mem, write |-> write]

(* POST /v1/probes.  The guard on the clock only keeps the TTL in bounds. *)
BeginCreate(p) ==
    /\ p \notin minted
    /\ p \notin mem.probes
    /\ clock + Ttl[p] <= MaxClock
    /\ LET after == CreateProbe(mem, p, clock) IN
         Mutate("create", p, after, WriteProbe(after, p))
    /\ minted' = minted \cup {p}
    /\ UNCHANGED <<clock, disk, view, acked, reports>>

(* DELETE /v1/probes/:id, idempotent. *)
BeginDelete(p) ==
    /\ p \in minted
    /\ LET after == DeleteProbe(mem, p) IN
         Mutate("delete", p, after, WriteDelete(after, p))
    /\ UNCHANGED <<clock, disk, view, minted, acked, reports>>

(* POST /v1/ingest by an agent of service s.  A rejected batch throws out  *)
(* of the mutation: nothing is persisted and the expiry it caused stays.   *)
BeginIngest(s, batch) ==
    /\ reports < MaxReports
    /\ reports' = reports + 1
    /\ LET after == Ingest(mem, s, batch, clock) IN
         IF IngestAccepted(mem, s, batch)
         THEN Mutate("ingest", NoProbe, after, WriteIngest(after, DOMAIN batch))
         ELSE /\ inflight.op = "idle"
              /\ mem' = after
              /\ UNCHANGED inflight
    /\ UNCHANGED <<clock, disk, view, minted, acked>>

(* POST /v1/source-maps/complete.  Only an incomplete set can be leased. *)
BeginCompleteSourceMaps(s) ==
    /\ s \notin mem.mapped
    /\ LET after == CompleteSourceMaps(mem, s) IN
         Mutate("maps", NoProbe, after, WriteMaps(after, s))
    /\ UNCHANGED <<clock, disk, view, minted, acked, reports>>

(* The TTL timer: persists everything, but only if it expired something. *)
BeginSweep ==
    /\ Due(mem, clock) # {}
    /\ LET after == ExpireDueProbes(mem, clock) IN
         Mutate("sweep", NoProbe, after, WriteAll(after))
    /\ UNCHANGED <<clock, disk, view, minted, acked, reports>>

(* The snapshot timer of a store that is not incremental; rewriting an     *)
(* identical file is left out.                                             *)
BeginSnapshot ==
    /\ Store = "json"
    /\ disk # mem
    /\ Mutate("snapshot", NoProbe, mem, WriteAll(mem))
    /\ UNCHANGED <<clock, disk, view, minted, acked, reports>>

(* The probes still acknowledged once a mutation has reached the store. *)
AckedAfter(op, p) ==
    CASE op = "create" -> acked \cup {p}
      [] op = "delete" -> acked \ {p}
      [] OTHER -> acked

PersistOk ==
    /\ inflight.op # "idle"
    /\ disk' = inflight.write
    /\ acked' = AckedAfter(inflight.op, inflight.probe)
    /\ inflight' = Idle
    /\ UNCHANGED <<clock, mem, view, minted, reports>>

(* MUTANT: a failed write is reported but memory keeps the mutation. *)
PersistFailKeepsMemory ==
    /\ CanFail
    /\ inflight.op # "idle"
    /\ inflight' = Idle
    /\ UNCHANGED <<clock, mem, disk, view, minted, acked, reports>>

(* The store rejects: reload the snapshot taken before the mutation.  The  *)
(* snapshot timer has nothing to roll back.                                *)
PersistFail ==
    /\ CanFail
    /\ inflight.op # "idle"
    /\ mem' = IF inflight.op = "snapshot" THEN mem
              ELSE Restore(inflight.before, clock)
    /\ inflight' = Idle
    /\ UNCHANGED <<clock, disk, view, minted, acked, reports>>

(* MUTANT: the snapshot is written in place, so a crash can leave a file   *)
(* that holds nothing.                                                     *)
CrashInPlace ==
    /\ CanCrash
    /\ \A s \in Service : mem.version[s] <= MaxVersion
    /\ disk' = IF inflight.op = "idle" THEN disk ELSE EmptyMemory
    /\ mem' = Restore(disk', clock)
    /\ inflight' = Idle
    /\ UNCHANGED <<clock, view, minted, acked, reports>>

(* The process dies and a new one restores from the store.  A persist in   *)
(* flight has reached the store or not; nobody was answered.  Under        *)
(* PostgreSQL every crash expires again what only memory had expired, so   *)
(* versions grow with the number of crashes: MaxVersion bounds them.       *)
Crash ==
    /\ CanCrash
    /\ \A s \in Service : mem.version[s] <= MaxVersion
    /\ \E written \in {disk} \cup
                      (IF inflight.op = "idle" THEN {} ELSE {inflight.write}) :
         /\ disk' = written
         /\ mem' = Restore(written, clock)
    /\ acked' = IF inflight.op = "delete" THEN acked \ {inflight.probe} ELSE acked
    /\ inflight' = Idle
    /\ UNCHANGED <<clock, view, minted, reports>>

(* onClose waits for the queue, persists everything; the next start        *)
(* restores it.                                                            *)
CleanRestart ==
    /\ CanCrash
    /\ inflight.op = "idle"
    /\ disk' = WriteAll(mem)
    /\ mem' = Restore(disk', clock)
    /\ UNCHANGED <<clock, inflight, view, minted, acked, reports>>

(* GET /v1/probes, /v1/safety, /v1/probes/:id/data: not queued. *)
Read ==
    /\ Due(mem, clock) # {}
    /\ mem' = ExpireDueProbes(mem, clock)
    /\ UNCHANGED <<clock, disk, inflight, view, minted, acked, reports>>

(* GET /v1/services/:id/probes and the agent's reconciliation.  A lost     *)
(* answer leaves only the expiry behind, which is Read.                    *)
Poll(a) ==
    LET m == ExpireDueProbes(mem, clock)
        s == AgentSvc[a]
    IN  /\ mem' = m
        /\ view' = IF view[a].since = m.version[s] THEN view
                   ELSE [view EXCEPT ![a] =
                           [since |-> m.version[s], probes |-> Active(m, s),
                            mapped |-> s \in m.mapped]]
        /\ UNCHANGED <<clock, disk, inflight, minted, acked, reports>>

(* A new agent process starts from version 0. *)
AgentRestart(a) ==
    /\ view[a] # NoView
    /\ view' = [view EXCEPT ![a] = NoView]
    /\ UNCHANGED <<clock, mem, disk, inflight, minted, acked, reports>>

Tick ==
    /\ clock < MaxClock
    /\ clock' = clock + 1
    /\ UNCHANGED <<mem, disk, inflight, view, minted, acked, reports>>

Next ==
    \/ \E p \in Probe : BeginCreate(p)
    \/ \E p \in Probe : BeginDelete(p)
    \/ \E s \in Service, p \in Probe, k \in ReportKinds, ts \in {clock, clock - 1} \ {0} :
          BeginIngest(s, [q \in {p} |-> [kind |-> k, ts |-> ts]])
    \/ \E s \in MapServices : BeginCompleteSourceMaps(s)
    \/ BeginSweep
    \/ BeginSnapshot
    \/ PersistOk
    \/ PersistFail
    \/ Crash
    \/ CleanRestart
    \/ Read
    \/ \E a \in Agent : Poll(a)
    \/ \E a \in Agent : AgentRestart(a)
    \/ Tick

Spec == Init /\ [][Next]_vars

(* Timers and the store: the clock advances, an awaited persist settles,   *)
(* agents poll, and the sweep, being queued behind finitely many mutations *)
(* on a FIFO promise chain, gets its turn whenever it keeps being due.     *)
Fairness ==
    /\ WF_vars(Tick)
    /\ WF_vars(PersistOk \/ PersistFail)
    /\ SF_vars(BeginSweep)
    /\ \A a \in Agent : WF_vars(Poll(a))

(* The same with agents that never poll. *)
SweepFairness ==
    /\ WF_vars(Tick)
    /\ WF_vars(PersistOk \/ PersistFail)
    /\ SF_vars(BeginSweep)

LiveSpec == Spec /\ Fairness
SweepSpec == Spec /\ SweepFairness

-----------------------------------------------------------------------------
(* Safety *)

(* When no mutation is being persisted, memory and store agree on which    *)
(* probes exist and when they end, whatever writes failed and whenever the *)
(* process died; the store never knows of an expiry memory has forgotten.  *)
IdleInSync ==
    inflight.op = "idle" =>
        /\ mem.probes = disk.probes
        /\ mem.expiresAt = disk.expiresAt
        /\ disk.expired \subseteq mem.expired

(* A probe whose creation was answered 201 is in the store until a deletion *)
(* of it completes, and in memory until a deletion of it starts.           *)
AckedSurvives ==
    /\ acked \subseteq disk.probes
    /\ \A p \in acked : p \in mem.probes \/ (inflight.op = "delete" /\ inflight.probe = p)

(* Evidence answered 202 is durable: the ring of a probe that has not      *)
(* expired is the same in memory and in the store once nothing is awaited. *)
EventsDurable ==
    inflight.op = "idle" =>
        \A p \in mem.probes \ mem.expired : mem.events[p] = disk.events[p]

(* protocol.md 4.1: a caller whose `since` is the current version is told  *)
(* `unchanged`, so it must hold exactly the active probes and the mapping  *)
(* the broker has.                                                         *)
PollCoherent ==
    \A a \in Agent : LET s == AgentSvc[a] IN
        view[a].since = mem.version[s] =>
            /\ view[a].probes = Active(mem, s)
            /\ view[a].mapped = (s \in mem.mapped)

(* A service's version never goes back in a step that starts with nothing  *)
(* awaited: reads, queued mutations, restarts and crashes keep it.         *)
VersionMonotonicWhenIdle ==
    [][inflight.op = "idle" =>
         \A s \in Service : mem'.version[s] >= mem.version[s]]_vars

-----------------------------------------------------------------------------
(* Refinement *)

(* What polls of service s would be answered with now. *)
Published(s) == [since |-> mem.version[s], probes |-> Active(mem, s),
                 mapped |-> s \in mem.mapped]

Feed == INSTANCE ProbeFeed WITH feed <- [s \in Service |-> Published(s)]

(* Without faults the broker and its agents implement the abstract feed:   *)
(* every change of what a service's agents should run, by any handler,     *)
(* timer or expiring read, is published under a higher version.            *)
ImplementsFeed == Feed!FeedSpec

-----------------------------------------------------------------------------
(* Liveness *)

(* The TTL is enforced by the sweep alone: a stored probe whose time has   *)
(* come is flagged (or deleted) even if no request ever reaches the broker. *)
EventuallyExpired ==
    \A p \in Probe :
        (p \in mem.probes /\ mem.expiresAt[p] <= clock)
            ~> (p \notin mem.probes \/ p \in mem.expired)

(* An agent does not run a deleted or expired probe for ever. *)
GhostsRemoved ==
    \A a \in Agent, p \in Probe :
        (p \in view[a].probes /\ p \notin mem.probes \ mem.expired)
            ~> (p \notin view[a].probes)
==============================================================================
