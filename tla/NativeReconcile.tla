--------------------------- MODULE NativeReconcile ---------------------------
(***************************************************************************)
(* Native Linux agents against the broker: registration, replacement of    *)
(* the reported instance set, assignment polling, native ingest with its   *)
(* terminal latch and derived logical status, and what the store keeps of  *)
(* all that over a restart (packages/broker/src/index.ts, native routes;   *)
(* store/postgres.ts, its native part).                                     *)
(*                                                                         *)
(* A mutation and its persist are one step here and every persist          *)
(* succeeds: what happens in between is the subject of DurableBroker.      *)
(* Probes are those of one resource scope.  A probe keeps one version for  *)
(* its whole life, so its id stands for both in status keys, and the       *)
(* probe_version_changed answer cannot happen to an agent that reports on  *)
(* what it was assigned.  A batch holds at most one report per probe:      *)
(* several reach the state of several batches.  Diagnostic counters        *)
(* (nativeIngestHealth), event rings and the service catalogue entry       *)
(* (rebuildNativeServices) are left out, and so is an agent that cannot    *)
(* plan a site yet and keeps asking with its old version.                  *)
(***************************************************************************)
EXTENDS Naturals, FiniteSets, FiniteSetsExt

CONSTANTS
    Probe, Service, Agent,
    InstanceId,    \* instance ids (one per target process)
    Build,         \* GNU build ids
    SvcOf,         \* the service each probe targets
    InstSvc,       \* the service each instance belongs to
    Ttl,           \* lifetime of each probe
    Store,         \* "json" or "postgres"
    CanRestart,    \* TRUE: the broker process may restart
    StatusKinds,   \* statuses agents report
    Grace,         \* REMOVED_PROBE_GRACE_MS, in clock units
    MaxClock,      \* bound on the clock
    MaxVersion,    \* bound on assignment versions a step may start from
    MaxIngest      \* bound on ingest batches

ASSUME SvcOfType == SvcOf \in [Probe -> Service]
ASSUME InstSvcType == InstSvc \in [InstanceId -> Service]
ASSUME TtlType == Ttl \in [Probe -> Nat \ {0}]
ASSUME NativeStoreType == Store \in {"json", "postgres"} /\ CanRestart \in BOOLEAN
ASSUME NativeBounds == Grace \in Nat /\ MaxClock \in Nat /\ MaxVersion \in Nat /\ MaxIngest \in Nat
ASSUME FiniteInstances ==
    IsFiniteSet(InstanceId) /\ IsFiniteSet(Build) /\ IsFiniteSet(Probe) /\ IsFiniteSet(Agent)

StatusNames == {"armed", "error", "suspended", "hit-limit-reached", "expired"}
ASSUME StatusKindsType == StatusKinds \subseteq StatusNames

Instances == [id : InstanceId, build : Build]
Keys == Probe \X Agent \X Instances
NoStatus == [name |-> "none", updatedAt |-> 0, armedAt |-> 0]
Statuses == [name : StatusNames \cup {"none"}, updatedAt : Nat, armedAt : Nat]

(* What the broker keeps about native agents, in memory and in the store. *)
Records ==
    [probes : SUBSET Probe, expired : SUBSET Probe, expiresAt : [Probe -> Nat],
     agents : SUBSET Agent,                \* nativeAgents
     inst : [Agent -> SUBSET Instances],   \* nativeInstances
     native : [Keys -> Statuses],          \* nativeStatuses
     logical : [Probe -> Statuses],        \* statuses
     version : [Agent -> Nat]]             \* nativeAssignmentVersions

VARIABLES
    clock,
    mem,        \* the BrokerState object
    disk,       \* what the store holds
    removed,    \* recentlyRemovedProbes: when each was deleted, 0 if absent
    view,       \* per agent: last version and the assignments it reconciled
    held,       \* per agent: probes it was ever assigned, whose events it may
                \* still deliver
    minted,     \* ids ever created
    deletedAt,  \* history: when each probe was deleted (0: never)
    ended,      \* history: keys an accepted status has terminated
    lost,       \* history: stored probes whose events were refused because
                \* the batch named a probe deleted within the grace period
    batches     \* number of ingest batches

vars == <<clock, mem, disk, removed, view, held, minted, deletedAt, ended,
          lost, batches>>

Init ==
    /\ clock = 1
    /\ mem = [probes |-> {}, expired |-> {}, expiresAt |-> [p \in Probe |-> 0],
              agents |-> {}, inst |-> [a \in Agent |-> {}],
              native |-> [k \in Keys |-> NoStatus],
              logical |-> [p \in Probe |-> NoStatus],
              version |-> [a \in Agent |-> 0]]
    /\ disk = mem
    /\ removed = [p \in Probe |-> 0]
    /\ view = [a \in Agent |-> [since |-> 0, desired |-> {}]]
    /\ held = [a \in Agent |-> {}]
    /\ minted = {}
    /\ deletedAt = [p \in Probe |-> 0]
    /\ ended = {}
    /\ lost = {}
    /\ batches = 0

-----------------------------------------------------------------------------
(* nativeStatusEndsAssignment *)
EndsAssignment(name) == name \in {"hit-limit-reached", "suspended", "expired"}

(* MUTANT: only managed services are numbered. *)
BumpServiceManagedOnly(m, s) == m.version

(* incrementServiceVersion, its native half: an agent moves once for each  *)
(* instance of the service it runs.                                        *)
BumpService(m, s) ==
    [a \in Agent |-> m.version[a] + Cardinality({i \in m.inst[a] : InstSvc[i.id] = s})]

(* expireDueProbes *)
ExpireDueProbes(m) ==
    LET due == {p \in m.probes \ m.expired : m.expiresAt[p] <= clock}
        hits(a) == {pi \in due \X m.inst[a] : InstSvc[pi[2].id] = SvcOf[pi[1]]}
    IN  [m EXCEPT
           !.expired = m.expired \cup due,
           !.logical = [p \in Probe |->
               IF p \in due
               THEN [name |-> "expired", updatedAt |-> clock,
                     armedAt |-> m.logical[p].armedAt]
               ELSE m.logical[p]],
           !.version = [a \in Agent |-> m.version[a] + Cardinality(hits(a))]]

(* The desired state nativeAssignments computes: pairs of an instance and  *)
(* a probe of its service that is neither expired nor terminated there.    *)
Desired(m, a) ==
    {ip \in m.inst[a] \X (m.probes \ m.expired) :
        /\ InstSvc[ip[1].id] = SvcOf[ip[2]]
        /\ ~EndsAssignment(m.native[<<ip[2], a, ip[1]>>].name)}

-----------------------------------------------------------------------------
(* What the persist calls write. *)

(* snapshot(): statuses of probes that are gone are not saved. *)
Snapshot(m) == [m EXCEPT !.native = [k \in Keys |->
                    IF k[1] \in m.probes THEN m.native[k] ELSE NoStatus]]

(* Rows of native_probe_statuses and probe_statuses are replaced only by   *)
(* rows that are not older; versions only grow.                            *)
Newer(new, old) == IF new.updatedAt >= old.updatedAt THEN new ELSE old
Greatest(new, old) == IF new >= old THEN new ELSE old

(* insertNativeState with everything, as persistProbe, deleteProbe and the *)
(* full persist call it.                                                   *)
InsertNativeState(m) ==
    [disk EXCEPT
       !.agents = disk.agents \cup m.agents,
       !.inst = [a \in Agent |-> m.inst[a] \cup
                   {i \in disk.inst[a] : \A j \in m.inst[a] : j.id # i.id}],
       !.native = [k \in Keys |-> IF k[1] \in m.probes
                                  THEN Newer(m.native[k], disk.native[k])
                                  ELSE disk.native[k]],
       !.version = [a \in Agent |-> Greatest(m.version[a], disk.version[a])]]

PersistProbe(m, p) ==
    IF Store = "json" THEN Snapshot(m)
    ELSE [InsertNativeState(m) EXCEPT
            !.probes = disk.probes \cup {p},
            !.expiresAt = [disk.expiresAt EXCEPT ![p] = m.expiresAt[p]]]

PersistDelete(m, p) ==
    IF Store = "json" THEN Snapshot(m)
    ELSE [InsertNativeState(m) EXCEPT
            !.probes = disk.probes \ {p},
            !.expired = disk.expired \ {p},
            !.expiresAt = [disk.expiresAt EXCEPT ![p] = 0],
            !.logical = [disk.logical EXCEPT ![p] = NoStatus]]

PersistAll(m) ==
    IF Store = "json" THEN Snapshot(m)
    ELSE [InsertNativeState(m) EXCEPT
            !.probes = disk.probes \cup m.probes,
            !.expired = disk.expired \cup m.expired,
            !.logical = [p \in Probe |-> IF p \in m.probes
                                         THEN Newer(m.logical[p], disk.logical[p])
                                         ELSE disk.logical[p]]]

PersistNativeAgent(m, a) ==
    IF Store = "json" THEN Snapshot(m)
    ELSE [disk EXCEPT
            !.agents = disk.agents \cup {a},
            !.version = [disk.version EXCEPT ![a] = Greatest(m.version[a], @)]]

(* persistNativeInstances also deletes the statuses of instances that are  *)
(* no longer reported.                                                     *)
PersistNativeInstances(m, a) ==
    IF Store = "json" THEN Snapshot(m)
    ELSE [disk EXCEPT
            !.inst = [disk.inst EXCEPT ![a] = m.inst[a]],
            !.native = [k \in Keys |-> IF k[2] = a /\ k[3] \notin m.inst[a]
                                       THEN NoStatus ELSE disk.native[k]],
            !.version = [disk.version EXCEPT ![a] = Greatest(m.version[a], @)]]

PersistNativeIngest(m, a, i, ps) ==
    IF Store = "json" THEN Snapshot(m)
    ELSE [disk EXCEPT
            !.native = [k \in Keys |-> IF k[1] \in ps \cap m.probes /\ k[2] = a /\ k[3] = i
                                       THEN Newer(m.native[k], disk.native[k])
                                       ELSE disk.native[k]],
            !.logical = [p \in Probe |-> IF p \in ps \cap m.probes
                                         THEN Newer(m.logical[p], disk.logical[p])
                                         ELSE disk.logical[p]],
            !.version = [disk.version EXCEPT ![a] = Greatest(m.version[a], @)]]

-----------------------------------------------------------------------------
(* POST /v1/probes for a native service: createProbe. *)
Create(p) ==
    /\ p \notin minted
    /\ clock + Ttl[p] <= MaxClock
    /\ LET m == [mem EXCEPT !.probes = mem.probes \cup {p},
                            !.expiresAt = [mem.expiresAt EXCEPT ![p] = clock + Ttl[p]],
                            !.version = BumpService(mem, SvcOf[p])]
       IN  mem' = m /\ disk' = PersistProbe(m, p)
    /\ minted' = minted \cup {p}
    /\ UNCHANGED <<clock, removed, view, held, deletedAt, ended, lost, batches>>

(* DELETE /v1/probes/:id: deleteProbe, which remembers the removal. *)
Delete(p) ==
    /\ p \in mem.probes
    /\ LET m == [mem EXCEPT !.probes = mem.probes \ {p},
                            !.expired = mem.expired \ {p},
                            !.expiresAt = [mem.expiresAt EXCEPT ![p] = 0],
                            !.logical = [mem.logical EXCEPT ![p] = NoStatus],
                            !.version = IF p \in mem.expired THEN mem.version
                                        ELSE BumpService(mem, SvcOf[p])]
       IN  mem' = m /\ disk' = PersistDelete(m, p)
    /\ removed' = [removed EXCEPT ![p] = clock]
    /\ deletedAt' = [deletedAt EXCEPT ![p] = clock]
    /\ UNCHANGED <<clock, view, held, minted, ended, lost, batches>>

(* The TTL sweep persists what it expires, a read does not. *)
Expire ==
    /\ ExpireDueProbes(mem) # mem
    /\ mem' = ExpireDueProbes(mem)
    /\ disk' \in {disk, PersistAll(mem')}
    /\ UNCHANGED <<clock, removed, view, held, minted, deletedAt, ended, lost, batches>>

(* POST /v1/native/agents/register, which agents repeat before every poll, *)
(* keeps an existing version.                                              *)
Register(a) ==
    /\ mem' = [mem EXCEPT !.agents = mem.agents \cup {a}]
    /\ disk' = PersistNativeAgent(mem', a)
    /\ UNCHANGED <<clock, removed, view, held, minted, deletedAt, ended, lost, batches>>

(* The effect of an accepted instance report: a change moves the version. *)
TakeInstances(a, reported) ==
    /\ mem' = [mem EXCEPT
                 !.inst = [mem.inst EXCEPT ![a] = reported],
                 !.version = IF reported = mem.inst[a] THEN mem.version
                             ELSE [mem.version EXCEPT ![a] = @ + 1]]
    /\ disk' = PersistNativeInstances(mem', a)
    /\ UNCHANGED <<clock, removed, view, held, minted, deletedAt, ended, lost, batches>>

(* MUTANT: no ownership check. *)
ReplaceInstancesUnowned(a, reported) ==
    /\ a \in mem.agents
    /\ mem.version[a] < MaxVersion
    /\ TakeInstances(a, reported)

(* PUT /v1/native/agents/:id/instances: an instance id that another agent  *)
(* holds refuses the whole report (409).                                   *)
ReplaceInstances(a, reported) ==
    /\ a \in mem.agents
    /\ mem.version[a] < MaxVersion
    /\ \A i \in reported, b \in Agent \ {a} : \A j \in mem.inst[b] : j.id # i.id
    /\ TakeInstances(a, reported)

(* GET /v1/native/agents/:id/assignments and the agent's reconciliation:   *)
(* it keeps its sites if the version is the one it has.                    *)
Assignments(a) ==
    /\ a \in mem.agents
    /\ LET m == ExpireDueProbes(mem) IN
         /\ mem' = m
         /\ IF view[a].since = m.version[a] THEN UNCHANGED <<view, held>>
            ELSE /\ view' = [view EXCEPT ![a] =
                              [since |-> m.version[a], desired |-> Desired(m, a)]]
                 /\ held' = [held EXCEPT ![a] = @ \cup {ip[2] : ip \in Desired(m, a)}]
    /\ UNCHANGED <<clock, disk, removed, minted, deletedAt, ended, lost, batches>>

(* The agent process restarts: version 0, no sites, an empty send queue. *)
AgentRestart(a) ==
    /\ CanRestart
    /\ view' = [view EXCEPT ![a] = [since |-> 0, desired |-> {}]]
    /\ held' = [held EXCEPT ![a] = {}]
    /\ UNCHANGED <<clock, mem, disk, removed, minted, deletedAt, ended, lost, batches>>

-----------------------------------------------------------------------------
(* The most recent status; of equally recent ones the code takes the first *)
(* in Map order, the model an arbitrary one.                               *)
Latest(S) == CHOOSE s \in S : \A t \in S : t.updatedAt <= s.updatedAt

(* deriveNativeArmedAt *)
DeriveArmedAt(m, armed, p) ==
    IF m.logical[p].armedAt # 0 \/ armed = {} THEN m.logical[p].armedAt
    ELSE Min({s.updatedAt : s \in armed})

(* deriveNativeLogicalStatus: while some instance is silent or armed only  *)
(* an armed status counts, otherwise the latest one does.                  *)
DeriveLogical(m, native, p) ==
    LET live == {ai \in Agent \X Instances :
                    ai[2] \in m.inst[ai[1]] /\ InstSvc[ai[2].id] = SvcOf[p]}
        all == {native[<<p, ai[1], ai[2]>>] : ai \in live}
        defined == all \ {NoStatus}
        armed == {s \in defined : s.name = "armed"}
        take(S) == IF S = {} THEN m.logical[p]
                   ELSE [Latest(S) EXCEPT !.armedAt = DeriveArmedAt(m, armed, p)]
    IN  IF p \notin m.probes \ m.expired THEN m.logical[p]
        ELSE IF NoStatus \in all \/ armed # {} THEN take(armed)
        ELSE take(defined)

(* MUTANT: timestamps order statuses, but nothing latches. *)
IgnoredIfOlder(previous, report) ==
    report.kind = "data" \/ report.ts < previous.updatedAt

(* Only statuses are recorded; one that is older than the recorded status, *)
(* or would resurrect an assignment that has ended, is ignored.            *)
Ignored(previous, report) ==
    \/ report.kind = "data"
    \/ report.ts < previous.updatedAt
    \/ EndsAssignment(previous.name) /\ ~EndsAssignment(report.kind)

Recorded(previous, report) ==
    IF Ignored(previous, report) THEN previous
    ELSE [name |-> report.kind, updatedAt |-> report.ts, armedAt |-> 0]

(* MUTANT: the window closes one unit early. *)
PrunedEarly == [p \in Probe |-> IF removed[p] + Grace <= clock + 1 THEN 0 ELSE removed[p]]

(* pruneRemovedProbes *)
Pruned == [p \in Probe |-> IF removed[p] + Grace <= clock THEN 0 ELSE removed[p]]

Known(batch) == DOMAIN batch \cap mem.probes

(* POST /v1/native/ingest for an instance that is still the reported one.  *)
(* Events of recently removed probes are skipped; any other unknown probe  *)
(* refuses the batch.  The agent reports on probes it was assigned.        *)
IngestNative(a, i, batch) ==
    /\ batches < MaxIngest
    /\ batches' = batches + 1
    /\ i \in mem.inst[a]
    /\ \A p \in DOMAIN batch : p \in held[a] /\ SvcOf[p] = InstSvc[i.id]
    /\ removed' = Pruned
    /\ LET stale == {p \in DOMAIN batch \ mem.probes : Pruned[p] # 0}
           native == [k \in Keys |->
                        IF k[1] \in Known(batch) /\ k[2] = a /\ k[3] = i
                        THEN Recorded(mem.native[k], batch[k[1]])
                        ELSE mem.native[k]]
           newly == {k \in Keys : EndsAssignment(native[k].name)
                                  /\ ~EndsAssignment(mem.native[k].name)}
           unknown == (DOMAIN batch \ mem.probes) \ stale
       IN  IF unknown = {}
           THEN /\ mem' = [mem EXCEPT
                      !.native = native,
                      !.logical = [p \in Probe |->
                         IF p \in Known(batch)
                            /\ ~Ignored(mem.native[<<p, a, i>>], batch[p])
                         THEN DeriveLogical(mem, native, p) ELSE mem.logical[p]],
                      !.version = [mem.version EXCEPT ![a] = @ + Cardinality(newly)]]
                /\ disk' = PersistNativeIngest(mem', a, i, DOMAIN batch)
                /\ ended' = ended \cup newly
                /\ UNCHANGED lost
           ELSE /\ lost' = IF \A p \in unknown : deletedAt[p] # 0 /\ deletedAt[p] + Grace > clock
                           THEN lost \cup Known(batch) ELSE lost
                /\ UNCHANGED <<mem, disk, ended>>
    /\ UNCHANGED <<clock, view, held, minted, deletedAt>>

(* The broker dies, or closes after a last full persist, and restores.     *)
(* recentlyRemovedProbes is not part of a snapshot.                        *)
Restart ==
    /\ CanRestart
    /\ \A a \in Agent : mem.version[a] < MaxVersion
    /\ disk' \in {disk, PersistAll(mem)}
    /\ mem' = ExpireDueProbes(disk')
    /\ removed' = [p \in Probe |-> 0]
    /\ UNCHANGED <<clock, view, held, minted, deletedAt, ended, lost, batches>>

Tick ==
    /\ clock < MaxClock
    /\ clock' = clock + 1
    /\ UNCHANGED <<mem, disk, removed, view, held, minted, deletedAt, ended, lost, batches>>

ReportKinds == {"data"} \cup StatusKinds

(* Agents report complete instance sets: one build per instance id. *)
InstanceSets == {S \in SUBSET Instances : \A i, j \in S : i.id = j.id => i = j}

Batches == UNION {[ps -> [kind : ReportKinds, ts : {clock, clock - 1} \ {0}]] :
                    ps \in SUBSET Probe \ {{}}}

Next ==
    \/ \E p \in Probe : Create(p) \/ Delete(p)
    \/ Expire
    \/ \E a \in Agent : Register(a) \/ Assignments(a) \/ AgentRestart(a)
    \/ \E a \in Agent, S \in InstanceSets : ReplaceInstances(a, S)
    \/ \E a \in Agent, i \in Instances, b \in Batches : IngestNative(a, i, b)
    \/ Restart
    \/ Tick

Spec == Init /\ [][Next]_vars

LiveSpec == Spec /\ \A a \in Agent : WF_vars(Assignments(a))

-----------------------------------------------------------------------------
NativeTypeOK ==
    /\ clock \in Nat
    /\ mem \in Records
    /\ disk \in Records
    /\ removed \in [Probe -> Nat]
    /\ view \in [Agent -> [since : Nat, desired : SUBSET (Instances \X Probe)]]
    /\ held \in [Agent -> SUBSET Probe]
    /\ minted \subseteq Probe
    /\ deletedAt \in [Probe -> Nat]
    /\ ended \subseteq Keys
    /\ lost \subseteq Probe
    /\ batches \in Nat

(* An agent that holds the current assignment version runs exactly the     *)
(* desired state: no probe, instance or status change goes unnumbered.     *)
AssignmentsCoherent ==
    \A a \in Agent : view[a].since = mem.version[a] => view[a].desired = Desired(mem, a)

(* protocol.md 4.4: a status that ends an assignment latches, and one      *)
(* instance cannot terminate another.  The desired state of an instance is *)
(* the active probes of its service without those ended on that instance.  *)
EndedExactly ==
    \A a \in Agent, i \in Instances : i \in mem.inst[a] =>
        {p \in Probe : <<i, p>> \in Desired(mem, a)} =
        {p \in mem.probes \ mem.expired :
            SvcOf[p] = InstSvc[i.id] /\ <<p, a, i>> \notin ended}

(* A target process is assigned through one agent only. *)
OneOwner ==
    \A a, b \in Agent : \A i \in mem.inst[a], j \in mem.inst[b] :
        i.id = j.id => a = b /\ i = j

(* Evidence of live probes is not refused because the batch also holds     *)
(* events of a probe whose removal is an expected race.                    *)
NoCollateralLoss == lost = {}

(* An agent does not keep running a probe that is no longer desired. *)
AssignmentsConverge ==
    \A a \in Agent : \A ip \in Instances \X Probe :
        (ip \in view[a].desired /\ ip \notin Desired(mem, a))
            ~> (ip \notin view[a].desired \/ ip \in Desired(mem, a))
==============================================================================
