----------------------------- MODULE BrokerState -----------------------------
(***************************************************************************)
(* The synchronous methods of class BrokerState that keep probes, service  *)
(* versions, retained events and statuses (packages/broker/src/index.ts).  *)
(* Node runs each method without interruption, so each one is an operator  *)
(* from a memory record to a memory record; the modules that extend this   *)
(* one decide when the methods run.                                        *)
(*                                                                         *)
(* A memory record m holds the Maps of the class:                          *)
(*   m.probes     keys of `probes` (every stored probe, expired or not)    *)
(*   m.expired    the stored probes whose `expired` flag is set            *)
(*   m.expiresAt  their `expiresAt` (0 for a probe that is not stored)     *)
(*   m.version    `serviceVersions` (0 for a service without an entry)     *)
(*   m.mapped     services whose source-map set for the deployed commit is *)
(*                complete                                                 *)
(*   m.events     the retained ring of each probe                          *)
(*   m.status     `statuses` (NoStatus for a probe without an entry)       *)
(* Times are positive; 0 stands for `undefined`.                           *)
(***************************************************************************)
EXTENDS Naturals, Sequences, FiniteSets

CONSTANTS
    Probe,          \* probe ids the generator can mint
    Service,        \* services (of one tenant/project/environment scope)
    SvcOf,          \* the service each probe targets
    Ttl,            \* ttlSeconds of each probe, in clock units
    RingCapacity    \* retained events per probe (500 in the code)

ASSUME ProbeFinite == IsFiniteSet(Probe)
ASSUME SvcOfType == SvcOf \in [Probe -> Service]
ASSUME TtlType == Ttl \in [Probe -> Nat \ {0}]
ASSUME RingType == RingCapacity \in Nat \ {0}

Kinds == {"data", "armed", "suspended", "error", "hit-limit-reached", "expired"}
StatusNames == Kinds \ {"data"}
NoStatus == [name |-> "none", updatedAt |-> 0, armedAt |-> 0]
StatusRecords == [name : StatusNames \cup {"none"}, updatedAt : Nat, armedAt : Nat]

Memories ==
    [probes : SUBSET Probe, expired : SUBSET Probe, expiresAt : [Probe -> Nat],
     version : [Service -> Nat], mapped : SUBSET Service,
     events : [Probe -> Seq(Kinds)], status : [Probe -> StatusRecords]]

EmptyMemory ==
    [probes |-> {}, expired |-> {}, expiresAt |-> [p \in Probe |-> 0],
     version |-> [s \in Service |-> 0], mapped |-> {},
     events |-> [p \in Probe |-> <<>>], status |-> [p \in Probe |-> NoStatus]]

(* The probes a poll of service s answers with. *)
Active(m, s) == {p \in m.probes \ m.expired : SvcOf[p] = s}

(* MUTANT: a probe outlives the instant its TTL ends. *)
DueLate(m, now) == {p \in m.probes \ m.expired : m.expiresAt[p] < now}

(* Probes whose TTL has run out and whose flag is not set yet. *)
Due(m, now) == {p \in m.probes \ m.expired : m.expiresAt[p] <= now}

(* appendEvent: push, then drop the oldest beyond the capacity. *)
Push(ring, kind) ==
    LET full == Append(ring, kind)
    IN  IF Len(full) > RingCapacity
        THEN SubSeq(full, Len(full) - RingCapacity + 1, Len(full))
        ELSE full

(* MUTANT: expiry without incrementServiceVersion. *)
ExpireDueProbesSilently(m, now) ==
    LET due == Due(m, now) IN
    [m EXCEPT
       !.expired = m.expired \cup due,
       !.events = [p \in Probe |->
            IF p \in due THEN Push(m.events[p], "expired") ELSE m.events[p]]]

(* expireDueProbes: flag, bump the version once per probe, replace the     *)
(* status (armedAt is carried over) and append an `expired` status event.  *)
ExpireDueProbes(m, now) ==
    LET due == Due(m, now) IN
    [m EXCEPT
       !.expired = m.expired \cup due,
       !.version = [s \in Service |->
            m.version[s] + Cardinality({p \in due : SvcOf[p] = s})],
       !.status = [p \in Probe |->
            IF p \in due
            THEN [name |-> "expired", updatedAt |-> now,
                  armedAt |-> m.status[p].armedAt]
            ELSE m.status[p]],
       !.events = [p \in Probe |->
            IF p \in due THEN Push(m.events[p], "expired") ELSE m.events[p]]]

(* incrementServiceVersion, on the Map of versions. *)
IncrementServiceVersion(version, s) == [version EXCEPT ![s] = @ + 1]

(* createProbe, for an input that passed validation and the capability     *)
(* gate; the caller picks an id that is not stored.                        *)
CreateProbe(m, p, now) ==
    [m EXCEPT !.version = IncrementServiceVersion(m.version, SvcOf[p]),
              !.probes = m.probes \cup {p},
              !.expired = m.expired \ {p},
              !.expiresAt = [m.expiresAt EXCEPT ![p] = now + Ttl[p]],
              !.events = [m.events EXCEPT ![p] = <<>>]]

(* MUTANT: deletion without incrementServiceVersion. *)
DeleteProbeSilently(m, p) ==
    [m EXCEPT !.probes = m.probes \ {p},
              !.expired = m.expired \ {p},
              !.expiresAt = [m.expiresAt EXCEPT ![p] = 0],
              !.events = [m.events EXCEPT ![p] = <<>>],
              !.status = [m.status EXCEPT ![p] = NoStatus]]

(* deleteProbe: the version moves only if agents still see the probe. *)
DeleteProbe(m, p) ==
    IF p \notin m.probes THEN m
    ELSE [m EXCEPT
            !.version = IF p \in m.expired THEN m.version
                        ELSE IncrementServiceVersion(m.version, SvcOf[p]),
            !.probes = m.probes \ {p},
            !.expired = m.expired \ {p},
            !.expiresAt = [m.expiresAt EXCEPT ![p] = 0],
            !.events = [m.events EXCEPT ![p] = <<>>],
            !.status = [m.status EXCEPT ![p] = NoStatus]]

(* A managed ingest batch maps each probe it reports on to one report: the *)
(* rings and statuses of different probes are independent, and several     *)
(* reports on one probe reach the same state as several batches.           *)
Reports == [kind : Kinds, ts : Nat]

IngestAccepted(m, s, batch) ==
    \A p \in DOMAIN batch : p \in m.probes /\ SvcOf[p] = s

ReportedStatus(old, report) ==
    [name |-> report.kind, updatedAt |-> report.ts,
     armedAt |-> IF report.kind = "armed" THEN report.ts ELSE old.armedAt]

(* ingest: expire first, then reject the whole batch for one foreign or    *)
(* unknown probe, else append every report and take over the statuses.     *)
Ingest(m, s, batch, now) ==
    LET e == ExpireDueProbes(m, now) IN
    IF ~IngestAccepted(e, s, batch) THEN e
    ELSE [e EXCEPT
            !.events = [p \in Probe |->
                IF p \in DOMAIN batch THEN Push(e.events[p], batch[p].kind)
                                      ELSE e.events[p]],
            !.status = [p \in Probe |->
                IF p \in DOMAIN batch /\ batch[p].kind # "data"
                THEN ReportedStatus(e.status[p], batch[p])
                ELSE e.status[p]]]

(* completeSourceMaps, for the holder of the upload lease. *)
CompleteSourceMaps(m, s) ==
    [m EXCEPT !.mapped = m.mapped \cup {s},
              !.version = IncrementServiceVersion(m.version, s)]

(* MUTANT: a restart that leaves overdue probes to the next reader. *)
RestoreLazily(snap, now) == snap

(* replaceWithSnapshot: every Map is reloaded, rings are cut to the        *)
(* capacity, and overdue probes expire before anything else runs.          *)
Restore(snap, now) ==
    ExpireDueProbes(
        [snap EXCEPT !.events = [p \in Probe |->
            IF Len(snap.events[p]) > RingCapacity
            THEN SubSeq(snap.events[p], Len(snap.events[p]) - RingCapacity + 1,
                        Len(snap.events[p]))
            ELSE snap.events[p]]],
        now)
==============================================================================
