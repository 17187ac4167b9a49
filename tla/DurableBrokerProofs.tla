------------------------ MODULE DurableBrokerProofs ------------------------
(***************************************************************************)
(* Proofs about DurableBroker, for every set of probes, services and       *)
(* agents, both stores, and every bound.                                   *)
(***************************************************************************)
EXTENDS DurableBroker, FiniteSetTheorems, TLAPS

(* Sets of probes are finite; only the empty one has no element to count. *)
LEMMA ProbeCount ==
    ASSUME NEW S \in SUBSET Probe
    PROVE  /\ Cardinality(S) \in Nat
           /\ S # {} => Cardinality(S) > 0
           /\ S = {} => Cardinality(S) = 0
<1>1. IsFiniteSet(S)
  BY ProbeFinite, FS_Subset
<1>2. Cardinality(S) \in Nat
  BY <1>1, FS_CardinalityType
<1>3. Cardinality(S) = 0 <=> S = {}
  BY <1>1, FS_EmptySet
<1> QED
  BY <1>2, <1>3

(* appendEvent keeps a ring a sequence of event kinds. *)
LEMMA PushType ==
    ASSUME NEW ring \in Seq(Kinds), NEW kind \in Kinds
    PROVE  Push(ring, kind) \in Seq(Kinds)
<1> DEFINE full == Append(ring, kind)
<1>1. full \in Seq(Kinds) /\ Len(full) \in Nat
  OBVIOUS
<1>2. CASE Len(full) > RingCapacity
  <2>1. SubSeq(full, Len(full) - RingCapacity + 1, Len(full)) \in Seq(Kinds)
    BY <1>1, <1>2, RingType
  <2> QED
    BY <1>2, <2>1 DEF Push
<1>3. CASE ~(Len(full) > RingCapacity)
  BY <1>1, <1>3 DEF Push
<1> QED
  BY <1>2, <1>3

(* The fields of an expired memory, one by one. *)
LEMMA ExpireFields ==
    ASSUME NEW m \in Memories, NEW now \in Nat
    PROVE  LET e == ExpireDueProbes(m, now)
               due == Due(m, now)
           IN  /\ e \in Memories
               /\ e.probes = m.probes
               /\ e.expired = m.expired \cup due
               /\ e.expiresAt = m.expiresAt
               /\ e.mapped = m.mapped
               /\ e.version = [s \in Service |->
                     m.version[s] + Cardinality({p \in due : SvcOf[p] = s})]
<1> DEFINE due == Due(m, now)
           e == ExpireDueProbes(m, now)
           ver == [s \in Service |->
                     m.version[s] + Cardinality({p \in due : SvcOf[p] = s})]
           st == [p \in Probe |->
                    IF p \in due
                    THEN [name |-> "expired", updatedAt |-> now,
                          armedAt |-> m.status[p].armedAt]
                    ELSE m.status[p]]
           ev == [p \in Probe |->
                    IF p \in due THEN Push(m.events[p], "expired")
                                 ELSE m.events[p]]
<1>1. due \subseteq Probe
  BY DEF Due, Memories
<1>2. ver \in [Service -> Nat]
  <2> SUFFICES ASSUME NEW s \in Service
               PROVE  m.version[s] + Cardinality({p \in due : SvcOf[p] = s}) \in Nat
    OBVIOUS
  <2>1. {p \in due : SvcOf[p] = s} \in SUBSET Probe
    BY <1>1
  <2>2. Cardinality({p \in due : SvcOf[p] = s}) \in Nat
    BY <2>1, ProbeCount
  <2>3. m.version[s] \in Nat
    BY DEF Memories
  <2> QED
    BY <2>2, <2>3
<1>3. st \in [Probe -> StatusRecords]
  BY <1>1 DEF Memories, StatusRecords, StatusNames, Kinds
<1>4. ev \in [Probe -> Seq(Kinds)]
  <2> SUFFICES ASSUME NEW p \in Probe
               PROVE  Push(m.events[p], "expired") \in Seq(Kinds) /\ m.events[p] \in Seq(Kinds)
    OBVIOUS
  <2>1. m.events[p] \in Seq(Kinds)
    BY DEF Memories
  <2>2. "expired" \in Kinds
    BY DEF Kinds
  <2> QED
    BY <2>1, <2>2, PushType
<1>5. e = [m EXCEPT !.expired = m.expired \cup due, !.version = ver,
                    !.status = st, !.events = ev]
  BY DEF ExpireDueProbes
<1> HIDE DEF due, e, ver, st, ev
<1>6. e \in Memories /\ e.probes = m.probes /\ e.expired = m.expired \cup due
      /\ e.expiresAt = m.expiresAt /\ e.mapped = m.mapped /\ e.version = ver
  BY <1>1, <1>2, <1>3, <1>4, <1>5 DEF Memories
<1> QED
  BY <1>6 DEF due, e, ver

(* loadSnapshot reloads the probes it is given and only adds expiries. *)
LEMMA RestoreFields ==
    ASSUME NEW m \in Memories, NEW now \in Nat
    PROVE  LET r == Restore(m, now) IN
           /\ r \in Memories
           /\ r.probes = m.probes
           /\ r.expiresAt = m.expiresAt
           /\ r.expired = m.expired \cup Due(m, now)
           /\ r.version = [s \in Service |->
                 m.version[s] + Cardinality({p \in Due(m, now) : SvcOf[p] = s})]
<1> DEFINE ev == [p \in Probe |->
                    IF Len(m.events[p]) > RingCapacity
                    THEN SubSeq(m.events[p], Len(m.events[p]) - RingCapacity + 1,
                                Len(m.events[p]))
                    ELSE m.events[p]]
           cut == [m EXCEPT !.events = ev]
<1>1. ev \in [Probe -> Seq(Kinds)]
  <2> SUFFICES ASSUME NEW p \in Probe
               PROVE  ev[p] \in Seq(Kinds)
    OBVIOUS
  <2>1. m.events[p] \in Seq(Kinds) /\ Len(m.events[p]) \in Nat
    BY DEF Memories
  <2>2. Len(m.events[p]) > RingCapacity =>
          SubSeq(m.events[p], Len(m.events[p]) - RingCapacity + 1,
                 Len(m.events[p])) \in Seq(Kinds)
    BY <2>1, RingType
  <2> QED
    BY <2>1, <2>2
<1>2. Restore(m, now) = ExpireDueProbes(cut, now)
  BY DEF Restore
<1> HIDE DEF ev
<1>3. cut \in Memories /\ cut.probes = m.probes /\ cut.expired = m.expired
      /\ cut.expiresAt = m.expiresAt /\ cut.version = m.version
  BY <1>1 DEF Memories
<1> HIDE DEF cut
<1>4. Due(cut, now) = Due(m, now)
  BY <1>3 DEF Due
<1> QED
  BY <1>2, <1>3, <1>4, ExpireFields

(* createProbe adds one probe and moves its service's version. *)
LEMMA CreateFields ==
    ASSUME NEW m \in Memories, NEW p \in Probe, NEW now \in Nat
    PROVE  LET c == CreateProbe(m, p, now) IN
           /\ c \in Memories
           /\ c.probes = m.probes \cup {p}
           /\ c.expired = m.expired \ {p}
           /\ c.expiresAt = [m.expiresAt EXCEPT ![p] = now + Ttl[p]]
           /\ c.mapped = m.mapped
           /\ c.version = IncrementServiceVersion(m.version, SvcOf[p])
<1>1. now + Ttl[p] \in Nat /\ SvcOf[p] \in Service /\ <<>> \in Seq(Kinds)
  BY TtlType, SvcOfType
<1> DEFINE ver == IncrementServiceVersion(m.version, SvcOf[p])
           xa == [m.expiresAt EXCEPT ![p] = now + Ttl[p]]
           ev == [m.events EXCEPT ![p] = <<>>]
<1>2. ver \in [Service -> Nat] /\ xa \in [Probe -> Nat] /\ ev \in [Probe -> Seq(Kinds)]
  BY <1>1 DEF Memories, IncrementServiceVersion
<1>3. CreateProbe(m, p, now) =
        [m EXCEPT !.version = ver, !.probes = m.probes \cup {p},
                  !.expired = m.expired \ {p}, !.expiresAt = xa, !.events = ev]
  BY DEF CreateProbe
<1> DEFINE ps == m.probes \cup {p}
           ex == m.expired \ {p}
<1>4. ps \in SUBSET Probe /\ ex \in SUBSET Probe
  BY DEF Memories
<1> HIDE DEF ver, xa, ev, ps, ex
<1>5. CreateProbe(m, p, now) =
        [m EXCEPT !.version = ver, !.probes = ps,
                  !.expired = ex, !.expiresAt = xa, !.events = ev]
  BY <1>3 DEF ps, ex
<1>6. CreateProbe(m, p, now) \in Memories
      /\ CreateProbe(m, p, now).probes = ps
      /\ CreateProbe(m, p, now).expired = ex
      /\ CreateProbe(m, p, now).expiresAt = xa
      /\ CreateProbe(m, p, now).mapped = m.mapped
      /\ CreateProbe(m, p, now).version = ver
  BY <1>2, <1>4, <1>5 DEF Memories
<1> QED
  BY <1>1, <1>6 DEF ver, xa, ps, ex

(* deleteProbe removes one probe, stored or not, and moves the version of  *)
(* its service only if the probe was active.                               *)
LEMMA DeleteFields ==
    ASSUME NEW m \in Memories, NEW p \in Probe
    PROVE  LET d == DeleteProbe(m, p) IN
           /\ d \in Memories
           /\ d.probes = m.probes \ {p}
           /\ d.mapped = m.mapped
           /\ d.expired \subseteq m.expired
           /\ m.expired \ {p} \subseteq d.expired
           /\ p \in m.probes =>
                /\ d.expired = m.expired \ {p}
                /\ d.expiresAt = [m.expiresAt EXCEPT ![p] = 0]
                /\ d.version = IF p \in m.expired THEN m.version
                               ELSE IncrementServiceVersion(m.version, SvcOf[p])
           /\ p \notin m.probes => d = m
<1>1. SvcOf[p] \in Service /\ <<>> \in Seq(Kinds) /\ NoStatus \in StatusRecords
  BY SvcOfType DEF NoStatus, StatusRecords, StatusNames, Kinds
<1>2. CASE p \notin m.probes
  BY <1>2 DEF DeleteProbe, Memories
<1>3. CASE p \in m.probes
  <2> DEFINE ver == IF p \in m.expired THEN m.version
                    ELSE IncrementServiceVersion(m.version, SvcOf[p])
             xa == [m.expiresAt EXCEPT ![p] = 0]
             ev == [m.events EXCEPT ![p] = <<>>]
             st == [m.status EXCEPT ![p] = NoStatus]
  <2>1. ver \in [Service -> Nat]
    BY <1>1 DEF Memories, IncrementServiceVersion
  <2>2. xa \in [Probe -> Nat] /\ ev \in [Probe -> Seq(Kinds)] /\ st \in [Probe -> StatusRecords]
    BY <1>1 DEF Memories
  <2>3. DeleteProbe(m, p) =
          [m EXCEPT !.version = ver, !.probes = m.probes \ {p},
                    !.expired = m.expired \ {p}, !.expiresAt = xa,
                    !.events = ev, !.status = st]
    BY <1>3 DEF DeleteProbe
  <2> HIDE DEF ver, xa, ev, st
  <2>4. DeleteProbe(m, p) \in Memories
        /\ DeleteProbe(m, p).probes = m.probes \ {p}
        /\ DeleteProbe(m, p).expired = m.expired \ {p}
        /\ DeleteProbe(m, p).expiresAt = xa
        /\ DeleteProbe(m, p).mapped = m.mapped
        /\ DeleteProbe(m, p).version = ver
    BY <2>1, <2>2, <2>3, ZenonT(60) DEF Memories
  <2> QED
    BY <1>3, <2>4 DEF ver, xa
<1> QED
  BY <1>2, <1>3

(* completeSourceMaps touches the mapped services and one version. *)
LEMMA MapsFields ==
    ASSUME NEW m \in Memories, NEW s \in Service
    PROVE  LET c == CompleteSourceMaps(m, s) IN
           /\ c \in Memories
           /\ c.probes = m.probes
           /\ c.expired = m.expired
           /\ c.expiresAt = m.expiresAt
           /\ c.version = IncrementServiceVersion(m.version, s)
           /\ c.mapped = m.mapped \cup {s}
<1>1. IncrementServiceVersion(m.version, s) \in [Service -> Nat]
  BY DEF Memories, IncrementServiceVersion
<1> QED
  BY <1>1 DEF CompleteSourceMaps, Memories

(* ingest changes no probe and no version beyond what expiry does. *)
LEMMA IngestFields ==
    ASSUME NEW m \in Memories, NEW s \in Service, NEW now \in Nat,
           NEW p \in Probe, NEW k \in Kinds, NEW ts \in Nat,
           NEW batch, batch = [q \in {p} |-> [kind |-> k, ts |-> ts]]
    PROVE  LET i == Ingest(m, s, batch, now)
               e == ExpireDueProbes(m, now)
           IN  /\ i \in Memories
               /\ i.probes = e.probes
               /\ i.expired = e.expired
               /\ i.expiresAt = e.expiresAt
               /\ i.mapped = e.mapped
               /\ i.version = e.version
<1> DEFINE e == ExpireDueProbes(m, now)
           ev == [r \in Probe |-> IF r \in DOMAIN batch
                                  THEN Push(e.events[r], batch[r].kind)
                                  ELSE e.events[r]]
           st == [r \in Probe |-> IF r \in DOMAIN batch /\ batch[r].kind # "data"
                                  THEN ReportedStatus(e.status[r], batch[r])
                                  ELSE e.status[r]]
<1>1. e \in Memories
  BY ExpireFields
<1> HIDE DEF e
<1>2. ev \in [Probe -> Seq(Kinds)]
  <2> SUFFICES ASSUME NEW r \in Probe
               PROVE  ev[r] \in Seq(Kinds)
    OBVIOUS
  <2>1. e.events[r] \in Seq(Kinds)
    BY <1>1 DEF Memories
  <2>2. Push(e.events[r], k) \in Seq(Kinds)
    BY <2>1, PushType
  <2> QED
    BY <2>1, <2>2
<1>3. st \in [Probe -> StatusRecords]
  <2> SUFFICES ASSUME NEW r \in Probe
               PROVE  st[r] \in StatusRecords
    OBVIOUS
  <2>1. e.status[r] \in StatusRecords
    BY <1>1 DEF Memories
  <2>2. CASE r = p /\ k # "data"
    <3>1. st[r] = ReportedStatus(e.status[r], [kind |-> k, ts |-> ts])
      BY <2>2
    <3>2. ReportedStatus(e.status[r], [kind |-> k, ts |-> ts]) \in StatusRecords
      BY <2>1, <2>2 DEF ReportedStatus, StatusRecords, StatusNames
    <3> QED
      BY <3>1, <3>2
  <2>3. CASE ~(r = p /\ k # "data")
    BY <2>1, <2>3
  <2> QED
    BY <2>2, <2>3
<1>4. CASE IngestAccepted(e, s, batch)
  <2>1. Ingest(m, s, batch, now) = [e EXCEPT !.events = ev, !.status = st]
    BY <1>4 DEF Ingest, e
  <2> HIDE DEF ev, st
  <2> QED
    BY <1>1, <1>2, <1>3, <2>1 DEF Memories, e
<1>5. CASE ~IngestAccepted(e, s, batch)
  BY <1>1, <1>5 DEF Ingest, e
<1> QED
  BY <1>4, <1>5

-----------------------------------------------------------------------------
(* The store d holds the probes of memory m. *)
Sync(m, d) ==
    /\ m.probes = d.probes
    /\ m.expiresAt = d.expiresAt
    /\ d.expired \subseteq m.expired

(* Only stored probes have an end. *)
ZeroUnlessStored(m) == \A p \in Probe \ m.probes : m.expiresAt[p] = 0

(* POST /v1/probes writes a store that holds the memory it leaves. *)
LEMMA WriteProbeSync ==
    ASSUME NEW m \in Memories, disk \in Memories, Sync(m, disk),
           NEW p \in Probe, NEW now \in Nat
    PROVE  LET c == CreateProbe(m, p, now) IN
           /\ WriteProbe(c, p) \in Memories
           /\ Sync(c, WriteProbe(c, p))
<1> DEFINE c == CreateProbe(m, p, now)
           xa == [disk.expiresAt EXCEPT ![p] = c.expiresAt[p]]
           ver == [disk.version EXCEPT ![SvcOf[p]] = c.version[SvcOf[p]]]
           w == [disk EXCEPT !.probes = disk.probes \cup {p},
                             !.expired = disk.expired \ {p},
                             !.expiresAt = xa, !.version = ver]
<1>1. /\ c \in Memories
      /\ c.probes = m.probes \cup {p}
      /\ c.expired = m.expired \ {p}
      /\ c.expiresAt = [m.expiresAt EXCEPT ![p] = now + Ttl[p]]
  BY CreateFields
<1>2. now + Ttl[p] \in Nat /\ SvcOf[p] \in Service
  BY TtlType, SvcOfType
<1>3. Store = "json" => WriteProbe(c, p) = c
  BY DEF WriteProbe
<1>4. Store # "json" => WriteProbe(c, p) = w
  BY DEF WriteProbe
<1> HIDE DEF c
<1>5. xa \in [Probe -> Nat] /\ ver \in [Service -> Nat]
  BY <1>1, <1>2 DEF Memories
<1>6. xa = c.expiresAt
  BY <1>1, <1>2 DEF Sync, Memories
<1> HIDE DEF xa, ver
<1>7. w \in Memories /\ w.probes = disk.probes \cup {p}
      /\ w.expired = disk.expired \ {p} /\ w.expiresAt = xa
  BY <1>5 DEF Memories
<1> HIDE DEF w
<1>8. CASE Store = "json"
  BY <1>1, <1>3, <1>8 DEF Sync, c
<1>9. CASE Store # "json"
  BY <1>1, <1>4, <1>6, <1>7, <1>9 DEF Sync, c
<1> QED
  BY <1>8, <1>9

(* DELETE /v1/probes/:id writes a store that holds the memory it leaves. *)
LEMMA WriteDeleteSync ==
    ASSUME NEW m \in Memories, disk \in Memories, Sync(m, disk),
           ZeroUnlessStored(m), NEW p \in Probe
    PROVE  LET c == DeleteProbe(m, p) IN
           /\ WriteDelete(c, p) \in Memories
           /\ Sync(c, WriteDelete(c, p))
<1> DEFINE c == DeleteProbe(m, p)
           xa == [disk.expiresAt EXCEPT ![p] = 0]
           ev == [disk.events EXCEPT ![p] = <<>>]
           st == [disk.status EXCEPT ![p] = NoStatus]
           w == [disk EXCEPT !.probes = disk.probes \ {p},
                             !.expired = disk.expired \ {p},
                             !.expiresAt = xa, !.events = ev, !.status = st,
                             !.version = c.version]
<1>1. /\ c \in Memories
      /\ c.probes = m.probes \ {p}
      /\ m.expired \ {p} \subseteq c.expired
      /\ p \in m.probes => c.expiresAt = [m.expiresAt EXCEPT ![p] = 0]
      /\ p \notin m.probes => c = m
  BY DeleteFields
<1>2. <<>> \in Seq(Kinds) /\ NoStatus \in StatusRecords
  BY DEF NoStatus, StatusRecords, StatusNames, Kinds
<1>3. Store = "json" => WriteDelete(c, p) = c
  BY DEF WriteDelete
<1>4. Store # "json" => WriteDelete(c, p) = w
  BY DEF WriteDelete
<1> HIDE DEF c
<1>5. /\ xa \in [Probe -> Nat] /\ ev \in [Probe -> Seq(Kinds)]
      /\ st \in [Probe -> StatusRecords] /\ c.version \in [Service -> Nat]
  BY <1>1, <1>2 DEF Memories
<1>6. xa = c.expiresAt
  BY <1>1 DEF Sync, ZeroUnlessStored, Memories
<1> HIDE DEF xa, ev, st
<1>7. w \in Memories /\ w.probes = disk.probes \ {p}
      /\ w.expired = disk.expired \ {p} /\ w.expiresAt = xa
  BY <1>5 DEF Memories
<1> HIDE DEF w
<1>8. CASE Store = "json"
  BY <1>1, <1>3, <1>8 DEF Sync, c
<1>9. CASE Store # "json"
  BY <1>1, <1>4, <1>6, <1>7, <1>9 DEF Sync, c
<1> QED
  BY <1>8, <1>9

(* A mutation that only adds expiries to a memory in sync may be written   *)
(* by any of the other three persist calls.                                *)
LEMMA WriteOtherSync ==
    ASSUME NEW m \in Memories, disk \in Memories, Sync(m, disk),
           NEW c \in Memories, c.probes = m.probes, c.expiresAt = m.expiresAt,
           m.expired \subseteq c.expired
    PROVE  /\ \A ps \in SUBSET Probe :
                WriteIngest(c, ps) \in Memories /\ Sync(c, WriteIngest(c, ps))
           /\ \A s \in Service :
                WriteMaps(c, s) \in Memories /\ Sync(c, WriteMaps(c, s))
           /\ WriteAll(c) \in Memories /\ Sync(c, WriteAll(c))
<1>0. Sync(c, c) /\ Sync(c, disk)
  BY DEF Sync
<1>1. ASSUME NEW q \in Probe
      PROVE  NewerStatus(c, q) \in StatusRecords
  BY DEF NewerStatus, Memories
<1>2. ASSUME NEW ps \in SUBSET Probe
      PROVE  WriteIngest(c, ps) \in Memories /\ Sync(c, WriteIngest(c, ps))
  <2> DEFINE ev == [p \in Probe |-> IF p \in ps THEN c.events[p] ELSE disk.events[p]]
             st == [p \in Probe |-> IF p \in ps THEN NewerStatus(c, p) ELSE disk.status[p]]
             w == [disk EXCEPT !.events = ev, !.status = st]
  <2>1. ev \in [Probe -> Seq(Kinds)]
    BY DEF Memories
  <2>2. st \in [Probe -> StatusRecords]
    BY <1>1 DEF Memories
  <2>3. Store = "json" => WriteIngest(c, ps) = c
    BY DEF WriteIngest
  <2>4. Store # "json" => WriteIngest(c, ps) = w
    BY DEF WriteIngest
  <2> HIDE DEF ev, st
  <2>5. w \in Memories /\ w.probes = disk.probes /\ w.expired = disk.expired
        /\ w.expiresAt = disk.expiresAt
    BY <2>1, <2>2 DEF Memories
  <2> HIDE DEF w
  <2> QED
    BY <1>0, <2>3, <2>4, <2>5 DEF Sync
<1>3. ASSUME NEW s \in Service
      PROVE  WriteMaps(c, s) \in Memories /\ Sync(c, WriteMaps(c, s))
  <2> DEFINE w == [disk EXCEPT !.mapped = disk.mapped \cup {s}]
  <2>1. w \in Memories /\ w.probes = disk.probes /\ w.expired = disk.expired
        /\ w.expiresAt = disk.expiresAt
    BY DEF Memories
  <2>2. WriteMaps(c, s) = IF Store = "json" THEN c ELSE w
    BY DEF WriteMaps
  <2> HIDE DEF w
  <2> QED
    BY <1>0, <2>1, <2>2 DEF Sync
<1>4. WriteAll(c) \in Memories /\ Sync(c, WriteAll(c))
  <2> DEFINE xa == [p \in Probe |-> IF p \in c.probes THEN c.expiresAt[p]
                                    ELSE disk.expiresAt[p]]
             ev == [p \in Probe |-> IF p \in c.probes THEN c.events[p]
                                    ELSE disk.events[p]]
             st == [p \in Probe |-> IF p \in c.probes THEN NewerStatus(c, p)
                                    ELSE disk.status[p]]
             ex == (disk.expired \ c.probes) \cup c.expired
             w == [disk EXCEPT !.probes = disk.probes \cup c.probes,
                               !.expired = ex, !.expiresAt = xa,
                               !.events = ev, !.status = st,
                               !.version = c.version]
  <2>1. xa \in [Probe -> Nat] /\ xa = c.expiresAt
    BY <1>0 DEF Memories, Sync
  <2>2. ev \in [Probe -> Seq(Kinds)]
    BY DEF Memories
  <2>3. st \in [Probe -> StatusRecords]
    BY <1>1 DEF Memories
  <2>4. ex \subseteq c.expired /\ ex \subseteq Probe /\ c.version \in [Service -> Nat]
    BY <1>0 DEF Memories, Sync
  <2>5. WriteAll(c) = IF Store = "json" THEN c ELSE w
    BY DEF WriteAll
  <2> HIDE DEF xa, ev, st, ex
  <2>6. w \in Memories /\ w.probes = disk.probes \cup c.probes
        /\ w.expired = ex /\ w.expiresAt = xa
    BY <2>1, <2>2, <2>3, <2>4 DEF Memories
  <2> HIDE DEF w
  <2> QED
    BY <1>0, <2>1, <2>4, <2>5, <2>6 DEF Sync
<1> QED
  BY <1>2, <1>3, <1>4

-----------------------------------------------------------------------------
(* While a persist is awaited: the rollback target is what the store holds, *)
(* and what is being written is what memory holds.                         *)
AwaitedInSync ==
    inflight.op # "idle" =>
        /\ Sync(inflight.before, disk)
        /\ Sync(mem, inflight.write)
        /\ inflight.op = "snapshot" => Sync(mem, disk)
        /\ inflight.op = "create" => inflight.probe \in mem.probes

IInv ==
    /\ TypeOK
    /\ IdleInSync
    /\ AwaitedInSync
    /\ AckedSurvives
    /\ ZeroUnlessStored(mem)
    /\ ZeroUnlessStored(disk)

(* A broker that starts on an empty store satisfies the invariant. *)
LEMMA InitIInv == Init => IInv
<1> SUFFICES ASSUME Init PROVE IInv
  OBVIOUS
<1>1. EmptyMemory \in Memories
  <2>1. NoStatus \in StatusRecords /\ <<>> \in Seq(Kinds)
    BY DEF NoStatus, StatusRecords, StatusNames, Kinds
  <2> QED
    BY <2>1 DEF EmptyMemory, Memories
<1>2. Idle \in [op : Ops, probe : Probe \cup {NoProbe}, before : Memories, write : Memories]
  BY <1>1 DEF Idle, Ops
<1>3. view \in [Agent -> Views]
  BY DEF Init, NoView, Views
<1>4. TypeOK
  BY <1>1, <1>2, <1>3 DEF Init, TypeOK
<1>5. inflight.op = "idle"
  BY DEF Init, Idle
<1>6. IdleInSync /\ AwaitedInSync /\ AckedSurvives
  BY <1>5 DEF Init, IdleInSync, AwaitedInSync, AckedSurvives
<1>7. ZeroUnlessStored(mem) /\ ZeroUnlessStored(disk)
  BY DEF Init, ZeroUnlessStored, EmptyMemory
<1> QED
  BY <1>4, <1>6, <1>7 DEF IInv

(* Starting a mutation: the three facts a handler must establish about the *)
(* memory it leaves and the write it hands to the store.                   *)
LEMMA MutateIInv ==
    ASSUME IInv, NEW op \in Ops \ {"idle"}, NEW p \in Probe \cup {NoProbe},
           NEW after \in Memories, NEW write \in Memories,
           Mutate(op, p, after, write), Sync(after, write),
           ZeroUnlessStored(after),
           op = "snapshot" => after = mem,
           op = "create" => p \in after.probes,
           \A q \in acked : q \in after.probes \/ (op = "delete" /\ q = p),
           UNCHANGED <<clock, disk, acked>>,
           minted' \in SUBSET Probe, reports' \in Nat,
           view' \in [Agent -> Views]
    PROVE  IInv'
<1>1. inflight.op = "idle" /\ Sync(mem, disk)
  BY DEF Mutate, IInv, IdleInSync, Sync
<1>2. /\ inflight'.op = op /\ inflight'.probe = p
      /\ inflight'.before = mem /\ inflight'.write = write
      /\ inflight' \in [op : Ops, probe : Probe \cup {NoProbe},
                        before : Memories, write : Memories]
  BY DEF Mutate, IInv, TypeOK
<1>3. TypeOK'
  BY <1>2 DEF Mutate, IInv, TypeOK
<1>4. AwaitedInSync' /\ IdleInSync'
  BY <1>1, <1>2 DEF Mutate, AwaitedInSync, IdleInSync, Sync
<1>5. AckedSurvives'
  BY <1>2 DEF IInv, AckedSurvives, Mutate
<1>6. ZeroUnlessStored(mem)' /\ ZeroUnlessStored(disk)'
  BY DEF Mutate, IInv, ZeroUnlessStored
<1> QED
  BY <1>3, <1>4, <1>5, <1>6 DEF IInv

(* Starting POST /v1/probes keeps the invariant. *)
LEMMA CreateIInv ==
    ASSUME IInv, NEW p \in Probe, BeginCreate(p)
    PROVE  IInv'
<1> DEFINE after == CreateProbe(mem, p, clock)
<1>1. mem \in Memories /\ disk \in Memories /\ clock \in Nat
  BY DEF IInv, TypeOK
<1>2. Sync(mem, disk) /\ Mutate("create", p, after, WriteProbe(after, p))
  BY DEF BeginCreate, Mutate, IInv, IdleInSync, Sync
<1>3. after \in Memories /\ after.probes = mem.probes \cup {p}
      /\ after.expiresAt = [mem.expiresAt EXCEPT ![p] = clock + Ttl[p]]
  BY <1>1, CreateFields
<1>4. WriteProbe(after, p) \in Memories /\ Sync(after, WriteProbe(after, p))
  BY <1>1, <1>2, WriteProbeSync
<1> HIDE DEF after
<1>5. ZeroUnlessStored(after)
  BY <1>1, <1>3 DEF IInv, ZeroUnlessStored, Memories
<1>6. \A q \in acked : q \in after.probes
  BY <1>2, <1>3 DEF IInv, AckedSurvives, Mutate
<1>7. UNCHANGED <<clock, disk, acked>> /\ minted' \in SUBSET Probe
      /\ reports' \in Nat /\ view' \in [Agent -> Views]
  BY DEF BeginCreate, IInv, TypeOK
<1>8. "create" \in Ops \ {"idle"} /\ p \in Probe \cup {NoProbe} /\ p \in after.probes
  BY <1>3 DEF Ops
<1> QED
  BY <1>2, <1>3, <1>4, <1>5, <1>6, <1>7, <1>8, MutateIInv

(* Starting DELETE /v1/probes/:id keeps the invariant. *)
LEMMA DeleteIInv ==
    ASSUME IInv, NEW p \in Probe, BeginDelete(p)
    PROVE  IInv'
<1> DEFINE after == DeleteProbe(mem, p)
<1>1. mem \in Memories /\ disk \in Memories /\ ZeroUnlessStored(mem)
  BY DEF IInv, TypeOK
<1>2. Sync(mem, disk) /\ Mutate("delete", p, after, WriteDelete(after, p))
  BY DEF BeginDelete, Mutate, IInv, IdleInSync, Sync
<1>3. /\ after \in Memories /\ after.probes = mem.probes \ {p}
      /\ p \in mem.probes => after.expiresAt = [mem.expiresAt EXCEPT ![p] = 0]
      /\ p \notin mem.probes => after = mem
  BY <1>1, DeleteFields
<1>4. WriteDelete(after, p) \in Memories /\ Sync(after, WriteDelete(after, p))
  BY <1>1, <1>2, WriteDeleteSync
<1> HIDE DEF after
<1>5. ZeroUnlessStored(after)
  BY <1>1, <1>3 DEF ZeroUnlessStored, Memories
<1>6. \A q \in acked : q \in after.probes \/ q = p
  BY <1>2, <1>3 DEF IInv, AckedSurvives, Mutate
<1>7. UNCHANGED <<clock, disk, acked>> /\ minted' \in SUBSET Probe
      /\ reports' \in Nat /\ view' \in [Agent -> Views]
  BY DEF BeginDelete, IInv, TypeOK
<1>8. "delete" \in Ops \ {"idle"} /\ p \in Probe \cup {NoProbe}
  BY DEF Ops
<1> QED
  BY <1>2, <1>3, <1>4, <1>5, <1>6, <1>7, <1>8, MutateIInv

(* Any step that leaves memory with the same probes and more expiries, and *)
(* nothing else the invariant reads, keeps the invariant.                  *)
LEMMA ExpiryOnlyIInv ==
    ASSUME IInv, mem' \in Memories, mem'.probes = mem.probes,
           mem'.expiresAt = mem.expiresAt, mem.expired \subseteq mem'.expired,
           UNCHANGED <<clock, disk, inflight, acked>>,
           minted' \in SUBSET Probe, reports' \in Nat,
           view' \in [Agent -> Views]
    PROVE  IInv'
<1>1. TypeOK'
  BY DEF IInv, TypeOK
<1>2. IdleInSync' /\ AwaitedInSync'
  BY DEF IInv, IdleInSync, AwaitedInSync, Sync
<1>3. AckedSurvives'
  BY DEF IInv, AckedSurvives
<1>4. ZeroUnlessStored(mem)' /\ ZeroUnlessStored(disk)'
  BY DEF IInv, ZeroUnlessStored
<1> QED
  BY <1>1, <1>2, <1>3, <1>4 DEF IInv

(* A queued mutation that leaves the same probes and more expiries. *)
LEMMA QueuedIInv ==
    ASSUME IInv, NEW op \in {"ingest", "maps", "sweep"},
           NEW after \in Memories, NEW write \in Memories,
           after.probes = mem.probes, after.expiresAt = mem.expiresAt,
           Sync(after, write), Mutate(op, NoProbe, after, write),
           UNCHANGED <<clock, disk, acked>>,
           minted' \in SUBSET Probe, reports' \in Nat,
           view' \in [Agent -> Views]
    PROVE  IInv'
<1>1. ZeroUnlessStored(after)
  BY DEF IInv, ZeroUnlessStored
<1>2. \A q \in acked : q \in after.probes
  BY DEF IInv, AckedSurvives, Mutate
<1>3. op \in Ops \ {"idle"} /\ NoProbe \in Probe \cup {NoProbe}
      /\ op # "snapshot" /\ op # "create"
  BY DEF Ops
<1> QED
  BY <1>1, <1>2, <1>3, MutateIInv

(* Starting POST /v1/ingest keeps the invariant, accepted or refused. *)
LEMMA IngestIInv ==
    ASSUME IInv, NEW s \in Service, NEW p \in Probe, NEW k \in ReportKinds,
           NEW ts \in {clock, clock - 1} \ {0},
           BeginIngest(s, [q \in {p} |-> [kind |-> k, ts |-> ts]])
    PROVE  IInv'
<1> DEFINE batch == [q \in {p} |-> [kind |-> k, ts |-> ts]]
           after == Ingest(mem, s, batch, clock)
           e == ExpireDueProbes(mem, clock)
<1>1. mem \in Memories /\ disk \in Memories /\ clock \in Nat /\ k \in Kinds
      /\ ts \in Nat
  BY ReportKindsType DEF IInv, TypeOK
<1>2. e.probes = mem.probes /\ e.expiresAt = mem.expiresAt /\ mem.expired \subseteq e.expired
  BY <1>1, ExpireFields
<1>3. after \in Memories /\ after.probes = mem.probes
      /\ after.expiresAt = mem.expiresAt /\ mem.expired \subseteq after.expired
  <2> DEFINE b == batch
  <2>1. b = [q \in {p} |-> [kind |-> k, ts |-> ts]]
    OBVIOUS
  <2> HIDE DEF b
  <2>2. /\ Ingest(mem, s, b, clock) \in Memories
        /\ Ingest(mem, s, b, clock).probes = e.probes
        /\ Ingest(mem, s, b, clock).expired = e.expired
        /\ Ingest(mem, s, b, clock).expiresAt = e.expiresAt
    BY <1>1, <2>1, IngestFields
  <2>3. after = Ingest(mem, s, b, clock)
    BY DEF b
  <2> HIDE DEF after, e
  <2> QED
    BY <1>2, <2>2, <2>3
<1>4. UNCHANGED <<clock, disk, acked>> /\ minted' \in SUBSET Probe
      /\ reports' \in Nat /\ view' \in [Agent -> Views] /\ DOMAIN batch \in SUBSET Probe
  BY DEF BeginIngest, IInv, TypeOK
<1>5. inflight.op = "idle" /\ Sync(mem, disk)
  <2>1. inflight.op = "idle"
    BY DEF BeginIngest, Mutate
  <2> QED
    BY <2>1 DEF IInv, IdleInSync, Sync
<1>6. CASE IngestAccepted(mem, s, batch)
  <2>1. Mutate("ingest", NoProbe, after, WriteIngest(after, DOMAIN batch))
    BY <1>6 DEF BeginIngest
  <2> HIDE DEF after, e
  <2>2. WriteIngest(after, DOMAIN batch) \in Memories
        /\ Sync(after, WriteIngest(after, DOMAIN batch))
    BY <1>1, <1>3, <1>4, <1>5, WriteOtherSync
  <2> HIDE DEF batch
  <2> QED
    BY <1>3, <1>4, <2>1, <2>2, QueuedIInv
<1>7. CASE ~IngestAccepted(mem, s, batch)
  <2>1. mem' = after /\ UNCHANGED inflight
    BY <1>7 DEF BeginIngest
  <2> HIDE DEF after
  <2> QED
    BY <1>3, <1>4, <2>1, ExpiryOnlyIInv
<1> QED
  BY <1>6, <1>7

(* Starting POST /v1/source-maps/complete keeps the invariant. *)
LEMMA MapsIInv ==
    ASSUME IInv, NEW s \in Service, BeginCompleteSourceMaps(s)
    PROVE  IInv'
<1> DEFINE after == CompleteSourceMaps(mem, s)
<1>1. mem \in Memories /\ disk \in Memories
  BY DEF IInv, TypeOK
<1>2. after \in Memories /\ after.probes = mem.probes
      /\ after.expiresAt = mem.expiresAt /\ mem.expired \subseteq after.expired
  BY <1>1, MapsFields
<1>3. Sync(mem, disk) /\ Mutate("maps", NoProbe, after, WriteMaps(after, s))
  BY DEF BeginCompleteSourceMaps, Mutate, IInv, IdleInSync, Sync
<1> HIDE DEF after
<1>4. WriteMaps(after, s) \in Memories /\ Sync(after, WriteMaps(after, s))
  BY <1>1, <1>2, <1>3, WriteOtherSync
<1>5. UNCHANGED <<clock, disk, acked>> /\ minted' \in SUBSET Probe
      /\ reports' \in Nat /\ view' \in [Agent -> Views]
  BY DEF BeginCompleteSourceMaps, IInv, TypeOK
<1> QED
  BY <1>2, <1>3, <1>4, <1>5, QueuedIInv

(* Starting the TTL sweep keeps the invariant. *)
LEMMA SweepIInv ==
    ASSUME IInv, BeginSweep
    PROVE  IInv'
<1> DEFINE after == ExpireDueProbes(mem, clock)
<1>1. mem \in Memories /\ disk \in Memories /\ clock \in Nat
  BY DEF IInv, TypeOK
<1>2. after \in Memories /\ after.probes = mem.probes
      /\ after.expiresAt = mem.expiresAt /\ mem.expired \subseteq after.expired
  BY <1>1, ExpireFields
<1>3. Sync(mem, disk) /\ Mutate("sweep", NoProbe, after, WriteAll(after))
  BY DEF BeginSweep, Mutate, IInv, IdleInSync, Sync
<1> HIDE DEF after
<1>4. WriteAll(after) \in Memories /\ Sync(after, WriteAll(after))
  BY <1>1, <1>2, <1>3, WriteOtherSync
<1>5. UNCHANGED <<clock, disk, acked>> /\ minted' \in SUBSET Probe
      /\ reports' \in Nat /\ view' \in [Agent -> Views]
  BY DEF BeginSweep, IInv, TypeOK
<1> QED
  BY <1>2, <1>3, <1>4, <1>5, QueuedIInv

(* Starting the periodic snapshot keeps the invariant. *)
LEMMA SnapshotIInv ==
    ASSUME IInv, BeginSnapshot
    PROVE  IInv'
<1>1. mem \in Memories /\ disk \in Memories /\ ZeroUnlessStored(mem)
  BY DEF IInv, TypeOK
<1>2. Sync(mem, disk) /\ Mutate("snapshot", NoProbe, mem, WriteAll(mem))
  BY DEF BeginSnapshot, Mutate, IInv, IdleInSync, Sync
<1>3. WriteAll(mem) \in Memories /\ Sync(mem, WriteAll(mem))
  BY <1>1, <1>2, WriteOtherSync
<1>4. \A q \in acked : q \in mem.probes
  BY <1>2 DEF IInv, AckedSurvives, Mutate
<1>5. UNCHANGED <<clock, disk, acked>> /\ minted' \in SUBSET Probe
      /\ reports' \in Nat /\ view' \in [Agent -> Views]
      /\ "snapshot" \in Ops \ {"idle"}
  BY DEF BeginSnapshot, IInv, TypeOK, Ops
<1> QED
  BY <1>1, <1>2, <1>3, <1>4, <1>5, MutateIInv

(* Back to idle: memory and store agree and everything acknowledged is in  *)
(* both.                                                                   *)
LEMMA SettledIInv ==
    ASSUME IInv, inflight' = Idle, mem' \in Memories, disk' \in Memories,
           Sync(mem', disk'), ZeroUnlessStored(mem)',
           acked' \subseteq mem'.probes,
           UNCHANGED <<clock, view, minted, reports>>
    PROVE  IInv'
<1>1. EmptyMemory \in Memories
  <2>1. NoStatus \in StatusRecords /\ <<>> \in Seq(Kinds)
    BY DEF NoStatus, StatusRecords, StatusNames, Kinds
  <2> QED
    BY <2>1 DEF EmptyMemory, Memories
<1>2. inflight' \in [op : Ops, probe : Probe \cup {NoProbe},
                     before : Memories, write : Memories]
      /\ inflight'.op = "idle"
  BY <1>1 DEF Idle, Ops
<1>3. TypeOK'
  BY <1>2 DEF IInv, TypeOK, Memories
<1>4. IdleInSync' /\ AwaitedInSync'
  BY <1>2 DEF IdleInSync, AwaitedInSync, Sync
<1>5. AckedSurvives'
  BY DEF AckedSurvives, Sync
<1>6. ZeroUnlessStored(disk)'
  BY DEF ZeroUnlessStored, Sync
<1> QED
  BY <1>3, <1>4, <1>5, <1>6 DEF IInv

(* A persist that succeeds leaves memory and store in step. *)
LEMMA PersistOkIInv ==
    ASSUME IInv, PersistOk
    PROVE  IInv'
<1>1. inflight.op # "idle" /\ inflight' = Idle /\ mem' = mem
      /\ disk' = inflight.write /\ UNCHANGED <<clock, view, minted, reports>>
  BY DEF PersistOk
<1>2. mem' \in Memories /\ disk' \in Memories /\ Sync(mem', disk')
      /\ ZeroUnlessStored(mem)'
  BY <1>1 DEF IInv, TypeOK, AwaitedInSync, ZeroUnlessStored
<1>3. acked' \subseteq mem'.probes
  <2> SUFFICES ASSUME NEW p \in acked' PROVE p \in mem.probes
    BY <1>1
  <2>1. CASE inflight.op = "create"
    BY <1>1, <2>1 DEF PersistOk, AckedAfter, IInv, AwaitedInSync, AckedSurvives
  <2>2. CASE inflight.op = "delete"
    BY <2>2 DEF PersistOk, AckedAfter, IInv, AckedSurvives
  <2>3. CASE inflight.op \notin {"create", "delete"}
    BY <2>3 DEF PersistOk, AckedAfter, IInv, AckedSurvives
  <2> QED
    BY <2>1, <2>2, <2>3
<1> QED
  BY <1>1, <1>2, <1>3, SettledIInv

(* A persist that fails reloads the snapshot, in step with the store. *)
LEMMA PersistFailIInv ==
    ASSUME IInv, PersistFail
    PROVE  IInv'
<1>1. inflight.op # "idle" /\ inflight' = Idle /\ disk' = disk /\ acked' = acked
      /\ UNCHANGED <<clock, view, minted, reports>>
  BY DEF PersistFail
<1>2. mem \in Memories /\ disk \in Memories /\ inflight.before \in Memories
      /\ clock \in Nat /\ acked \subseteq disk.probes /\ ZeroUnlessStored(disk)
  BY DEF IInv, TypeOK, AckedSurvives
<1>3. mem' \in Memories /\ Sync(mem', disk)
  <2>1. CASE inflight.op = "snapshot"
    BY <1>1, <1>2, <2>1 DEF PersistFail, IInv, AwaitedInSync
  <2>2. CASE inflight.op # "snapshot"
    <3>1. mem' = Restore(inflight.before, clock)
      BY <2>2 DEF PersistFail
    <3>2. Sync(inflight.before, disk)
      BY <1>1 DEF IInv, AwaitedInSync
    <3> QED
      BY <1>2, <3>1, <3>2, RestoreFields DEF Sync
  <2> QED
    BY <2>1, <2>2
<1>4. ZeroUnlessStored(mem)' /\ acked' \subseteq mem'.probes
  BY <1>1, <1>2, <1>3 DEF ZeroUnlessStored, Sync
<1> QED
  BY <1>1, <1>2, <1>3, <1>4, SettledIInv

(* A crash at any point restores a memory in step with the store. *)
LEMMA CrashIInv ==
    ASSUME IInv, Crash
    PROVE  IInv'
<1>1. PICK written \in {disk} \cup
                       (IF inflight.op = "idle" THEN {} ELSE {inflight.write}) :
        disk' = written /\ mem' = Restore(written, clock)
  BY DEF Crash
<1>2. inflight' = Idle /\ UNCHANGED <<clock, view, minted, reports>>
      /\ acked' = IF inflight.op = "delete" THEN acked \ {inflight.probe} ELSE acked
  BY DEF Crash
<1>3. mem \in Memories /\ disk \in Memories /\ inflight.write \in Memories
      /\ clock \in Nat
  BY DEF IInv, TypeOK
<1>4. written \in Memories /\ ZeroUnlessStored(written) /\ acked' \subseteq written.probes
  <2>1. CASE written = disk
    BY <1>2, <1>3, <2>1 DEF IInv, AckedSurvives
  <2>2. CASE inflight.op # "idle" /\ written = inflight.write
    <3>1. Sync(mem, written)
      BY <2>2 DEF IInv, AwaitedInSync
    <3>2. ZeroUnlessStored(written)
      BY <3>1 DEF IInv, Sync, ZeroUnlessStored
    <3>3. acked' \subseteq written.probes
      BY <1>2, <3>1 DEF IInv, AckedSurvives, Sync
    <3> QED
      BY <1>3, <2>2, <3>2, <3>3
  <2> QED
    BY <1>1, <2>1, <2>2
<1>5. /\ mem' \in Memories /\ mem'.probes = written.probes
      /\ mem'.expiresAt = written.expiresAt /\ written.expired \subseteq mem'.expired
  BY <1>1, <1>3, <1>4, RestoreFields
<1>6. Sync(mem', disk') /\ ZeroUnlessStored(mem)' /\ acked' \subseteq mem'.probes
  BY <1>1, <1>4, <1>5 DEF Sync, ZeroUnlessStored
<1> QED
  BY <1>1, <1>2, <1>4, <1>5, <1>6, SettledIInv

(* Closing with a last persist and restarting keeps both in step. *)
LEMMA CleanRestartIInv ==
    ASSUME IInv, CleanRestart
    PROVE  IInv'
<1>1. inflight.op = "idle" /\ disk' = WriteAll(mem) /\ mem' = Restore(disk', clock)
      /\ UNCHANGED <<clock, inflight, view, minted, acked, reports>>
  BY DEF CleanRestart
<1>2. mem \in Memories /\ disk \in Memories /\ clock \in Nat /\ ZeroUnlessStored(mem)
      /\ Sync(mem, disk) /\ acked \subseteq mem.probes
  BY <1>1 DEF IInv, TypeOK, IdleInSync, Sync, AckedSurvives
<1>3. disk' \in Memories /\ Sync(mem, disk')
  BY <1>1, <1>2, WriteOtherSync
<1>4. /\ mem' \in Memories /\ mem'.probes = disk'.probes
      /\ mem'.expiresAt = disk'.expiresAt /\ disk'.expired \subseteq mem'.expired
  BY <1>1, <1>2, <1>3, RestoreFields
<1>5. TypeOK'
  BY <1>1, <1>3, <1>4 DEF IInv, TypeOK
<1>6. IdleInSync' /\ AwaitedInSync'
  BY <1>1, <1>4 DEF IdleInSync, AwaitedInSync, Sync
<1>7. AckedSurvives' /\ ZeroUnlessStored(mem)' /\ ZeroUnlessStored(disk)'
  BY <1>1, <1>2, <1>3, <1>4 DEF AckedSurvives, Sync, ZeroUnlessStored
<1> QED
  BY <1>5, <1>6, <1>7 DEF IInv

(* A poll changes memory by expiries only. *)
LEMMA PollIInv ==
    ASSUME IInv, NEW a \in Agent, Poll(a)
    PROVE  IInv'
<1> DEFINE m == ExpireDueProbes(mem, clock)
           s == AgentSvc[a]
<1>1. mem \in Memories /\ clock \in Nat /\ s \in Service
  BY AgentSvcType DEF IInv, TypeOK
<1>2. m \in Memories /\ m.probes = mem.probes /\ m.expiresAt = mem.expiresAt
      /\ mem.expired \subseteq m.expired
  BY <1>1, ExpireFields
<1>3. /\ mem' = m
      /\ view' = IF view[a].since = m.version[s] THEN view
                 ELSE [view EXCEPT ![a] =
                         [since |-> m.version[s], probes |-> Active(m, s),
                          mapped |-> s \in m.mapped]]
      /\ UNCHANGED <<clock, disk, inflight, minted, acked, reports>>
  BY DEF Poll
<1> HIDE DEF m
<1>4. [since |-> m.version[s], probes |-> Active(m, s), mapped |-> s \in m.mapped] \in Views
  BY <1>1, <1>2 DEF Views, Active, Memories
<1>5. view' \in [Agent -> Views] /\ minted' \in SUBSET Probe /\ reports' \in Nat
  BY <1>3, <1>4 DEF IInv, TypeOK
<1> QED
  BY <1>2, <1>3, <1>5, ExpiryOnlyIInv

(* The invariant is inductive: no step of broker or agent breaks it. *)
LEMMA StepIInv == IInv /\ [Next]_vars => IInv'
<1> SUFFICES ASSUME IInv, [Next]_vars PROVE IInv'
  OBVIOUS
<1>1. ASSUME NEW p \in Probe, BeginCreate(p) PROVE IInv'
  BY <1>1, CreateIInv
<1>2. ASSUME NEW p \in Probe, BeginDelete(p) PROVE IInv'
  BY <1>2, DeleteIInv
<1>3. ASSUME NEW s \in Service, NEW p \in Probe, NEW k \in ReportKinds,
             NEW ts \in {clock, clock - 1} \ {0},
             BeginIngest(s, [q \in {p} |-> [kind |-> k, ts |-> ts]])
      PROVE IInv'
  BY <1>3, IngestIInv
<1>4. ASSUME NEW s \in MapServices, BeginCompleteSourceMaps(s) PROVE IInv'
  BY <1>4, MapsIInv, MapServicesType
<1>5. CASE BeginSweep
  BY <1>5, SweepIInv
<1>6. CASE BeginSnapshot
  BY <1>6, SnapshotIInv
<1>7. CASE PersistOk
  BY <1>7, PersistOkIInv
<1>8. CASE PersistFail
  BY <1>8, PersistFailIInv
<1>9. CASE Crash
  BY <1>9, CrashIInv
<1>10. CASE CleanRestart
  BY <1>10, CleanRestartIInv
<1>11. CASE Read
  <2>1. mem \in Memories /\ clock \in Nat
    BY DEF IInv, TypeOK
  <2>2. mem' = ExpireDueProbes(mem, clock) /\ minted' \in SUBSET Probe
        /\ reports' \in Nat /\ view' \in [Agent -> Views]
        /\ UNCHANGED <<clock, disk, inflight, acked>>
    BY <1>11 DEF Read, IInv, TypeOK
  <2>3. mem' \in Memories /\ mem'.probes = mem.probes
        /\ mem'.expiresAt = mem.expiresAt /\ mem.expired \subseteq mem'.expired
    BY <2>1, <2>2, ExpireFields
  <2> QED
    BY <2>2, <2>3, ExpiryOnlyIInv
<1>12. ASSUME NEW a \in Agent, Poll(a) PROVE IInv'
  BY <1>12, PollIInv
<1>13. ASSUME NEW a \in Agent, AgentRestart(a) PROVE IInv'
  <2>1. view' \in [Agent -> Views] /\ minted' \in SUBSET Probe /\ reports' \in Nat
        /\ UNCHANGED <<clock, mem, disk, inflight, acked>>
    BY <1>13 DEF AgentRestart, IInv, TypeOK, NoView, Views
  <2> QED
    BY <2>1, ExpiryOnlyIInv DEF IInv, TypeOK
<1>14. CASE Tick
  <2>1. clock' \in Nat \ {0} /\ UNCHANGED <<mem, disk, inflight, view, minted, acked, reports>>
    BY <1>14 DEF Tick, IInv, TypeOK
  <2> QED
    BY <2>1 DEF IInv, TypeOK, IdleInSync, AwaitedInSync, AckedSurvives, Sync,
                ZeroUnlessStored
<1>15. CASE UNCHANGED vars
  BY <1>15 DEF vars, IInv, TypeOK, IdleInSync, AwaitedInSync, AckedSurvives,
               Sync, ZeroUnlessStored
<1> QED
  BY <1>1, <1>2, <1>3, <1>4, <1>5, <1>6, <1>7, <1>8, <1>9, <1>10, <1>11,
     <1>12, <1>13, <1>14, <1>15 DEF Next

(* The inductive invariant holds in every reachable state. *)
THEOREM InvariantHolds == Spec => []IInv
<1>1. Init => IInv
  BY InitIInv
<1>2. IInv /\ [Next]_vars => IInv'
  BY StepIInv
<1> QED
  BY <1>1, <1>2, PTL DEF Spec

(* Every reachable state has its declared types. *)
THEOREM TypeCorrect == Spec => []TypeOK
<1>1. IInv => TypeOK
  BY DEF IInv
<1> QED
  BY <1>1, InvariantHolds, PTL

(* mutateDurably keeps memory and store together: for either store, any    *)
(* write failures, crashes and concurrent reads, whenever no persist is    *)
(* awaited both hold the same probes with the same ends.                   *)
THEOREM MemoryMatchesStore == Spec => []IdleInSync
<1>1. IInv => IdleInSync
  BY DEF IInv
<1> QED
  BY <1>1, InvariantHolds, PTL

(* A 201 answer is kept: an acknowledged probe is never lost from the      *)
(* store, nor from memory unless its deletion is under way.                *)
THEOREM AcknowledgedProbesSurvive == Spec => []AckedSurvives
<1>1. IInv => AckedSurvives
  BY DEF IInv
<1> QED
  BY <1>1, InvariantHolds, PTL

-----------------------------------------------------------------------------
(* Evidence *)

(* Rings stay within the capacity, so a restore cuts nothing, and a probe  *)
(* that is not stored has none, so a new probe starts with the empty ring  *)
(* its row has.                                                            *)
Rings(m) ==
    \A p \in Probe : /\ Len(m.events[p]) <= RingCapacity
                     /\ p \notin m.probes => m.events[p] = <<>>

(* Memory m and store d agree on the rings of the probes active in m. *)
SameRings(m, d) == \A p \in m.probes \ m.expired : m.events[p] = d.events[p]

(* appendEvent leaves a ring within the capacity. *)
LEMMA PushFits ==
    ASSUME NEW ring \in Seq(Kinds), NEW kind \in Kinds, Len(ring) <= RingCapacity
    PROVE  Len(Push(ring, kind)) <= RingCapacity
<1> DEFINE full == Append(ring, kind)
<1>1. full \in Seq(Kinds) /\ Len(full) \in Nat /\ RingCapacity \in Nat /\ RingCapacity # 0
  BY RingType
<1>2. CASE Len(full) > RingCapacity
  <2>1. Push(ring, kind) = SubSeq(full, Len(full) - RingCapacity + 1, Len(full))
    BY <1>2 DEF Push
  <2> HIDE DEF full
  <2>2. Len(SubSeq(full, Len(full) - RingCapacity + 1, Len(full))) = RingCapacity
    BY <1>1, <1>2
  <2> QED
    BY <1>1, <2>1, <2>2
<1>3. CASE ~(Len(full) > RingCapacity)
  <2>1. Push(ring, kind) = full
    BY <1>3 DEF Push
  <2> HIDE DEF full
  <2> QED
    BY <1>1, <1>3, <2>1
<1> QED
  BY <1>2, <1>3

LEMMA ExpireRings ==
    ASSUME NEW m \in Memories, NEW now \in Nat, Rings(m), NEW e, e = ExpireDueProbes(m, now)
    PROVE  Rings(e) /\ SameRings(e, m)
<1>1. e.probes = m.probes /\ e.expired = m.expired \cup Due(m, now)
  BY ExpireFields
<1>2. \A p \in Probe : e.events[p] = IF p \in Due(m, now) THEN Push(m.events[p], "expired")
                                                         ELSE m.events[p]
  BY DEF ExpireDueProbes, Memories
<1>3. Due(m, now) \subseteq m.probes /\ m.probes \subseteq Probe
  BY DEF Due, Memories
<1>4. ASSUME NEW p \in Probe
      PROVE  Len(Push(m.events[p], "expired")) <= RingCapacity
  <2>1. m.events[p] \in Seq(Kinds) /\ Len(m.events[p]) <= RingCapacity /\ "expired" \in Kinds
    BY DEF Memories, Rings, Kinds
  <2> QED
    BY <2>1, PushFits
<1>5. Rings(e)
  BY <1>1, <1>2, <1>3, <1>4 DEF Rings
<1>6. SameRings(e, m)
  BY <1>1, <1>2, <1>3 DEF SameRings
<1> QED
  BY <1>5, <1>6

LEMMA RestoreRings ==
    ASSUME NEW m \in Memories, NEW now \in Nat, Rings(m), NEW r, r = Restore(m, now)
    PROVE  Rings(r) /\ SameRings(r, m)
<1> DEFINE ev == [p \in Probe |->
                    IF Len(m.events[p]) > RingCapacity
                    THEN SubSeq(m.events[p], Len(m.events[p]) - RingCapacity + 1,
                                Len(m.events[p]))
                    ELSE m.events[p]]
<1>1. m.events \in [Probe -> Seq(Kinds)]
  BY DEF Memories
<1>2. \A p \in Probe : ~(Len(m.events[p]) > RingCapacity)
  <2>1. \A p \in Probe : Len(m.events[p]) \in Nat /\ Len(m.events[p]) <= RingCapacity
    BY <1>1 DEF Rings
  <2> QED
    BY <2>1, RingType
<1>3. ev = m.events
  BY <1>1, <1>2
<1>4. r = ExpireDueProbes([m EXCEPT !.events = ev], now)
  BY DEF Restore
<1> HIDE DEF ev
<1>5. [m EXCEPT !.events = ev] = m
  BY <1>3 DEF Memories
<1> QED
  BY <1>4, <1>5, ExpireRings

LEMMA SameRingsTrans ==
    ASSUME NEW l, NEW m, NEW n, SameRings(n, m), SameRings(m, l),
           n.probes = m.probes, m.expired \subseteq n.expired
    PROVE  SameRings(n, l)
BY DEF SameRings

(* The rings of memory and store, at rest and while a persist is awaited. *)
RingInv ==
    /\ Rings(mem) /\ Rings(disk)
    /\ inflight.op = "idle" => SameRings(mem, disk)
    /\ inflight.op # "idle" =>
          /\ Rings(inflight.before) /\ Rings(inflight.write)
          /\ SameRings(inflight.before, disk)
          /\ SameRings(mem, inflight.write)
          /\ inflight.op = "snapshot" => SameRings(mem, disk)

LEMMA RingInit == Init => RingInv
<1> SUFFICES ASSUME Init PROVE RingInv
  OBVIOUS
<1>1. \A p \in Probe : EmptyMemory.events[p] = <<>>
  BY DEF EmptyMemory
<1>2. Rings(EmptyMemory)
  BY <1>1, RingType DEF Rings
<1>3. mem = EmptyMemory /\ disk = EmptyMemory /\ inflight.op = "idle"
  BY DEF Init, Idle
<1> QED
  BY <1>2, <1>3 DEF RingInv, SameRings

(* What a handler must show of the memory it leaves and of its write. *)
LEMMA MutateRings ==
    ASSUME RingInv, NEW op \in Ops \ {"idle"}, NEW p, NEW after, NEW write,
           Mutate(op, p, after, write), disk' = disk, Rings(after), Rings(write),
           SameRings(after, write), op = "snapshot" => after = mem
    PROVE  RingInv'
<1>1. inflight.op = "idle" /\ mem' = after
      /\ inflight' = [op |-> op, probe |-> p, before |-> mem, write |-> write]
  BY DEF Mutate
<1>2. /\ inflight'.op = op /\ inflight'.op # "idle" /\ inflight'.before = mem
      /\ inflight'.write = write
  BY <1>1
<1>3. Rings(mem) /\ Rings(disk) /\ SameRings(mem, disk)
  BY <1>1 DEF RingInv
<1>4. Rings(mem') /\ Rings(disk') /\ Rings(inflight'.before) /\ Rings(inflight'.write)
  BY <1>1, <1>2, <1>3
<1>5. /\ SameRings(inflight'.before, disk') /\ SameRings(mem', inflight'.write)
      /\ op = "snapshot" => SameRings(mem', disk')
  BY <1>1, <1>2, <1>3
<1> QED
  BY <1>2, <1>4, <1>5 DEF RingInv

(* Memory only expired. *)
LEMMA ExpiryOnlyRings ==
    ASSUME IInv, RingInv, mem' = ExpireDueProbes(mem, clock), UNCHANGED <<disk, inflight>>
    PROVE  RingInv'
<1>1. mem \in Memories /\ clock \in Nat /\ Rings(mem)
  BY DEF IInv, TypeOK, RingInv
<1>2. Rings(mem') /\ SameRings(mem', mem)
  BY <1>1, ExpireRings
<1>3. mem'.probes = mem.probes /\ mem.expired \subseteq mem'.expired
  BY <1>1, ExpireFields
<1>4. \A d : SameRings(mem, d) => SameRings(mem', d)
  BY <1>2, <1>3, SameRingsTrans
<1> QED
  BY <1>2, <1>4 DEF RingInv

LEMMA CreateRings ==
    ASSUME IInv, RingInv, NEW p \in Probe, BeginCreate(p)
    PROVE  RingInv'
<1> DEFINE after == CreateProbe(mem, p, clock)
           write == WriteProbe(after, p)
<1>1. /\ mem \in Memories /\ disk \in Memories /\ clock \in Nat /\ p \notin mem.probes
      /\ disk' = disk /\ Mutate("create", p, after, write)
  BY DEF IInv, TypeOK, BeginCreate
<1>2. Sync(mem, disk) /\ Rings(mem) /\ Rings(disk) /\ SameRings(mem, disk)
  BY <1>1 DEF Mutate, IInv, IdleInSync, Sync, RingInv
<1>3. after.probes = mem.probes \cup {p} /\ after.expired = mem.expired \ {p}
  BY <1>1 DEF CreateProbe, Memories
<1>4. \A q \in Probe : after.events[q] = IF q = p THEN <<>> ELSE mem.events[q]
  BY <1>1 DEF CreateProbe, Memories
<1> HIDE DEF after
<1>5. Rings(after)
  BY <1>2, <1>3, <1>4, RingType DEF Rings
<1>6. Rings(write) /\ SameRings(after, write)
  <2>1. CASE Store = "json"
    BY <1>5, <2>1 DEF WriteProbe, SameRings
  <2>2. CASE Store # "json"
    <3>1. write.probes = disk.probes \cup {p} /\ write.events = disk.events
      BY <1>1, <2>2 DEF WriteProbe, Memories
    <3>2. p \notin disk.probes /\ mem.probes \subseteq Probe
      BY <1>1, <1>2 DEF Sync, Memories
    <3> HIDE DEF write
    <3>3. Rings(write)
      BY <1>2, <3>1, RingType DEF Rings
    <3>4. disk.events[p] = <<>>
      BY <1>2, <3>2 DEF Rings
    <3>5. SameRings(after, write)
      BY <1>2, <1>3, <1>4, <3>1, <3>2, <3>4 DEF SameRings
    <3> QED
      BY <3>3, <3>5
  <2> QED
    BY <2>1, <2>2
<1> HIDE DEF write
<1>7. "create" \in Ops \ {"idle"}
  BY DEF Ops
<1> QED
  BY <1>1, <1>5, <1>6, <1>7, MutateRings

LEMMA DeleteRings ==
    ASSUME IInv, RingInv, NEW p \in Probe, BeginDelete(p)
    PROVE  RingInv'
<1> DEFINE after == DeleteProbe(mem, p)
           write == WriteDelete(after, p)
<1>1. /\ mem \in Memories /\ disk \in Memories
      /\ disk' = disk /\ Mutate("delete", p, after, write)
  BY DEF IInv, TypeOK, BeginDelete
<1>2. Sync(mem, disk) /\ Rings(mem) /\ Rings(disk) /\ SameRings(mem, disk)
  BY <1>1 DEF Mutate, IInv, IdleInSync, Sync, RingInv
<1>3. after.probes = mem.probes \ {p} /\ mem.expired \ {p} \subseteq after.expired
  BY <1>1, DeleteFields
<1>4. \A q \in Probe : after.events[q] = IF q = p THEN <<>> ELSE mem.events[q]
  <2>1. CASE p \in mem.probes
    BY <1>1, <2>1 DEF DeleteProbe, Memories
  <2>2. CASE p \notin mem.probes
    BY <1>2, <2>2 DEF DeleteProbe, Rings
  <2> QED
    BY <2>1, <2>2
<1> HIDE DEF after
<1>5. Rings(after)
  BY <1>2, <1>3, <1>4, RingType DEF Rings
<1>6. Rings(write) /\ SameRings(after, write)
  <2>1. CASE Store = "json"
    BY <1>5, <2>1 DEF WriteDelete, SameRings
  <2>2. CASE Store # "json"
    <3>1. /\ write.probes = disk.probes \ {p}
          /\ \A q \in Probe : write.events[q] = IF q = p THEN <<>> ELSE disk.events[q]
      BY <1>1, <2>2 DEF WriteDelete, Memories
    <3>2. mem.probes \subseteq Probe
      BY <1>1 DEF Memories
    <3> HIDE DEF write
    <3>3. Rings(write)
      BY <1>2, <3>1, RingType DEF Rings
    <3>4. SameRings(after, write)
      BY <1>2, <1>3, <1>4, <3>1, <3>2 DEF SameRings
    <3> QED
      BY <3>3, <3>4
  <2> QED
    BY <2>1, <2>2
<1> HIDE DEF write
<1>7. "delete" \in Ops \ {"idle"}
  BY DEF Ops
<1> QED
  BY <1>1, <1>5, <1>6, <1>7, MutateRings

LEMMA IngestRings ==
    ASSUME IInv, RingInv, NEW s \in Service, NEW p \in Probe, NEW k \in ReportKinds,
           NEW ts \in {clock, clock - 1} \ {0},
           NEW batch, batch = [q \in {p} |-> [kind |-> k, ts |-> ts]], BeginIngest(s, batch)
    PROVE  RingInv'
<1> DEFINE e == ExpireDueProbes(mem, clock)
           after == Ingest(mem, s, batch, clock)
           write == WriteIngest(after, DOMAIN batch)
<1>1. /\ mem \in Memories /\ disk \in Memories /\ clock \in Nat /\ k \in Kinds
      /\ disk' = disk /\ inflight.op = "idle" /\ DOMAIN batch = {p}
  BY ReportKindsType DEF IInv, TypeOK, BeginIngest, Mutate
<1>2. Sync(mem, disk) /\ Rings(mem) /\ Rings(disk) /\ SameRings(mem, disk)
  BY <1>1 DEF IInv, IdleInSync, Sync, RingInv
<1>3. /\ e \in Memories /\ e.probes = mem.probes /\ mem.expired \subseteq e.expired
      /\ Rings(e) /\ SameRings(e, mem)
  <2>1. mem \in Memories /\ clock \in Nat /\ Rings(mem)
    BY <1>1, <1>2
  <2>2. e \in Memories /\ e.probes = mem.probes /\ mem.expired \subseteq e.expired
    BY <2>1, ExpireFields
  <2>3. Rings(e) /\ SameRings(e, mem)
    BY <2>1, ExpireRings
  <2> QED
    BY <2>2, <2>3
<1>4. SameRings(e, disk)
  BY <1>2, <1>3, SameRingsTrans
<1>5. CASE ~IngestAccepted(mem, s, batch)
  <2>1. mem' = after /\ UNCHANGED inflight
    BY <1>5 DEF BeginIngest
  <2>2. ~IngestAccepted(e, s, batch)
    BY <1>3, <1>5 DEF IngestAccepted
  <2>3. after = e
    BY <2>2 DEF Ingest
  <2> QED
    BY <1>1, <2>1, <2>3, ExpiryOnlyRings
<1>6. CASE IngestAccepted(mem, s, batch)
  <2>1. Mutate("ingest", NoProbe, after, write)
    BY <1>6 DEF BeginIngest
  <2>2. IngestAccepted(e, s, batch) /\ p \in mem.probes
    BY <1>1, <1>3, <1>6 DEF IngestAccepted
  <2> HIDE DEF e
  <2>3. /\ after.probes = e.probes /\ after.expired = e.expired
        /\ \A q \in Probe : after.events[q] = IF q = p THEN Push(e.events[q], k) ELSE e.events[q]
    <3> DEFINE ev == [q \in Probe |-> IF q \in DOMAIN batch THEN Push(e.events[q], batch[q].kind)
                                      ELSE e.events[q]]
               st == [q \in Probe |-> IF q \in DOMAIN batch /\ batch[q].kind # "data"
                                      THEN ReportedStatus(e.status[q], batch[q])
                                      ELSE e.status[q]]
    <3>1. after = [e EXCEPT !.events = ev, !.status = st]
      BY <2>2 DEF Ingest, e
    <3>2. \A q \in Probe : ev[q] = IF q = p THEN Push(e.events[q], k) ELSE e.events[q]
      BY <1>1
    <3> HIDE DEF after, ev, st
    <3>3. after.probes = e.probes /\ after.expired = e.expired /\ after.events = ev
      BY <1>3, <3>1 DEF Memories
    <3> QED
      BY <3>2, <3>3
  <2> HIDE DEF after
  <2>4. Rings(after)
    <3>1. \A q \in Probe : e.events[q] \in Seq(Kinds) /\ Len(e.events[q]) <= RingCapacity
      BY <1>3 DEF Rings, Memories
    <3>2. \A q \in Probe : Len(Push(e.events[q], k)) <= RingCapacity
      BY <1>1, <3>1, PushFits
    <3> QED
      BY <1>3, <2>2, <2>3, <3>2 DEF Rings
  <2>5. Rings(write) /\ SameRings(after, write)
    <3>1. CASE Store = "json"
      BY <2>4, <3>1 DEF WriteIngest, SameRings
    <3>2. CASE Store # "json"
      <4>1. /\ write.probes = disk.probes
            /\ \A q \in Probe : write.events[q] = IF q = p THEN after.events[q] ELSE disk.events[q]
        BY <1>1, <3>2 DEF WriteIngest, Memories
      <4>2. mem.probes \subseteq Probe /\ p \in disk.probes
        BY <1>1, <1>2, <2>2 DEF Memories, Sync
      <4> HIDE DEF write
      <4>3. Rings(write)
        BY <1>2, <2>4, <4>1, <4>2 DEF Rings
      <4>4. SameRings(after, write)
        BY <1>3, <1>4, <2>3, <4>1, <4>2 DEF SameRings
      <4> QED
        BY <4>3, <4>4
    <3> QED
      BY <3>1, <3>2
  <2> HIDE DEF write
  <2>6. "ingest" \in Ops \ {"idle"}
    BY DEF Ops
  <2> QED
    BY <1>1, <2>1, <2>4, <2>5, <2>6, MutateRings
<1> QED
  BY <1>5, <1>6

LEMMA MapsRings ==
    ASSUME IInv, RingInv, NEW s \in Service, BeginCompleteSourceMaps(s)
    PROVE  RingInv'
<1> DEFINE after == CompleteSourceMaps(mem, s)
           write == WriteMaps(after, s)
<1>1. /\ mem \in Memories /\ disk \in Memories
      /\ disk' = disk /\ Mutate("maps", NoProbe, after, write)
  BY DEF IInv, TypeOK, BeginCompleteSourceMaps
<1>2. Rings(mem) /\ Rings(disk) /\ SameRings(mem, disk)
  BY <1>1 DEF Mutate, RingInv
<1>3. after.probes = mem.probes /\ after.expired = mem.expired /\ after.events = mem.events
  BY <1>1 DEF CompleteSourceMaps, Memories
<1> HIDE DEF after
<1>4. Rings(after)
  BY <1>2, <1>3 DEF Rings
<1>5. Rings(write) /\ SameRings(after, write)
  <2>1. CASE Store = "json"
    BY <1>4, <2>1 DEF WriteMaps, SameRings
  <2>2. CASE Store # "json"
    <3>1. write.probes = disk.probes /\ write.events = disk.events
      BY <1>1, <2>2 DEF WriteMaps, Memories
    <3> QED
      BY <1>2, <1>3, <3>1 DEF Rings, SameRings
  <2> QED
    BY <2>1, <2>2
<1> HIDE DEF write
<1>6. "maps" \in Ops \ {"idle"}
  BY DEF Ops
<1> QED
  BY <1>1, <1>4, <1>5, <1>6, MutateRings

(* The full persist stores every ring. *)
LEMMA WriteAllRings ==
    ASSUME disk \in Memories, Rings(disk), NEW m \in Memories, Rings(m)
    PROVE  Rings(WriteAll(m)) /\ SameRings(m, WriteAll(m))
<1>1. CASE Store = "json"
  BY <1>1 DEF WriteAll, SameRings
<1>2. CASE Store # "json"
  <2>1. /\ WriteAll(m).probes = disk.probes \cup m.probes
        /\ \A q \in Probe : WriteAll(m).events[q] =
               IF q \in m.probes THEN m.events[q] ELSE disk.events[q]
    BY <1>2 DEF WriteAll, Memories
  <2>2. m.probes \subseteq Probe
    BY DEF Memories
  <2>3. Rings(WriteAll(m))
    BY <2>1, <2>2 DEF Rings
  <2>4. SameRings(m, WriteAll(m))
    BY <2>1, <2>2 DEF SameRings
  <2> QED
    BY <2>3, <2>4
<1> QED
  BY <1>1, <1>2

LEMMA SweepRings ==
    ASSUME IInv, RingInv, BeginSweep \/ BeginSnapshot
    PROVE  RingInv'
<1>1. mem \in Memories /\ disk \in Memories /\ clock \in Nat /\ Rings(mem) /\ Rings(disk) /\ disk' = disk
  BY DEF IInv, TypeOK, RingInv, BeginSweep, BeginSnapshot
<1>2. CASE BeginSweep
  <2> DEFINE after == ExpireDueProbes(mem, clock)
  <2>1. Mutate("sweep", NoProbe, after, WriteAll(after))
    BY <1>2 DEF BeginSweep
  <2>2. after \in Memories /\ Rings(after)
    BY <1>1, ExpireFields, ExpireRings
  <2> HIDE DEF after
  <2>3. Rings(WriteAll(after)) /\ SameRings(after, WriteAll(after))
    BY <1>1, <2>2, WriteAllRings
  <2>4. "sweep" \in Ops \ {"idle"}
    BY DEF Ops
  <2> QED
    BY <1>1, <2>1, <2>2, <2>3, <2>4, MutateRings
<1>3. CASE BeginSnapshot
  <2>1. Mutate("snapshot", NoProbe, mem, WriteAll(mem))
    BY <1>3 DEF BeginSnapshot
  <2>2. Rings(WriteAll(mem)) /\ SameRings(mem, WriteAll(mem))
    BY <1>1, WriteAllRings
  <2>3. "snapshot" \in Ops \ {"idle"}
    BY DEF Ops
  <2> QED
    BY <1>1, <2>1, <2>2, <2>3, MutateRings
<1> QED
  BY <1>2, <1>3

(* A persist that settles, a crash, a restart: nothing is awaited after. *)
LEMMA SettledRings ==
    ASSUME IInv, RingInv, PersistOk \/ PersistFail \/ Crash \/ CleanRestart
    PROVE  RingInv'
<1>1. /\ mem \in Memories /\ disk \in Memories /\ clock \in Nat
      /\ inflight.before \in Memories /\ inflight.write \in Memories
      /\ Rings(mem) /\ Rings(disk)
  BY DEF IInv, TypeOK, RingInv
<1>2. SUFFICES inflight'.op = "idle" /\ Rings(mem') /\ Rings(disk') /\ SameRings(mem', disk')
  BY DEF RingInv
<1>3. CASE PersistOk
  <2>1. inflight'.op = "idle" /\ mem' = mem /\ disk' = inflight.write /\ inflight.op # "idle"
    BY <1>3 DEF PersistOk, Idle
  <2> QED
    BY <1>1, <2>1 DEF RingInv
<1>4. CASE PersistFail
  <2>1. /\ inflight'.op = "idle" /\ disk' = disk /\ inflight.op # "idle"
        /\ mem' = IF inflight.op = "snapshot" THEN mem ELSE Restore(inflight.before, clock)
    BY <1>4 DEF PersistFail, Idle
  <2>2. CASE inflight.op = "snapshot"
    BY <1>1, <2>1, <2>2 DEF RingInv
  <2>3. CASE inflight.op # "snapshot"
    <3>1. mem' = Restore(inflight.before, clock)
      BY <2>1, <2>3
    <3>2. Rings(inflight.before) /\ SameRings(inflight.before, disk)
      BY <2>1 DEF RingInv
    <3>3. Rings(mem') /\ SameRings(mem', inflight.before)
      BY <1>1, <3>1, <3>2, RestoreRings
    <3>4. mem'.probes = inflight.before.probes /\ inflight.before.expired \subseteq mem'.expired
      BY <1>1, <3>1, RestoreFields
    <3>5. SameRings(mem', disk)
      BY <3>2, <3>3, <3>4, SameRingsTrans
    <3> QED
      BY <1>1, <2>1, <3>3, <3>5
  <2> QED
    BY <2>2, <2>3
<1>5. CASE Crash
  <2>1. PICK written \in {disk} \cup (IF inflight.op = "idle" THEN {} ELSE {inflight.write}) :
           disk' = written /\ mem' = Restore(written, clock)
    BY <1>5 DEF Crash
  <2>2. written \in Memories /\ Rings(written)
    BY <1>1, <2>1 DEF RingInv
  <2>3. inflight'.op = "idle"
    BY <1>5 DEF Crash, Idle
  <2> QED
    BY <1>1, <2>1, <2>2, <2>3, RestoreRings
<1>6. CASE CleanRestart
  <2>1. inflight'.op = "idle" /\ disk' = WriteAll(mem) /\ mem' = Restore(disk', clock)
    BY <1>6 DEF CleanRestart
  <2>2. Rings(disk')
    BY <1>1, <2>1, WriteAllRings
  <2>3. disk' \in Memories
    BY <1>6, CleanRestartIInv DEF IInv, TypeOK
  <2> QED
    BY <1>1, <2>1, <2>2, <2>3, RestoreRings
<1> QED
  BY <1>3, <1>4, <1>5, <1>6

LEMMA RingNext ==
    ASSUME IInv, RingInv, [Next]_vars
    PROVE  RingInv'
<1>1. ASSUME NEW s \in Service, NEW p \in Probe, NEW k \in ReportKinds,
             NEW ts \in {clock, clock - 1} \ {0},
             BeginIngest(s, [q \in {p} |-> [kind |-> k, ts |-> ts]])
      PROVE  RingInv'
  <2> DEFINE b == [q \in {p} |-> [kind |-> k, ts |-> ts]]
  <2>1. b = [q \in {p} |-> [kind |-> k, ts |-> ts]] /\ BeginIngest(s, b)
    BY <1>1
  <2> HIDE DEF b
  <2> QED
    BY <2>1, IngestRings
<1>2. CASE Read
  BY <1>2, ExpiryOnlyRings DEF Read
<1>3. ASSUME NEW a \in Agent, Poll(a) PROVE RingInv'
  BY <1>3, ExpiryOnlyRings DEF Poll
<1>4. CASE UNCHANGED <<mem, disk, inflight>>
  BY <1>4 DEF RingInv
<1>5. ASSUME NEW s \in MapServices, BeginCompleteSourceMaps(s) PROVE RingInv'
  BY <1>5, MapServicesType, MapsRings
<1>6. ASSUME NEW a \in Agent, AgentRestart(a) PROVE UNCHANGED <<mem, disk, inflight>>
  BY <1>6 DEF AgentRestart
<1>7. CASE Tick \/ UNCHANGED vars
  BY <1>4, <1>7 DEF Tick, vars
<1>8. CASE Next
  BY <1>1, <1>2, <1>3, <1>4, <1>5, <1>6, <1>7, <1>8, CreateRings, DeleteRings, SweepRings,
     SettledRings DEF Next
<1> QED
  BY <1>7, <1>8

(* A 202 answer is kept: for either store, any write failures, crashes and *)
(* concurrent reads, whenever no persist is awaited the rings of the       *)
(* active probes are the same in memory and in the store.                  *)
THEOREM AcknowledgedEventsSurvive == Spec => []EventsDurable
<1>1. RingInv => EventsDurable
  BY DEF RingInv, SameRings, EventsDurable
<1>2. IInv /\ RingInv /\ [Next]_vars => RingInv'
  BY RingNext
<1> QED
  BY <1>1, <1>2, RingInit, InvariantHolds, PTL DEF Spec

-----------------------------------------------------------------------------
(* What agents see of the broker's versions.  Without store failures and   *)
(* broker crashes, DurableBroker implements ProbeFeed, hence polling is    *)
(* coherent.  With both, and the JSON file as the store, no version goes   *)
(* back except where an awaited write fails or dies with the process.      *)

(* From memory m to memory n, service s kept what it publishes or moved    *)
(* its version up.                                                         *)
Republished(m, n, s) ==
    \/ n.version[s] > m.version[s]
    \/ /\ n.version[s] = m.version[s]
       /\ Active(n, s) = Active(m, s)
       /\ (s \in n.mapped) = (s \in m.mapped)

(* expireDueProbes bumps the version of every service that loses a probe. *)
LEMMA ExpireRepublishes ==
    ASSUME NEW m \in Memories, NEW now \in Nat, NEW s \in Service
    PROVE  Republished(m, ExpireDueProbes(m, now), s)
<1> DEFINE e == ExpireDueProbes(m, now)
           lost == {p \in Due(m, now) : SvcOf[p] = s}
<1>1. e.probes = m.probes /\ e.expired = m.expired \cup Due(m, now)
      /\ e.mapped = m.mapped /\ e.version[s] = m.version[s] + Cardinality(lost)
  BY ExpireFields
<1>2. lost \in SUBSET Probe /\ m.version[s] \in Nat
  BY DEF Due, Memories
<1>3. /\ Cardinality(lost) \in Nat
      /\ lost # {} => Cardinality(lost) > 0
      /\ lost = {} => Cardinality(lost) = 0
  BY <1>2, ProbeCount
<1> HIDE DEF e
<1>4. CASE lost = {}
  <2>1. Active(e, s) = Active(m, s)
    BY <1>1, <1>4 DEF Active
  <2>2. e.version[s] = m.version[s]
    BY <1>1, <1>2, <1>3, <1>4
  <2> QED
    BY <1>1, <2>1, <2>2 DEF Republished, e
<1>5. CASE lost # {}
  <2> HIDE DEF lost
  <2>1. e.version[s] > m.version[s]
    BY <1>1, <1>2, <1>3, <1>5
  <2> QED
    BY <2>1 DEF Republished, e
<1> QED
  BY <1>4, <1>5

(* incrementServiceVersion moves one service and leaves the others. *)
LEMMA IncrementMoves ==
    ASSUME NEW version \in [Service -> Nat], NEW t \in Service, NEW s \in Service
    PROVE  /\ s = t => IncrementServiceVersion(version, t)[s] > version[s]
           /\ s # t => IncrementServiceVersion(version, t)[s] = version[s]
BY DEF IncrementServiceVersion

(* createProbe publishes a new version of one service. *)
LEMMA CreateRepublishes ==
    ASSUME NEW m \in Memories, NEW p \in Probe, NEW now \in Nat,
           p \notin m.probes, NEW s \in Service
    PROVE  Republished(m, CreateProbe(m, p, now), s)
<1> DEFINE c == CreateProbe(m, p, now)
<1>1. /\ c \in Memories
      /\ c.probes = m.probes \cup {p}
      /\ c.expired = m.expired \ {p}
      /\ c.expiresAt = [m.expiresAt EXCEPT ![p] = now + Ttl[p]]
      /\ c.mapped = m.mapped
      /\ c.version = IncrementServiceVersion(m.version, SvcOf[p])
  BY CreateFields
<1>2. SvcOf[p] \in Service /\ m.version \in [Service -> Nat]
  BY SvcOfType DEF Memories
<1> HIDE DEF c
<1>3. CASE s = SvcOf[p]
  BY <1>1, <1>2, <1>3, IncrementMoves DEF Republished, c
<1>4. CASE s # SvcOf[p]
  <2>1. c.version[s] = m.version[s]
    BY <1>1, <1>2, <1>4, IncrementMoves
  <2>2. Active(c, s) = Active(m, s)
    BY <1>1, <1>4 DEF Active
  <2> QED
    BY <1>1, <2>1, <2>2 DEF Republished, c
<1> QED
  BY <1>3, <1>4

(* deleteProbe publishes a new version unless the probe had expired. *)
LEMMA DeleteRepublishes ==
    ASSUME NEW m \in Memories, NEW p \in Probe, NEW s \in Service
    PROVE  Republished(m, DeleteProbe(m, p), s)
<1> DEFINE d == DeleteProbe(m, p)
<1>1. /\ d.probes = m.probes \ {p}
      /\ d.mapped = m.mapped
      /\ p \in m.probes =>
           /\ d.expired = m.expired \ {p}
           /\ d.version = IF p \in m.expired THEN m.version
                          ELSE IncrementServiceVersion(m.version, SvcOf[p])
      /\ p \notin m.probes => d = m
  BY DeleteFields
<1>2. SvcOf[p] \in Service /\ m.version \in [Service -> Nat]
  BY SvcOfType DEF Memories
<1> HIDE DEF d
<1>3. CASE p \notin m.probes
  BY <1>1, <1>3 DEF Republished, d
<1>4. CASE p \in m.probes /\ p \in m.expired
  <2>1. Active(d, s) = Active(m, s) /\ d.version = m.version
    BY <1>1, <1>4 DEF Active
  <2> QED
    BY <1>1, <2>1 DEF Republished, d
<1>5. CASE p \in m.probes /\ p \notin m.expired /\ s = SvcOf[p]
  BY <1>1, <1>2, <1>5, IncrementMoves DEF Republished, d
<1>6. CASE p \in m.probes /\ p \notin m.expired /\ s # SvcOf[p]
  <2>1. d.version[s] = m.version[s]
    BY <1>1, <1>2, <1>6, IncrementMoves
  <2>2. Active(d, s) = Active(m, s)
    BY <1>1, <1>6 DEF Active
  <2> QED
    BY <1>1, <2>1, <2>2 DEF Republished, d
<1> QED
  BY <1>3, <1>4, <1>5, <1>6

(* completeSourceMaps publishes a new version of one service. *)
LEMMA MapsRepublish ==
    ASSUME NEW m \in Memories, NEW t \in Service, NEW s \in Service
    PROVE  Republished(m, CompleteSourceMaps(m, t), s)
<1> DEFINE c == CompleteSourceMaps(m, t)
<1>1. c.probes = m.probes /\ c.expired = m.expired /\ c.mapped = m.mapped \cup {t}
      /\ c.version = IncrementServiceVersion(m.version, t)
  BY MapsFields
<1>2. m.version \in [Service -> Nat]
  BY DEF Memories
<1> HIDE DEF c
<1>3. CASE s = t
  BY <1>1, <1>2, <1>3, IncrementMoves DEF Republished, c
<1>4. CASE s # t
  <2>1. c.version[s] = m.version[s]
    BY <1>1, <1>2, <1>4, IncrementMoves
  <2>2. Active(c, s) = Active(m, s)
    BY <1>1 DEF Active
  <2> QED
    BY <1>1, <1>4, <2>1, <2>2 DEF Republished, c
<1> QED
  BY <1>3, <1>4

(* An ingest publishes what expired on its way, and nothing else. *)
LEMMA IngestRepublishes ==
    ASSUME NEW m \in Memories, NEW t \in Service, NEW now \in Nat,
           NEW p \in Probe, NEW k \in Kinds, NEW ts \in Nat,
           NEW batch, batch = [q \in {p} |-> [kind |-> k, ts |-> ts]],
           NEW s \in Service
    PROVE  Republished(m, Ingest(m, t, batch, now), s)
<1> DEFINE i == Ingest(m, t, batch, now)
           e == ExpireDueProbes(m, now)
<1>1. /\ i.probes = e.probes /\ i.expired = e.expired
      /\ i.mapped = e.mapped /\ i.version = e.version
  BY IngestFields
<1>2. Republished(m, e, s)
  BY ExpireRepublishes
<1> HIDE DEF i, e
<1>3. Republished(m, i, s)
  BY <1>1, <1>2 DEF Republished, Active
<1> QED
  BY <1>3 DEF i

-----------------------------------------------------------------------------
(* The two ways a step without faults treats the feed and the views. *)
Republishes == \A s \in Service : Republished(mem, mem', s)

FollowsFeed ==
    \A a \in Agent : view'[a] \in {view[a], NoView, Published(AgentSvc[a])'}

(* Unless it reloads memory, a step publishes under new versions. *)
LEMMA OrdinaryStep ==
    ASSUME IInv, Next, ~PersistFail, ~Crash, ~CleanRestart
    PROVE  Republishes /\ FollowsFeed
<1> USE DEF Republishes
<1>0. mem \in Memories /\ clock \in Nat
  BY DEF IInv, TypeOK
<1>1. ASSUME mem' = mem PROVE Republishes
  BY <1>1 DEF Republished
<1>2. ASSUME view' = view PROVE FollowsFeed
  BY <1>2 DEF FollowsFeed
<1>3. ASSUME NEW p \in Probe, BeginCreate(p) PROVE Republishes /\ FollowsFeed
  <2>1. mem' = CreateProbe(mem, p, clock) /\ p \notin mem.probes /\ view' = view
    BY <1>3 DEF BeginCreate, Mutate
  <2> QED
    BY <1>0, <1>2, <2>1, CreateRepublishes
<1>4. ASSUME NEW p \in Probe, BeginDelete(p) PROVE Republishes /\ FollowsFeed
  <2>1. mem' = DeleteProbe(mem, p) /\ view' = view
    BY <1>4 DEF BeginDelete, Mutate
  <2> QED
    BY <1>0, <1>2, <2>1, DeleteRepublishes
<1>5. ASSUME NEW t \in Service, NEW p \in Probe, NEW k \in ReportKinds,
             NEW ts \in {clock, clock - 1} \ {0},
             BeginIngest(t, [q \in {p} |-> [kind |-> k, ts |-> ts]])
      PROVE Republishes /\ FollowsFeed
  <2> DEFINE b == [q \in {p} |-> [kind |-> k, ts |-> ts]]
  <2>1. b = [q \in {p} |-> [kind |-> k, ts |-> ts]]
    OBVIOUS
  <2>2. mem' = Ingest(mem, t, b, clock) /\ view' = view
    BY <1>5 DEF BeginIngest, Mutate
  <2>3. k \in Kinds /\ ts \in Nat
    BY ReportKindsType DEF IInv, TypeOK
  <2>4. mem \in Memories /\ clock \in Nat
    BY <1>0
  <2> HIDE DEF b
  <2>5. \A s \in Service : Republished(mem, Ingest(mem, t, b, clock), s)
    BY <2>1, <2>3, <2>4, IngestRepublishes
  <2>6. \A s \in Service : Republished(mem, mem', s)
    BY <2>2, <2>5
  <2> QED
    BY <1>2, <2>2, <2>6
<1>6. ASSUME NEW t \in MapServices, BeginCompleteSourceMaps(t)
      PROVE Republishes /\ FollowsFeed
  <2>1. mem' = CompleteSourceMaps(mem, t) /\ view' = view /\ t \in Service
    BY <1>6, MapServicesType DEF BeginCompleteSourceMaps, Mutate
  <2> QED
    BY <1>0, <1>2, <2>1, MapsRepublish
<1>7. CASE BeginSweep \/ Read
  <2>1. mem' = ExpireDueProbes(mem, clock) /\ view' = view
    BY <1>7 DEF BeginSweep, Read, Mutate
  <2> QED
    BY <1>0, <1>2, <2>1, ExpireRepublishes
<1>8. CASE BeginSnapshot \/ PersistOk \/ Tick
  BY <1>1, <1>2, <1>8 DEF BeginSnapshot, PersistOk, Tick, Mutate
<1>9. ASSUME NEW a \in Agent, Poll(a) PROVE Republishes /\ FollowsFeed
  <2> DEFINE s == AgentSvc[a]
  <2>1. mem' = ExpireDueProbes(mem, clock) /\ s \in Service
    BY <1>9, AgentSvcType DEF Poll
  <2>2. Republishes
    BY <1>0, <2>1, ExpireRepublishes
  <2>3. view' = view \/ view' = [view EXCEPT ![a] = Published(s)']
    BY <1>9 DEF Poll, Published
  <2>4. FollowsFeed
    BY <2>3 DEF FollowsFeed, IInv, TypeOK
  <2> QED
    BY <2>2, <2>4
<1>10. ASSUME NEW a \in Agent, AgentRestart(a) PROVE Republishes /\ FollowsFeed
  <2>1. mem' = mem /\ view' = [view EXCEPT ![a] = NoView]
    BY <1>10 DEF AgentRestart
  <2>2. FollowsFeed
    BY <2>1 DEF FollowsFeed, IInv, TypeOK
  <2> QED
    BY <1>1, <2>1, <2>2
<1> QED
  BY <1>3, <1>4, <1>5, <1>6, <1>7, <1>8, <1>9, <1>10 DEF Next

-----------------------------------------------------------------------------
(* The broker's initial states map to initial states of the feed. *)
LEMMA InitFeed == Init => Feed!FeedInit
<1> SUFFICES ASSUME Init PROVE Feed!FeedInit
  OBVIOUS
<1>1. ASSUME NEW s \in Service
      PROVE  Published(s) = Feed!Nothing
  <2>1. mem.version[s] = 0 /\ mem.probes = {} /\ mem.mapped = {}
    BY DEF Init, EmptyMemory
  <2>2. Active(mem, s) = {} /\ (s \in mem.mapped) = FALSE
    BY <2>1 DEF Active
  <2> QED
    BY <2>1, <2>2 DEF Published, Feed!Nothing
<1>2. view = [a \in Agent |-> Feed!Nothing]
  BY DEF Init, NoView, Feed!Nothing
<1> QED
  BY <1>1, <1>2 DEF Feed!FeedInit

(* Every fault-free step of the broker is a step of the feed, or none. *)
LEMMA StepFeed ==
    ASSUME ~CanFail, ~CanCrash, IInv, IInv', [Next]_vars
    PROVE  [Feed!FeedNext]_(Feed!feedVars)
<1>1. CASE UNCHANGED vars
  <2>1. [s \in Service |-> Published(s)]' = [s \in Service |-> Published(s)]
        /\ view' = view
    BY <1>1 DEF vars, Published
  <2> QED
    BY <2>1 DEF Feed!feedVars
<1>2. CASE Next
  <2>1. Republishes /\ FollowsFeed
    <3>1. ~PersistFail /\ ~Crash /\ ~CleanRestart
      BY DEF PersistFail, Crash, CleanRestart
    <3> QED
      BY <1>2, <3>1, OrdinaryStep
  <2>2. [s \in Service |-> Published(s)]' \in [Service -> Feed!Content]
    BY DEF IInv, TypeOK, Memories, Published, Active, Feed!Content
  <2>3. ASSUME NEW s \in Service
        PROVE  Published(s)' = Published(s) \/ Published(s)'.since > Published(s).since
    BY <2>1 DEF Republishes, Republished, Published
  <2>4. Feed!Publish
    BY <2>2, <2>3 DEF Feed!Publish
  <2>5. view' \in [Agent -> Feed!Content]
    BY DEF IInv, TypeOK, Views, Feed!Content
  <2>6. \A a \in Agent : view'[a] \in {view[a], Feed!Nothing, Published(AgentSvc[a])'}
    BY <2>1 DEF FollowsFeed, NoView, Feed!Nothing
  <2>7. Feed!Follow
    BY <2>5, <2>6, AgentSvcType DEF Feed!Follow
  <2> QED
    BY <2>4, <2>7 DEF Feed!FeedNext
<1> QED
  BY <1>1, <1>2

(* Without store failures and broker crashes every behaviour of the broker *)
(* and its agents is a behaviour of the abstract feed: no handler, timer   *)
(* or expiring read changes what a service publishes under one version.    *)
THEOREM BrokerImplementsFeed ==
    ASSUME ~CanFail, ~CanCrash
    PROVE  Spec => ImplementsFeed
<1>1. Init => Feed!FeedInit
  BY InitFeed
<1>2. IInv /\ IInv' /\ [Next]_vars => [Feed!FeedNext]_(Feed!feedVars)
  BY StepFeed
<1> QED
  BY <1>1, <1>2, InvariantHolds, PTL DEF Spec, ImplementsFeed, Feed!FeedSpec

Abstract == INSTANCE ProbeFeedProofs WITH feed <- [s \in Service |-> Published(s)]

(* Hence polling is coherent: an agent that is told `unchanged` runs       *)
(* exactly the active probes of its service, with the current mapping.     *)
THEOREM PollingIsCoherent ==
    ASSUME ~CanFail, ~CanCrash
    PROVE  Spec => []PollCoherent
<1>1. Spec => Abstract!FeedSpec
  BY BrokerImplementsFeed, PTL
     DEF ImplementsFeed, Feed!FeedSpec, Abstract!FeedSpec, Feed!FeedInit,
         Abstract!FeedInit, Feed!FeedNext, Abstract!FeedNext, Feed!feedVars,
         Abstract!feedVars, Feed!Publish, Abstract!Publish, Feed!Follow,
         Abstract!Follow, Feed!Content, Abstract!Content, Feed!Nothing,
         Abstract!Nothing
<1>2. Abstract!FeedSpec => []Abstract!Coherent
  BY AgentSvcType, Abstract!FeedCoherent
<1>3. Abstract!Coherent => PollCoherent
  <2> SUFFICES ASSUME Abstract!Coherent, NEW a \in Agent,
                      view[a].since = mem.version[AgentSvc[a]]
               PROVE  /\ view[a].probes = Active(mem, AgentSvc[a])
                      /\ view[a].mapped = (AgentSvc[a] \in mem.mapped)
    BY DEF PollCoherent
  <2>1. AgentSvc[a] \in Service
    BY AgentSvcType
  <2>2. Published(AgentSvc[a]).since = mem.version[AgentSvc[a]]
    BY DEF Published
  <2>3. view[a] = Published(AgentSvc[a])
    BY <2>1, <2>2 DEF Abstract!Coherent
  <2> QED
    BY <2>3 DEF Published
<1> QED
  BY <1>1, <1>2, <1>3, PTL

-----------------------------------------------------------------------------
(* Versions across failed writes, crashes and restarts, with the JSON      *)
(* store.  Reads expire probes in memory only, so memory's versions run    *)
(* ahead of the file's.                                                    *)

(* The probes of service s that expired in memory m and not in store d. *)
Ahead(m, d, s) == {p \in m.expired \ d.expired : SvcOf[p] = s}

(* At time t memory m is ahead of store d by expiries alone: each is due   *)
(* in d as well, and accounts for one version at most.                     *)
Lags(m, d, t) ==
    /\ Sync(m, d)
    /\ m.expired \ d.expired \subseteq Due(d, t)
    /\ \A s \in Service : m.version[s] <= d.version[s] + Cardinality(Ahead(m, d, s))

LagInv ==
    /\ inflight.op = "idle" => Lags(mem, disk, clock)
    /\ inflight.op # "idle" =>
          /\ Lags(inflight.before, disk, clock)
          /\ Lags(mem, inflight.write, clock)
          /\ inflight.op = "snapshot" => Lags(mem, disk, clock)

(* A whole file just written holds what memory holds. *)
LEMMA LagsSelf ==
    ASSUME NEW m \in Memories, NEW t \in Nat
    PROVE  Lags(m, m, t)
<1>1. ASSUME NEW s \in Service
      PROVE  m.version[s] <= m.version[s] + Cardinality(Ahead(m, m, s))
  <2>1. Ahead(m, m, s) = {} /\ Ahead(m, m, s) \in SUBSET Probe /\ m.version[s] \in Nat
    BY DEF Ahead, Memories
  <2>2. Cardinality(Ahead(m, m, s)) = 0
    BY <2>1, ProbeCount
  <2> QED
    BY <2>1, <2>2
<1> QED
  BY <1>1 DEF Lags, Sync

(* What was due stays due. *)
LEMMA LagsLater ==
    ASSUME NEW m, NEW d \in Memories, NEW t \in Nat, NEW u \in Nat, t <= u, Lags(m, d, t)
    PROVE  Lags(m, d, u)
<1>1. Due(d, t) \subseteq Due(d, u)
  BY DEF Due, Memories
<1> QED
  BY <1>1 DEF Lags

(* Expiring and counting commute with the lag. *)
LEMMA ExpiriesAddUp ==
    ASSUME NEW m \in Memories, NEW d \in Memories, NEW t \in Nat, NEW s \in Service,
           NEW e \in Memories, e.expired = m.expired \cup Due(m, t)
    PROVE  LET lost == {p \in Due(m, t) : SvcOf[p] = s} IN
           Sync(m, d) =>
           Cardinality(Ahead(e, d, s)) = Cardinality(Ahead(m, d, s)) + Cardinality(lost)
<1> SUFFICES ASSUME Sync(m, d)
             PROVE  Cardinality(Ahead(e, d, s)) =
                      Cardinality(Ahead(m, d, s)) + Cardinality({p \in Due(m, t) : SvcOf[p] = s})
  OBVIOUS
<1> DEFINE lost == {p \in Due(m, t) : SvcOf[p] = s}
           old == Ahead(m, d, s)
<1>1. m.expired \subseteq Probe /\ m.probes \subseteq Probe /\ d.expired \subseteq m.expired
  BY DEF Memories, Sync
<1>2. /\ Ahead(e, d, s) = old \cup lost /\ old \cap lost = {}
      /\ old \subseteq Probe /\ lost \subseteq Probe
  BY <1>1 DEF Ahead, Due
<1> HIDE DEF old, lost
<1>3. IsFiniteSet(old) /\ IsFiniteSet(lost)
  BY <1>2, ProbeFinite, FS_Subset
<1>4. Cardinality(old \cap lost) = 0
  BY <1>2, FS_EmptySet
<1>5. Cardinality(old \cup lost) = Cardinality(old) + Cardinality(lost) - Cardinality(old \cap lost)
  BY <1>3, FS_Union
<1>6. Cardinality(old) \in Nat /\ Cardinality(lost) \in Nat
  BY <1>3, FS_CardinalityType
<1>7. Cardinality(old \cup lost) = Cardinality(old) + Cardinality(lost)
  BY <1>4, <1>5, <1>6
<1> QED
  BY <1>2, <1>7 DEF old, lost

(* A memory that expired what is due, by a read or a reload, lags no less. *)
LEMMA ExpiredLags ==
    ASSUME NEW m \in Memories, NEW d \in Memories, NEW t \in Nat, NEW e \in Memories,
           e.probes = m.probes, e.expiresAt = m.expiresAt,
           e.expired = m.expired \cup Due(m, t),
           e.version = [s \in Service |->
              m.version[s] + Cardinality({p \in Due(m, t) : SvcOf[p] = s})],
           Lags(m, d, t)
    PROVE  Lags(e, d, t)
<1>1. Sync(m, d)
  BY DEF Lags
<1>2. Sync(e, d)
  BY <1>1 DEF Sync
<1>3. e.expired \ d.expired \subseteq Due(d, t)
  BY <1>1 DEF Lags, Sync, Due
<1>4. ASSUME NEW s \in Service
      PROVE  e.version[s] <= d.version[s] + Cardinality(Ahead(e, d, s))
  <2> DEFINE lost == {p \in Due(m, t) : SvcOf[p] = s}
             old == Ahead(m, d, s)
  <2>1. old \in SUBSET Probe /\ lost \in SUBSET Probe /\ m.version[s] \in Nat
        /\ d.version[s] \in Nat
    BY DEF Memories, Ahead, Due
  <2>2. /\ e.version[s] = m.version[s] + Cardinality(lost)
        /\ m.version[s] <= d.version[s] + Cardinality(old)
    BY DEF Lags
  <2>3. Cardinality(Ahead(e, d, s)) = Cardinality(old) + Cardinality(lost)
    BY <1>1, ExpiriesAddUp
  <2>4. Cardinality(old) \in Nat /\ Cardinality(lost) \in Nat
    <3> HIDE DEF old, lost
    <3> QED
      BY <2>1, ProbeCount
  <2> HIDE DEF old, lost
  <2> QED
    BY <2>1, <2>2, <2>3, <2>4
<1> QED
  BY <1>2, <1>3, <1>4 DEF Lags

LEMMA ExpireLags ==
    ASSUME NEW m \in Memories, NEW d \in Memories, NEW t \in Nat, Lags(m, d, t)
    PROVE  Lags(ExpireDueProbes(m, t), d, t)
<1> DEFINE e == ExpireDueProbes(m, t)
<1>1. /\ e \in Memories /\ e.probes = m.probes /\ e.expiresAt = m.expiresAt
      /\ e.expired = m.expired \cup Due(m, t)
      /\ e.version = [s \in Service |->
            m.version[s] + Cardinality({p \in Due(m, t) : SvcOf[p] = s})]
  BY ExpireFields
<1> HIDE DEF e
<1>2. Lags(e, d, t)
  BY <1>1, ExpiredLags
<1> QED
  BY <1>2 DEF e

LEMMA RestoreLags ==
    ASSUME NEW m \in Memories, NEW d \in Memories, NEW t \in Nat, Lags(m, d, t)
    PROVE  Lags(Restore(m, t), d, t)
<1> DEFINE e == Restore(m, t)
<1>1. /\ e \in Memories /\ e.probes = m.probes /\ e.expiresAt = m.expiresAt
      /\ e.expired = m.expired \cup Due(m, t)
      /\ e.version = [s \in Service |->
            m.version[s] + Cardinality({p \in Due(m, t) : SvcOf[p] = s})]
  BY RestoreFields
<1> HIDE DEF e
<1>2. Lags(e, d, t)
  BY <1>1, ExpiredLags
<1> QED
  BY <1>2 DEF e

(* Restoring the store catches up: what memory had expired ahead of the    *)
(* store is due, so the reload expires it again and counts it again.       *)
LEMMA RestoreCatchesUp ==
    ASSUME NEW m \in Memories, NEW d \in Memories, NEW t \in Nat, Lags(m, d, t),
           NEW s \in Service
    PROVE  Restore(d, t).version[s] >= m.version[s]
<1> DEFINE due == {p \in Due(d, t) : SvcOf[p] = s}
           old == Ahead(m, d, s)
<1>1. Restore(d, t).version[s] = d.version[s] + Cardinality(due)
  BY RestoreFields, ZenonT(60)
<1>2. old \subseteq due /\ due \in SUBSET Probe /\ old \in SUBSET Probe
  BY DEF Lags, Ahead, Due, Memories
<1>3. m.version[s] <= d.version[s] + Cardinality(old) /\ m.version[s] \in Nat
      /\ d.version[s] \in Nat
  BY DEF Lags, Memories
<1> HIDE DEF due, old
<1>4. Cardinality(due) \in Nat /\ Cardinality(old) \in Nat
  BY <1>2, ProbeCount
<1>5. Cardinality(old) <= Cardinality(due)
  BY <1>2, ProbeFinite, FS_Subset
<1> QED
  BY <1>1, <1>3, <1>4, <1>5

LEMMA LagInit == Init => LagInv
<1> SUFFICES ASSUME Init PROVE LagInv
  OBVIOUS
<1>1. mem = disk /\ inflight.op = "idle"
  BY DEF Init, Idle
<1>2. mem \in Memories /\ clock \in Nat
  BY InitIInv DEF IInv, TypeOK
<1> QED
  BY <1>1, <1>2, LagsSelf DEF LagInv

(* Every mutation writes the whole file. *)
LEMMA MutateLags ==
    ASSUME IInv, IInv', LagInv, NEW op \in Ops \ {"idle"}, NEW p, NEW after,
           Mutate(op, p, after, after), disk' = disk, clock' = clock,
           op = "snapshot" => after = mem
    PROVE  LagInv'
<1>1. inflight.op = "idle" /\ mem' = after
      /\ inflight' = [op |-> op, probe |-> p, before |-> mem, write |-> after]
  BY DEF Mutate
<1>2. /\ inflight'.op = op /\ inflight'.op # "idle" /\ inflight'.before = mem
      /\ inflight'.write = after
  BY <1>1
<1>3. Lags(mem, disk, clock)
  BY <1>1 DEF LagInv
<1>4. after \in Memories /\ clock \in Nat
  BY <1>1 DEF IInv, TypeOK
<1>5. Lags(after, after, clock)
  BY <1>4, LagsSelf
<1>6. Lags(inflight'.before, disk', clock') /\ Lags(mem', inflight'.write, clock')
      /\ (op = "snapshot" => Lags(mem', disk', clock'))
  BY <1>1, <1>2, <1>3, <1>5
<1> QED
  BY <1>2, <1>6 DEF LagInv

(* Memory only expired. *)
LEMMA ExpiryOnlyLags ==
    ASSUME IInv, LagInv, mem' = ExpireDueProbes(mem, clock),
           UNCHANGED <<clock, disk, inflight>>
    PROVE  LagInv'
<1>1. /\ mem \in Memories /\ disk \in Memories /\ clock \in Nat
      /\ inflight.write \in Memories
  BY DEF IInv, TypeOK
<1>2. \A d \in Memories : Lags(mem, d, clock) => Lags(mem', d, clock)
  BY <1>1, ExpireLags
<1> QED
  BY <1>1, <1>2 DEF LagInv

(* What a settled or interrupted persist, or a restart, leaves. *)
LEMMA SettledLags ==
    ASSUME Store = "json", IInv, LagInv, PersistOk \/ PersistFail \/ Crash \/ CleanRestart
    PROVE  LagInv'
<1>1. /\ mem \in Memories /\ disk \in Memories /\ clock \in Nat
      /\ inflight.write \in Memories /\ inflight.before \in Memories
  BY DEF IInv, TypeOK
<1>2. clock' = clock /\ inflight'.op = "idle"
  BY DEF PersistOk, PersistFail, Crash, CleanRestart, Idle
<1>3. CASE PersistOk
  BY <1>2, <1>3 DEF PersistOk, LagInv
<1>4. CASE PersistFail
  <2>1. CASE inflight.op = "snapshot"
    BY <1>2, <1>4, <2>1 DEF PersistFail, LagInv
  <2>2. CASE inflight.op # "snapshot"
    <3>1. mem' = Restore(inflight.before, clock) /\ disk' = disk
          /\ Lags(inflight.before, disk, clock)
      BY <1>4, <2>2 DEF PersistFail, LagInv
    <3>2. Lags(Restore(inflight.before, clock), disk, clock)
      BY <1>1, <3>1, RestoreLags
    <3> QED
      BY <1>2, <3>1, <3>2 DEF LagInv
  <2> QED
    BY <2>1, <2>2
<1>5. CASE Crash \/ CleanRestart
  <2>1. PICK w \in Memories : disk' = w /\ mem' = Restore(w, clock)
    BY <1>1, <1>5 DEF Crash, CleanRestart, WriteAll
  <2>2. Lags(Restore(w, clock), w, clock)
    BY <1>1, LagsSelf, RestoreLags
  <2> QED
    BY <1>2, <2>1, <2>2 DEF LagInv
<1> QED
  BY <1>3, <1>4, <1>5

LEMMA LagNext ==
    ASSUME Store = "json", IInv, IInv', LagInv, [Next]_vars
    PROVE  LagInv'
<1>0. {"create", "delete", "ingest", "maps", "sweep", "snapshot"} \subseteq Ops \ {"idle"}
  BY DEF Ops
<1>1. ASSUME NEW p \in Probe, BeginCreate(p) PROVE LagInv'
  <2>1. Mutate("create", p, CreateProbe(mem, p, clock), CreateProbe(mem, p, clock))
        /\ UNCHANGED <<disk, clock>>
    BY <1>1 DEF BeginCreate, WriteProbe
  <2> QED
    BY <1>0, <2>1, MutateLags
<1>2. ASSUME NEW p \in Probe, BeginDelete(p) PROVE LagInv'
  <2>1. Mutate("delete", p, DeleteProbe(mem, p), DeleteProbe(mem, p))
        /\ UNCHANGED <<disk, clock>>
    BY <1>2 DEF BeginDelete, WriteDelete
  <2> QED
    BY <1>0, <2>1, MutateLags
<1>3. ASSUME NEW s \in Service, NEW batch, BeginIngest(s, batch) PROVE LagInv'
  <2> DEFINE after == Ingest(mem, s, batch, clock)
  <2>1. UNCHANGED <<disk, clock>>
    BY <1>3 DEF BeginIngest
  <2>2. CASE IngestAccepted(mem, s, batch)
    <3>1. Mutate("ingest", NoProbe, after, after)
      BY <1>3, <2>2 DEF BeginIngest, WriteIngest
    <3> HIDE DEF after
    <3> QED
      BY <1>0, <2>1, <3>1, MutateLags
  <2>3. CASE ~IngestAccepted(mem, s, batch)
    <3>1. mem' = after /\ UNCHANGED inflight
      BY <1>3, <2>3 DEF BeginIngest
    <3>2. mem \in Memories /\ clock \in Nat
      BY DEF IInv, TypeOK
    <3>3. ~IngestAccepted(ExpireDueProbes(mem, clock), s, batch)
      BY <2>3, <3>2, ExpireFields DEF IngestAccepted
    <3>4. after = ExpireDueProbes(mem, clock)
      BY <3>3 DEF Ingest
    <3> HIDE DEF after
    <3> QED
      BY <2>1, <3>1, <3>4, ExpiryOnlyLags
  <2> QED
    BY <2>2, <2>3
<1>4. ASSUME NEW s \in MapServices, BeginCompleteSourceMaps(s) PROVE LagInv'
  <2>1. Mutate("maps", NoProbe, CompleteSourceMaps(mem, s), CompleteSourceMaps(mem, s))
        /\ UNCHANGED <<disk, clock>>
    BY <1>4 DEF BeginCompleteSourceMaps, WriteMaps
  <2> QED
    BY <1>0, <2>1, MutateLags
<1>5. CASE BeginSweep
  <2>1. Mutate("sweep", NoProbe, ExpireDueProbes(mem, clock), ExpireDueProbes(mem, clock))
        /\ UNCHANGED <<disk, clock>>
    BY <1>5 DEF BeginSweep, WriteAll
  <2> QED
    BY <1>0, <2>1, MutateLags
<1>6. CASE BeginSnapshot
  <2>1. Mutate("snapshot", NoProbe, mem, mem) /\ UNCHANGED <<disk, clock>>
    BY <1>6 DEF BeginSnapshot, WriteAll
  <2> QED
    BY <1>0, <2>1, MutateLags
<1>7. CASE PersistOk \/ PersistFail \/ Crash \/ CleanRestart
  BY <1>7, SettledLags
<1>8. CASE Read \/ \E a \in Agent : Poll(a)
  BY <1>8, ExpiryOnlyLags DEF Read, Poll
<1>9. CASE Tick
  <2>1. /\ UNCHANGED <<mem, disk, inflight>> /\ clock \in Nat /\ clock' \in Nat
        /\ clock <= clock' /\ disk \in Memories /\ inflight.write \in Memories
    BY <1>9 DEF Tick, IInv, TypeOK
  <2>2. \A m : \A d \in Memories : Lags(m, d, clock) => Lags(m, d, clock')
    BY <2>1, LagsLater
  <2> QED
    BY <2>1, <2>2 DEF LagInv
<1>10. CASE (\E a \in Agent : AgentRestart(a)) \/ UNCHANGED vars
  BY <1>10 DEF AgentRestart, vars, LagInv
<1> QED
  BY <1>1, <1>2, <1>3, <1>4, <1>5, <1>6, <1>7, <1>8, <1>9, <1>10 DEF Next

(* With the JSON store, whatever writes fail and whenever the process dies *)
(* or restarts, a step that starts with nothing awaited takes no version   *)
(* back: reads raise versions in memory only, and the reload after a crash *)
(* raises them again before anyone polls.                                  *)
THEOREM IdleVersionsNeverGoBack ==
    ASSUME Store = "json"
    PROVE  Spec => VersionMonotonicWhenIdle
<1>1. IInv /\ LagInv /\ [Next]_vars =>
        [inflight.op = "idle" =>
           \A s \in Service : mem'.version[s] >= mem.version[s]]_vars
  <2> SUFFICES ASSUME IInv, LagInv, Next, inflight.op = "idle", NEW s \in Service
               PROVE  mem'.version[s] >= mem.version[s]
    BY DEF vars
  <2>1. /\ mem \in Memories /\ disk \in Memories /\ clock \in Nat
        /\ mem.version[s] \in Nat /\ Lags(mem, disk, clock)
    BY DEF IInv, TypeOK, LagInv, Memories
  <2>2. ~PersistFail
    BY DEF PersistFail
  <2>3. CASE Crash
    <3>1. mem' = Restore(disk, clock)
      BY <2>3 DEF Crash
    <3> QED
      BY <2>1, <3>1, RestoreCatchesUp
  <2>4. CASE CleanRestart
    <3>1. mem' = Restore(mem, clock)
      BY <2>4 DEF CleanRestart, WriteAll
    <3> QED
      BY <2>1, <3>1, LagsSelf, RestoreCatchesUp
  <2>5. CASE ~Crash /\ ~CleanRestart
    <3>1. Republished(mem, mem', s)
      BY <2>2, <2>5, OrdinaryStep DEF Republishes
    <3>2. CASE mem'.version[s] > mem.version[s]
      <4>1. mem'.version[s] \in Nat
        BY StepIInv DEF IInv, TypeOK, Memories
      <4> QED
        BY <2>1, <3>2, <4>1
    <3> QED
      BY <2>1, <3>1, <3>2 DEF Republished
  <2> QED
    BY <2>3, <2>4, <2>5
<1>2. IInv /\ IInv' /\ LagInv /\ [Next]_vars => LagInv'
  BY LagNext
<1> QED
  BY <1>1, <1>2, LagInit, InvariantHolds, PTL DEF Spec, VersionMonotonicWhenIdle
==============================================================================
