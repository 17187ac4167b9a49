----------------------------- MODULE NativeProofs -----------------------------
(***************************************************************************)
(* Native reconciliation, for any number of probes, agents, instances and  *)
(* builds: a process has one owner, an ended assignment stays ended on its *)
(* instance and only there, an agent that has the current version runs     *)
(* what is desired, also over restarts of the broker, and events of live   *)
(* probes are not refused for those of a probe just removed.               *)
(***************************************************************************)
EXTENDS NativeReconcile, FiniteSetTheorems, WellFoundedInduction, TLAPS

-----------------------------------------------------------------------------
(* The types *)

(* No status is from the future. *)
Dated(native) == \A k \in Keys : native[k].updatedAt <= clock

TypeInv == NativeTypeOK /\ clock \in Nat \ {0} /\ Dated(mem.native) /\ Dated(disk.native)

LEMMA FiniteKeys == IsFiniteSet(Instances) /\ IsFiniteSet(Keys)
<1> DEFINE f == [ib \in InstanceId \X Build |-> [id |-> ib[1], build |-> ib[2]]]
<1>1. IsFiniteSet(InstanceId \X Build)
  BY FiniteInstances, FS_Product
<1>2. f \in Surjection(InstanceId \X Build, Instances)
  <2>1. f \in [InstanceId \X Build -> Instances]
    BY DEF Instances
  <2>2. ASSUME NEW i \in Instances PROVE \E ib \in InstanceId \X Build : f[ib] = i
    <3>1. <<i.id, i.build>> \in InstanceId \X Build /\ i = [id |-> i.id, build |-> i.build]
      BY DEF Instances
    <3>2. f[<<i.id, i.build>>] = [id |-> i.id, build |-> i.build]
      BY <3>1
    <3> QED
      BY <3>1, <3>2
  <2> HIDE DEF f
  <2> QED
    BY <2>1, <2>2 DEF Surjection
<1> HIDE DEF f
<1>3. IsFiniteSet(Instances)
  BY <1>1, <1>2, FS_Surjection
<1>4. IsFiniteSet(Agent \X Instances)
  BY <1>3, FiniteInstances, FS_Product
<1>5. IsFiniteSet((Probe \X Agent) \X Instances)
  BY <1>3, FiniteInstances, FS_Product
<1> DEFINE g == [pa \in (Probe \X Agent) \X Instances |-> <<pa[1][1], pa[1][2], pa[2]>>]
<1>6. g \in Surjection((Probe \X Agent) \X Instances, Keys)
  <2>1. g \in [(Probe \X Agent) \X Instances -> Keys]
    BY DEF Keys
  <2>2. ASSUME NEW k \in Keys PROVE \E pa \in (Probe \X Agent) \X Instances : g[pa] = k
    <3>1. <<<<k[1], k[2]>>, k[3]>> \in (Probe \X Agent) \X Instances /\ k = <<k[1], k[2], k[3]>>
      BY DEF Keys
    <3>2. g[<<<<k[1], k[2]>>, k[3]>>] = <<k[1], k[2], k[3]>>
      BY <3>1
    <3> QED
      BY <3>1, <3>2
  <2> HIDE DEF g
  <2> QED
    BY <2>1, <2>2 DEF Surjection
<1> HIDE DEF g
<1>7. IsFiniteSet(Keys)
  BY <1>5, <1>6, FS_Surjection
<1> QED
  BY <1>3, <1>7

(* A non-empty set of naturals has a least element. *)
LEMMA LeastNatural ==
    ASSUME NEW S, S \subseteq Nat, S # {}
    PROVE  \E x \in S : \A y \in S : x <= y
<1>1. PICK x \in S : \A y \in S : ~(<<y, x>> \in OpToRel(<, Nat))
  BY NatLessThanWellFounded, WFMin
<1>2. \A y \in S : ~(y < x)
  BY <1>1 DEF OpToRel
<1> QED
  BY <1>2

(* Instances of a service, and those of them that expired probes ran on. *)
Serving(m, a, s) == {i \in m.inst[a] : InstSvc[i.id] = s}
Hits(X, m, a) == {pi \in X \X m.inst[a] : InstSvc[pi[2].id] = SvcOf[pi[1]]}
Due(m) == {p \in m.probes \ m.expired : m.expiresAt[p] <= clock}

LEMMA RecordParts ==
    ASSUME NEW m \in Records
    PROVE  /\ m.probes \in SUBSET Probe /\ m.expired \in SUBSET Probe
           /\ m.expiresAt \in [Probe -> Nat] /\ m.agents \in SUBSET Agent
           /\ m.inst \in [Agent -> SUBSET Instances] /\ m.native \in [Keys -> Statuses]
           /\ m.logical \in [Probe -> Statuses] /\ m.version \in [Agent -> Nat]
BY DEF Records

LEMMA FiniteServing ==
    ASSUME NEW m \in Records, NEW a \in Agent, NEW s
    PROVE  /\ IsFiniteSet(Serving(m, a, s)) /\ Cardinality(Serving(m, a, s)) \in Nat
           /\ Cardinality(Serving(m, a, s)) = 0 => Serving(m, a, s) = {}
<1>1. Serving(m, a, s) \in SUBSET Instances
  BY RecordParts DEF Serving
<1>2. IsFiniteSet(Serving(m, a, s))
  BY <1>1, FiniteKeys, FS_Subset
<1> QED
  BY <1>2, FS_CardinalityType, FS_EmptySet

LEMMA FiniteHits ==
    ASSUME NEW m \in Records, NEW a \in Agent, NEW X \in SUBSET Probe
    PROVE  /\ IsFiniteSet(Hits(X, m, a)) /\ Cardinality(Hits(X, m, a)) \in Nat
           /\ Cardinality(Hits(X, m, a)) = 0 => Hits(X, m, a) = {}
<1>1. Hits(X, m, a) \in SUBSET (Probe \X Instances)
  BY RecordParts DEF Hits
<1>2. IsFiniteSet(Hits(X, m, a))
  BY <1>1, FiniteKeys, FiniteInstances, FS_Product, FS_Subset
<1> QED
  BY <1>2, FS_CardinalityType, FS_EmptySet

(* incrementServiceVersion never goes back, and moves every agent that     *)
(* runs an instance of the service.                                        *)
LEMMA Bumped ==
    ASSUME NEW m \in Records, NEW s
    PROVE  /\ BumpService(m, s) \in [Agent -> Nat]
           /\ \A a \in Agent : /\ BumpService(m, s)[a] >= m.version[a]
                               /\ BumpService(m, s)[a] = m.version[a] => Serving(m, a, s) = {}
<1>1. BumpService(m, s) = [a \in Agent |-> m.version[a] + Cardinality(Serving(m, a, s))]
  BY DEF BumpService, Serving
<1>2. ASSUME NEW a \in Agent
      PROVE  /\ m.version[a] \in Nat /\ Cardinality(Serving(m, a, s)) \in Nat
             /\ Cardinality(Serving(m, a, s)) = 0 => Serving(m, a, s) = {}
  BY RecordParts, FiniteServing
<1> HIDE DEF Serving
<1> QED
  BY <1>1, <1>2

(* What expireDueProbes leaves of the records. *)
LEMMA ExpiredParts ==
    ASSUME NEW m \in Records, clock \in Nat, NEW n, n = ExpireDueProbes(m)
    PROVE  /\ n \in Records
           /\ n.probes = m.probes /\ n.expired = m.expired \cup Due(m)
           /\ n.expiresAt = m.expiresAt /\ n.agents = m.agents /\ n.inst = m.inst
           /\ n.native = m.native
           /\ \A a \in Agent : n.version[a] = m.version[a] + Cardinality(Hits(Due(m), m, a))
<1> DEFINE X == m.expired \cup Due(m)
           L == [p \in Probe |-> IF p \in Due(m)
                                 THEN [name |-> "expired", updatedAt |-> clock,
                                       armedAt |-> m.logical[p].armedAt]
                                 ELSE m.logical[p]]
           V == [a \in Agent |-> m.version[a] + Cardinality(Hits(Due(m), m, a))]
<1>1. n = [m EXCEPT !.expired = X, !.logical = L, !.version = V]
  BY DEF ExpireDueProbes, Due, Hits
<1>2. Due(m) \in SUBSET Probe /\ X \in SUBSET Probe
  BY RecordParts DEF Due
<1>3. L \in [Probe -> Statuses]
  <2>1. ASSUME NEW p \in Probe
        PROVE  m.logical[p] \in Statuses /\ m.logical[p].armedAt \in Nat
    BY RecordParts DEF Statuses
  <2>2. ASSUME NEW t \in Nat
        PROVE  [name |-> "expired", updatedAt |-> clock, armedAt |-> t] \in Statuses
    BY DEF Statuses, StatusNames
  <2> QED
    BY <2>1, <2>2
<1>4. V \in [Agent -> Nat]
  BY <1>2, RecordParts, FiniteHits
<1> HIDE DEF X, L, V
<1>5. /\ n \in Records
      /\ n.probes = m.probes /\ n.expired = X /\ n.expiresAt = m.expiresAt /\ n.agents = m.agents
      /\ n.inst = m.inst /\ n.native = m.native /\ n.version = V
  BY <1>1, <1>2, <1>3, <1>4 DEF Records
<1> QED
  BY <1>5 DEF X, V

LEMMA NewerType ==
    ASSUME NEW new \in Statuses, NEW old \in Statuses
    PROVE  Newer(new, old) \in Statuses /\ Newer(new, old) \in {new, old}
BY DEF Newer

LEMMA NoStatusType == NoStatus \in Statuses /\ NoStatus.updatedAt = 0 /\ ~EndsAssignment(NoStatus.name)
BY DEF NoStatus, Statuses, EndsAssignment

(* The status an accepted report leaves: a latched one stays. *)
LEMMA RecordedParts ==
    ASSUME clock \in Nat \ {0}, NEW previous \in Statuses, previous.updatedAt <= clock,
           NEW report \in [kind : ReportKinds, ts : {clock, clock - 1} \ {0}]
    PROVE  /\ Recorded(previous, report) \in Statuses
           /\ Recorded(previous, report).updatedAt <= clock
           /\ EndsAssignment(previous.name) => EndsAssignment(Recorded(previous, report).name)
<1>1. report.kind \in {"data"} \cup StatusNames /\ report.ts \in Nat /\ report.ts <= clock
  BY StatusKindsType DEF ReportKinds
<1>2. CASE Ignored(previous, report)
  BY <1>2 DEF Recorded
<1>3. CASE ~Ignored(previous, report)
  <2>1. report.kind \in StatusNames
    BY <1>1, <1>3 DEF Ignored
  <2>2. Recorded(previous, report) = [name |-> report.kind, updatedAt |-> report.ts, armedAt |-> 0]
    BY <1>3 DEF Recorded
  <2>3. EndsAssignment(previous.name) => EndsAssignment(report.kind)
    BY <1>3 DEF Ignored
  <2> QED
    BY <1>1, <2>1, <2>2, <2>3 DEF Statuses
<1> QED
  BY <1>2, <1>3

(* The derived status is one of those it derives from, with a date. *)
LEMMA DerivedType ==
    ASSUME NEW m \in Records, clock \in Nat, NEW native \in [Keys -> Statuses], Dated(native),
           NEW p \in Probe
    PROVE  DeriveLogical(m, native, p) \in Statuses
<1> DEFINE live == {ai \in Agent \X Instances :
                       ai[2] \in m.inst[ai[1]] /\ InstSvc[ai[2].id] = SvcOf[p]}
           all == {native[<<p, ai[1], ai[2]>>] : ai \in live}
           defined == all \ {NoStatus}
           armed == {s \in defined : s.name = "armed"}
           take(S) == IF S = {} THEN m.logical[p]
                      ELSE [Latest(S) EXCEPT !.armedAt = DeriveArmedAt(m, armed, p)]
<1>1. \A s \in all : s \in Statuses /\ s.updatedAt \in Nat /\ s.updatedAt <= clock
  <2>1. \A ai \in live : <<p, ai[1], ai[2]>> \in Keys
    BY DEF Keys
  <2>2. \A k \in Keys : native[k] \in Statuses /\ native[k].updatedAt \in Nat
    BY DEF Statuses
  <2> HIDE DEF live
  <2> QED
    BY <2>1, <2>2 DEF Dated
<1> HIDE DEF live, all
<1>2. m.logical[p] \in Statuses /\ m.logical[p].armedAt \in Nat
  BY RecordParts DEF Statuses
<1>3. DeriveArmedAt(m, armed, p) \in Nat
  <2> DEFINE D == {s.updatedAt : s \in armed}
  <2>1. CASE m.logical[p].armedAt # 0 \/ armed = {}
    BY <1>2, <2>1 DEF DeriveArmedAt
  <2>2. CASE ~(m.logical[p].armedAt # 0 \/ armed = {})
    <3>1. D \subseteq Nat /\ D # {}
      BY <1>1, <2>2
    <3>2. Min(D) \in D
      <4> HIDE DEF D
      <4>1. \E x \in D : \A y \in D : x <= y
        BY <3>1, LeastNatural
      <4> QED
        BY <4>1 DEF Min
    <3>3. DeriveArmedAt(m, armed, p) = Min(D)
      BY <2>2 DEF DeriveArmedAt
    <3> QED
      BY <3>1, <3>2, <3>3
  <2> QED
    BY <2>1, <2>2
<1>4. ASSUME NEW S, S \subseteq all, S # {} PROVE Latest(S) \in Statuses
  <2> DEFINE D == {clock - s.updatedAt : s \in S}
  <2>1. D \subseteq Nat /\ D # {}
    BY <1>1, <1>4
  <2>2. PICK d \in D : \A e \in D : d <= e
    BY <2>1, LeastNatural
  <2>3. PICK s \in S : d = clock - s.updatedAt
    BY <2>2
  <2>4. \A t \in S : t.updatedAt <= s.updatedAt
    <3>1. \A t \in S : clock - s.updatedAt <= clock - t.updatedAt
      BY <2>2, <2>3
    <3> QED
      BY <1>1, <1>4, <2>3, <3>1
  <2>5. Latest(S) \in S
    BY <2>3, <2>4 DEF Latest
  <2> QED
    BY <1>1, <1>4, <2>5
<1>5. ASSUME NEW S, S \subseteq all PROVE take(S) \in Statuses
  <2>1. CASE S = {}
    BY <1>2, <2>1
  <2>2. CASE S # {}
    <3>1. ASSUME NEW s \in Statuses, NEW t \in Nat PROVE [s EXCEPT !.armedAt = t] \in Statuses
      BY DEF Statuses
    <3>2. take(S) = [Latest(S) EXCEPT !.armedAt = DeriveArmedAt(m, armed, p)]
      BY <2>2
    <3> QED
      BY <1>3, <1>4, <1>5, <2>2, <3>1, <3>2
  <2> QED
    BY <2>1, <2>2
<1>6. DeriveLogical(m, native, p) \in {m.logical[p], take(armed), take(defined)}
  BY DEF DeriveLogical, live, all
<1>7. take(armed) \in Statuses /\ take(defined) \in Statuses
  BY <1>5
<1> QED
  BY <1>2, <1>6, <1>7

-----------------------------------------------------------------------------
(* What is stored *)

(* The base of the other invariants: a process has one owner, in the       *)
(* store as well.                                                          *)
BaseInv == TypeInv /\ disk.inst = mem.inst /\ OneOwner

(* A store that holds D after the records m were persisted. *)
Stored(m, D) ==
    /\ D \in Records /\ D.inst = m.inst /\ Dated(D.native)
    /\ Store = "json" => D = Snapshot(m)

LEMMA SnapshotParts ==
    ASSUME NEW m \in Records
    PROVE  /\ Snapshot(m) \in Records
           /\ Snapshot(m).probes = m.probes /\ Snapshot(m).expired = m.expired
           /\ Snapshot(m).expiresAt = m.expiresAt /\ Snapshot(m).agents = m.agents
           /\ Snapshot(m).inst = m.inst /\ Snapshot(m).version = m.version
           /\ \A k \in Keys : Snapshot(m).native[k] =
                 IF k[1] \in m.probes THEN m.native[k] ELSE NoStatus
<1> DEFINE N == [k \in Keys |-> IF k[1] \in m.probes THEN m.native[k] ELSE NoStatus]
<1>1. Snapshot(m) = [m EXCEPT !.native = N]
  BY DEF Snapshot
<1>2. N \in [Keys -> Statuses]
  BY RecordParts, NoStatusType
<1>3. \A k \in Keys : N[k] = IF k[1] \in m.probes THEN m.native[k] ELSE NoStatus
  OBVIOUS
<1> HIDE DEF N
<1>4. /\ [m EXCEPT !.native = N] \in Records
      /\ [m EXCEPT !.native = N].probes = m.probes /\ [m EXCEPT !.native = N].expired = m.expired
      /\ [m EXCEPT !.native = N].expiresAt = m.expiresAt
      /\ [m EXCEPT !.native = N].agents = m.agents /\ [m EXCEPT !.native = N].inst = m.inst
      /\ [m EXCEPT !.native = N].version = m.version /\ [m EXCEPT !.native = N].native = N
  BY <1>2 DEF Records
<1> QED
  BY <1>1, <1>3, <1>4

LEMMA JsonStored ==
    ASSUME NEW m \in Records, Dated(m.native), clock \in Nat
    PROVE  Stored(m, Snapshot(m))
<1>1. Dated(Snapshot(m).native)
  BY SnapshotParts, NoStatusType DEF Dated
<1> QED
  BY <1>1, SnapshotParts DEF Stored

(* The rows that take part in a merge. *)
LEMMA MergedParts ==
    ASSUME BaseInv, NEW m \in Records, Dated(m.native), disk.inst = m.inst
    PROVE  /\ InsertNativeState(m) \in Records
           /\ InsertNativeState(m).inst = m.inst
           /\ Dated(InsertNativeState(m).native)
<1> DEFINE A == disk.agents \cup m.agents
           I == [a \in Agent |-> m.inst[a] \cup
                   {i \in disk.inst[a] : \A j \in m.inst[a] : j.id # i.id}]
           N == [k \in Keys |-> IF k[1] \in m.probes THEN Newer(m.native[k], disk.native[k])
                                ELSE disk.native[k]]
           V == [a \in Agent |-> Greatest(m.version[a], disk.version[a])]
<1>0. disk \in Records /\ Dated(disk.native)
  BY DEF BaseInv, TypeInv, NativeTypeOK
<1>1. InsertNativeState(m) = [disk EXCEPT !.agents = A, !.inst = I, !.native = N, !.version = V]
  BY DEF InsertNativeState
<1>2. A \in SUBSET Agent
  BY <1>0, RecordParts
<1>3. I = m.inst
  <2>1. m.inst \in [Agent -> SUBSET Instances]
    BY RecordParts
  <2>2. \A a \in Agent : I[a] = m.inst[a]
    OBVIOUS
  <2>3. I \in [Agent -> SUBSET Instances]
    BY <2>1
  <2> QED
    BY <2>1, <2>2, <2>3
<1>4. \A k \in Keys : m.native[k] \in Statuses /\ disk.native[k] \in Statuses
  BY <1>0, RecordParts
<1>5. N \in [Keys -> Statuses] /\ Dated(N)
  <2>1. ASSUME NEW k \in Keys PROVE N[k] \in Statuses /\ N[k].updatedAt <= clock
    BY <1>0, <1>4, NewerType DEF Dated
  <2> QED
    BY <2>1 DEF Dated
<1>6. V \in [Agent -> Nat]
  BY <1>0, RecordParts DEF Greatest
<1>7. I \in [Agent -> SUBSET Instances]
  BY <1>3, RecordParts
<1> HIDE DEF A, I, N, V
<1> QED
  BY <1>0, <1>1, <1>2, <1>3, <1>5, <1>6, <1>7 DEF Records

LEMMA PersistedProbe ==
    ASSUME BaseInv, NEW m \in Records, Dated(m.native), disk.inst = m.inst, NEW p \in Probe
    PROVE  Stored(m, PersistProbe(m, p)) /\ Stored(m, PersistDelete(m, p))
<1>0. disk \in Records /\ clock \in Nat
  BY DEF BaseInv, TypeInv, NativeTypeOK
<1>1. CASE Store = "json"
  BY <1>0, <1>1, JsonStored DEF PersistProbe, PersistDelete
<1>2. CASE Store # "json"
  <2> DEFINE M == InsertNativeState(m)
  <2>1. M \in Records /\ M.inst = m.inst /\ Dated(M.native)
    BY MergedParts
  <2>2. Stored(m, PersistProbe(m, p))
    <3> DEFINE P == disk.probes \cup {p}
               E == [disk.expiresAt EXCEPT ![p] = m.expiresAt[p]]
    <3>1. PersistProbe(m, p) = [M EXCEPT !.probes = P, !.expiresAt = E]
      BY <1>2 DEF PersistProbe
    <3>2. P \in SUBSET Probe /\ E \in [Probe -> Nat]
      BY <1>0, RecordParts
    <3> HIDE DEF M, P, E
    <3>3. /\ [M EXCEPT !.probes = P, !.expiresAt = E] \in Records
          /\ [M EXCEPT !.probes = P, !.expiresAt = E].inst = M.inst
          /\ [M EXCEPT !.probes = P, !.expiresAt = E].native = M.native
      BY <2>1, <3>2 DEF Records
    <3> QED
      BY <1>2, <2>1, <3>1, <3>3 DEF Stored
  <2>3. Stored(m, PersistDelete(m, p))
    <3> DEFINE P == disk.probes \ {p}
               X == disk.expired \ {p}
               E == [disk.expiresAt EXCEPT ![p] = 0]
               L == [disk.logical EXCEPT ![p] = NoStatus]
    <3>1. PersistDelete(m, p) = [M EXCEPT !.probes = P, !.expired = X, !.expiresAt = E, !.logical = L]
      BY <1>2 DEF PersistDelete
    <3>2. P \in SUBSET Probe /\ X \in SUBSET Probe /\ E \in [Probe -> Nat]
          /\ L \in [Probe -> Statuses]
      BY <1>0, RecordParts, NoStatusType
    <3> HIDE DEF M, P, X, E, L
    <3>3. /\ [M EXCEPT !.probes = P, !.expired = X, !.expiresAt = E, !.logical = L] \in Records
          /\ [M EXCEPT !.probes = P, !.expired = X, !.expiresAt = E, !.logical = L].inst = M.inst
          /\ [M EXCEPT !.probes = P, !.expired = X, !.expiresAt = E, !.logical = L].native = M.native
      BY <2>1, <3>2 DEF Records
    <3> QED
      BY <1>2, <2>1, <3>1, <3>3 DEF Stored
  <2> QED
    BY <2>2, <2>3
<1> QED
  BY <1>1, <1>2

LEMMA PersistedAll ==
    ASSUME BaseInv, NEW m \in Records, Dated(m.native), disk.inst = m.inst
    PROVE  Stored(m, PersistAll(m))
<1>0. disk \in Records /\ clock \in Nat
  BY DEF BaseInv, TypeInv, NativeTypeOK
<1>1. CASE Store = "json"
  BY <1>0, <1>1, JsonStored DEF PersistAll
<1>2. CASE Store # "json"
  <2> DEFINE M == InsertNativeState(m)
  <2>0. M \in Records /\ M.inst = m.inst /\ Dated(M.native)
    BY MergedParts
  <2> DEFINE P == disk.probes \cup m.probes
             X == disk.expired \cup m.expired
             L == [q \in Probe |-> IF q \in m.probes THEN Newer(m.logical[q], disk.logical[q])
                                   ELSE disk.logical[q]]
  <2>1. PersistAll(m) = [M EXCEPT !.probes = P, !.expired = X, !.logical = L]
    BY <1>2 DEF PersistAll
  <2>2. P \in SUBSET Probe /\ X \in SUBSET Probe
    BY <1>0, RecordParts
  <2>3. L \in [Probe -> Statuses]
    <3>1. \A q \in Probe : m.logical[q] \in Statuses /\ disk.logical[q] \in Statuses
      BY <1>0, RecordParts
    <3> QED
      BY <3>1, NewerType
  <2> HIDE DEF M, P, X, L
  <2>4. /\ [M EXCEPT !.probes = P, !.expired = X, !.logical = L] \in Records
        /\ [M EXCEPT !.probes = P, !.expired = X, !.logical = L].inst = M.inst
        /\ [M EXCEPT !.probes = P, !.expired = X, !.logical = L].native = M.native
    BY <2>0, <2>2, <2>3 DEF Records
  <2> QED
    BY <1>2, <2>0, <2>1, <2>4 DEF Stored
<1> QED
  BY <1>1, <1>2

(* The persists of what one agent reports. *)
LEMMA PersistedAgent ==
    ASSUME BaseInv, NEW m \in Records, Dated(m.native), NEW a \in Agent
    PROVE  /\ disk.inst = m.inst => Stored(m, PersistNativeAgent(m, a))
           /\ (\A b \in Agent \ {a} : disk.inst[b] = m.inst[b])
                 => Stored(m, PersistNativeInstances(m, a))
           /\ \A i, ps : disk.inst = m.inst => Stored(m, PersistNativeIngest(m, a, i, ps))
<1>0. disk \in Records /\ Dated(disk.native) /\ clock \in Nat
  BY DEF BaseInv, TypeInv, NativeTypeOK
<1>1. CASE Store = "json"
  BY <1>0, <1>1, JsonStored DEF PersistNativeAgent, PersistNativeInstances, PersistNativeIngest
<1>2. CASE Store # "json"
  <2> DEFINE V == [disk.version EXCEPT ![a] = Greatest(m.version[a], @)]
  <2>1. V \in [Agent -> Nat]
    BY <1>0, RecordParts DEF Greatest
  <2>2. ASSUME disk.inst = m.inst PROVE Stored(m, PersistNativeAgent(m, a))
    <3> DEFINE A == disk.agents \cup {a}
    <3>1. PersistNativeAgent(m, a) = [disk EXCEPT !.agents = A, !.version = V]
      BY <1>2 DEF PersistNativeAgent
    <3>2. A \in SUBSET Agent
      BY <1>0, RecordParts
    <3> HIDE DEF A, V
    <3>3. /\ [disk EXCEPT !.agents = A, !.version = V] \in Records
          /\ [disk EXCEPT !.agents = A, !.version = V].inst = disk.inst
          /\ [disk EXCEPT !.agents = A, !.version = V].native = disk.native
      BY <1>0, <2>1, <3>2 DEF Records
    <3> QED
      BY <1>0, <1>2, <2>2, <3>1, <3>3 DEF Stored
  <2>3. ASSUME \A b \in Agent \ {a} : disk.inst[b] = m.inst[b]
        PROVE  Stored(m, PersistNativeInstances(m, a))
    <3> DEFINE I == [disk.inst EXCEPT ![a] = m.inst[a]]
               N == [k \in Keys |-> IF k[2] = a /\ k[3] \notin m.inst[a]
                                    THEN NoStatus ELSE disk.native[k]]
    <3>1. PersistNativeInstances(m, a) = [disk EXCEPT !.inst = I, !.native = N, !.version = V]
      BY <1>2 DEF PersistNativeInstances
    <3>2. I \in [Agent -> SUBSET Instances] /\ I = m.inst
      <4>1. disk.inst \in [Agent -> SUBSET Instances] /\ m.inst \in [Agent -> SUBSET Instances]
        BY <1>0, RecordParts
      <4> QED
        BY <2>3, <4>1
    <3>3. N \in [Keys -> Statuses] /\ Dated(N)
      <4>1. ASSUME NEW k \in Keys PROVE N[k] \in Statuses /\ N[k].updatedAt <= clock
        BY <1>0, RecordParts, NoStatusType DEF Dated
      <4> QED
        BY <4>1 DEF Dated
    <3> HIDE DEF I, N, V
    <3>4. /\ [disk EXCEPT !.inst = I, !.native = N, !.version = V] \in Records
          /\ [disk EXCEPT !.inst = I, !.native = N, !.version = V].inst = I
          /\ [disk EXCEPT !.inst = I, !.native = N, !.version = V].native = N
      BY <1>0, <2>1, <3>2, <3>3 DEF Records
    <3> QED
      BY <1>2, <3>1, <3>2, <3>3, <3>4 DEF Stored
  <2>4. ASSUME disk.inst = m.inst, NEW i, NEW ps
        PROVE  Stored(m, PersistNativeIngest(m, a, i, ps))
    <3> DEFINE N == [k \in Keys |-> IF k[1] \in ps \cap m.probes /\ k[2] = a /\ k[3] = i
                                    THEN Newer(m.native[k], disk.native[k])
                                    ELSE disk.native[k]]
               L == [p \in Probe |-> IF p \in ps \cap m.probes
                                     THEN Newer(m.logical[p], disk.logical[p])
                                     ELSE disk.logical[p]]
    <3>1. PersistNativeIngest(m, a, i, ps) = [disk EXCEPT !.native = N, !.logical = L, !.version = V]
      BY <1>2 DEF PersistNativeIngest
    <3>2. N \in [Keys -> Statuses] /\ Dated(N)
      <4>1. \A k \in Keys : m.native[k] \in Statuses /\ disk.native[k] \in Statuses
        BY <1>0, RecordParts
      <4>2. ASSUME NEW k \in Keys PROVE N[k] \in Statuses /\ N[k].updatedAt <= clock
        BY <1>0, <4>1, NewerType DEF Dated
      <4> QED
        BY <4>2 DEF Dated
    <3>3. L \in [Probe -> Statuses]
      <4>1. \A q \in Probe : m.logical[q] \in Statuses /\ disk.logical[q] \in Statuses
        BY <1>0, RecordParts
      <4> QED
        BY <4>1, NewerType
    <3> HIDE DEF N, L, V
    <3>4. /\ [disk EXCEPT !.native = N, !.logical = L, !.version = V] \in Records
          /\ [disk EXCEPT !.native = N, !.logical = L, !.version = V].inst = disk.inst
          /\ [disk EXCEPT !.native = N, !.logical = L, !.version = V].native = N
      BY <1>0, <2>1, <3>2, <3>3 DEF Records
    <3> QED
      BY <1>2, <2>4, <3>1, <3>2, <3>4 DEF Stored
  <2> QED
    BY <2>2, <2>3, <2>4
<1> QED
  BY <1>1, <1>2

-----------------------------------------------------------------------------
(* What the steps do to the records *)

LEMMA BaseParts ==
    ASSUME BaseInv
    PROVE  /\ clock \in Nat /\ clock # 0 /\ mem \in Records /\ disk \in Records
           /\ Dated(mem.native) /\ Dated(disk.native) /\ disk.inst = mem.inst
           /\ removed \in [Probe -> Nat] /\ deletedAt \in [Probe -> Nat]
           /\ held \in [Agent -> SUBSET Probe] /\ minted \subseteq Probe /\ ended \subseteq Keys
           /\ lost \subseteq Probe /\ batches \in Nat
           /\ view \in [Agent -> [since : Nat, desired : SUBSET (Instances \X Probe)]]
BY DEF BaseInv, TypeInv, NativeTypeOK

LEMMA CreateEffect ==
    ASSUME BaseInv, NEW p \in Probe, Create(p)
    PROVE  /\ mem' \in Records /\ Stored(mem', disk')
           /\ mem'.probes = mem.probes \cup {p} /\ mem'.expired = mem.expired
           /\ mem'.inst = mem.inst /\ mem'.native = mem.native
           /\ mem'.version = BumpService(mem, SvcOf[p])
<1> DEFINE P == mem.probes \cup {p}
           E == [mem.expiresAt EXCEPT ![p] = clock + Ttl[p]]
           V == BumpService(mem, SvcOf[p])
<1>1. mem' = [mem EXCEPT !.probes = P, !.expiresAt = E, !.version = V]
      /\ disk' = PersistProbe(mem', p)
  BY DEF Create
<1>2. P \in SUBSET Probe /\ E \in [Probe -> Nat] /\ V \in [Agent -> Nat]
  BY BaseParts, RecordParts, Bumped, TtlType
<1> HIDE DEF E
<1>3. mem \in Records
  BY BaseParts
<1> HIDE DEF P, V
<1>4. /\ mem' \in Records /\ mem'.probes = P /\ mem'.expired = mem.expired
      /\ mem'.inst = mem.inst /\ mem'.native = mem.native /\ mem'.version = V
  BY <1>1, <1>2, <1>3 DEF Records
<1>5. Stored(mem', disk')
  BY <1>1, <1>4, BaseParts, PersistedProbe
<1> QED
  BY <1>4, <1>5 DEF P, V

LEMMA DeleteEffect ==
    ASSUME BaseInv, NEW p \in Probe, Delete(p)
    PROVE  /\ mem' \in Records /\ Stored(mem', disk')
           /\ mem'.probes = mem.probes \ {p} /\ mem'.expired = mem.expired \ {p}
           /\ mem'.inst = mem.inst /\ mem'.native = mem.native
           /\ mem'.version = IF p \in mem.expired THEN mem.version ELSE BumpService(mem, SvcOf[p])
<1> DEFINE P == mem.probes \ {p}
           X == mem.expired \ {p}
           E == [mem.expiresAt EXCEPT ![p] = 0]
           L == [mem.logical EXCEPT ![p] = NoStatus]
           V == IF p \in mem.expired THEN mem.version ELSE BumpService(mem, SvcOf[p])
<1>1. mem' = [mem EXCEPT !.probes = P, !.expired = X, !.expiresAt = E, !.logical = L, !.version = V]
      /\ disk' = PersistDelete(mem', p)
  BY DEF Delete
<1>2. P \in SUBSET Probe /\ X \in SUBSET Probe /\ E \in [Probe -> Nat]
      /\ L \in [Probe -> Statuses] /\ V \in [Agent -> Nat]
  BY BaseParts, RecordParts, Bumped, NoStatusType
<1>3. mem \in Records
  BY BaseParts
<1> HIDE DEF P, X, E, L, V
<1>4. /\ mem' \in Records /\ mem'.probes = P /\ mem'.expired = X
      /\ mem'.inst = mem.inst /\ mem'.native = mem.native /\ mem'.version = V
  BY <1>1, <1>2, <1>3 DEF Records
<1>5. Stored(mem', disk')
  BY <1>1, <1>4, BaseParts, PersistedProbe
<1> QED
  BY <1>4, <1>5 DEF P, X, V

LEMMA RegisterEffect ==
    ASSUME BaseInv, NEW a \in Agent, Register(a)
    PROVE  /\ mem' \in Records /\ Stored(mem', disk')
           /\ mem'.probes = mem.probes /\ mem'.expired = mem.expired
           /\ mem'.inst = mem.inst /\ mem'.native = mem.native /\ mem'.version = mem.version
<1> DEFINE A == mem.agents \cup {a}
<1>1. mem' = [mem EXCEPT !.agents = A] /\ disk' = PersistNativeAgent(mem', a)
  BY DEF Register
<1>2. A \in SUBSET Agent /\ mem \in Records
  BY BaseParts, RecordParts
<1> HIDE DEF A
<1>3. /\ mem' \in Records /\ mem'.probes = mem.probes /\ mem'.expired = mem.expired
      /\ mem'.inst = mem.inst /\ mem'.native = mem.native /\ mem'.version = mem.version
  BY <1>1, <1>2 DEF Records
<1>4. Stored(mem', disk')
  BY <1>1, <1>3, BaseParts, PersistedAgent
<1> QED
  BY <1>3, <1>4

LEMMA ReplaceEffect ==
    ASSUME BaseInv, NEW a \in Agent, NEW S \in InstanceSets, ReplaceInstances(a, S)
    PROVE  /\ mem' \in Records /\ Stored(mem', disk')
           /\ mem'.probes = mem.probes /\ mem'.expired = mem.expired
           /\ mem'.inst[a] = S /\ \A b \in Agent \ {a} : mem'.inst[b] = mem.inst[b]
           /\ mem'.native = mem.native
           /\ S = mem.inst[a] => mem'.version = mem.version
           /\ S # mem.inst[a] => mem'.version[a] = mem.version[a] + 1
           /\ \A b \in Agent \ {a} : mem'.version[b] = mem.version[b]
<1> DEFINE I == [mem.inst EXCEPT ![a] = S]
           V == IF S = mem.inst[a] THEN mem.version ELSE [mem.version EXCEPT ![a] = @ + 1]
<1>1. mem' = [mem EXCEPT !.inst = I, !.version = V] /\ disk' = PersistNativeInstances(mem', a)
  BY DEF ReplaceInstances, TakeInstances
<1>2. /\ mem \in Records /\ S \in SUBSET Instances
      /\ mem.inst \in [Agent -> SUBSET Instances] /\ mem.version \in [Agent -> Nat]
  BY BaseParts, RecordParts DEF InstanceSets
<1>3. /\ I \in [Agent -> SUBSET Instances] /\ I[a] = S /\ \A b \in Agent \ {a} : I[b] = mem.inst[b]
  BY <1>2
<1>4. /\ V \in [Agent -> Nat] /\ (S = mem.inst[a] => V = mem.version)
      /\ (S # mem.inst[a] => V[a] = mem.version[a] + 1)
      /\ \A b \in Agent \ {a} : V[b] = mem.version[b]
  BY <1>2
<1> HIDE DEF I, V
<1>5. /\ mem' \in Records /\ mem'.probes = mem.probes /\ mem'.expired = mem.expired
      /\ mem'.inst = I /\ mem'.native = mem.native /\ mem'.version = V
  BY <1>1, <1>2, <1>3, <1>4 DEF Records
<1>6. \A b \in Agent \ {a} : disk.inst[b] = mem'.inst[b]
  BY <1>3, <1>5, BaseParts
<1>7. Stored(mem', disk')
  BY <1>1, <1>5, <1>6, BaseParts, PersistedAgent
<1> QED
  BY <1>3, <1>4, <1>5, <1>7

(* An accepted batch. *)
NativeAfter(a, i, batch) ==
    [k \in Keys |-> IF k[1] \in Known(batch) /\ k[2] = a /\ k[3] = i
                    THEN Recorded(mem.native[k], batch[k[1]]) ELSE mem.native[k]]
NewlyEnded(a, i, batch) ==
    {k \in Keys : EndsAssignment(NativeAfter(a, i, batch)[k].name)
                  /\ ~EndsAssignment(mem.native[k].name)}
LogicalAfter(a, i, batch) ==
    [p \in Probe |-> IF p \in Known(batch) /\ ~Ignored(mem.native[<<p, a, i>>], batch[p])
                     THEN DeriveLogical(mem, NativeAfter(a, i, batch), p) ELSE mem.logical[p]]
VersionAfter(a, i, batch) ==
    [mem.version EXCEPT ![a] = @ + Cardinality(NewlyEnded(a, i, batch))]
Unknown(batch) ==
    (DOMAIN batch \ mem.probes) \ {p \in DOMAIN batch \ mem.probes : Pruned[p] # 0}

LEMMA IngestCases ==
    ASSUME NEW a, NEW i, NEW batch, IngestNative(a, i, batch)
    PROVE  /\ removed' = Pruned /\ UNCHANGED <<clock, view, held, minted, deletedAt>>
           /\ batches' = batches + 1 /\ i \in mem.inst[a]
           /\ \/ /\ Unknown(batch) = {}
                 /\ mem' = [mem EXCEPT
                      !.native = NativeAfter(a, i, batch),
                      !.logical = LogicalAfter(a, i, batch),
                      !.version = VersionAfter(a, i, batch)]
                 /\ disk' = PersistNativeIngest(mem', a, i, DOMAIN batch)
                 /\ ended' = ended \cup NewlyEnded(a, i, batch)
                 /\ lost' = lost
              \/ /\ Unknown(batch) # {}
                 /\ lost' = IF \A p \in Unknown(batch) :
                                  deletedAt[p] # 0 /\ deletedAt[p] + Grace > clock
                            THEN lost \cup Known(batch) ELSE lost
                 /\ UNCHANGED <<mem, disk, ended>>
BY DEF IngestNative, NativeAfter, NewlyEnded, LogicalAfter, VersionAfter, Unknown

LEMMA NativeAfterParts ==
    ASSUME BaseInv, NEW a \in Agent, NEW i \in Instances, NEW batch \in Batches
    PROVE  /\ NativeAfter(a, i, batch) \in [Keys -> Statuses]
           /\ Dated(NativeAfter(a, i, batch))
           /\ \A k \in Keys : EndsAssignment(mem.native[k].name)
                                 => EndsAssignment(NativeAfter(a, i, batch)[k].name)
           /\ \A k \in Keys : k[2] # a \/ k[1] \notin mem.probes
                                 => NativeAfter(a, i, batch)[k] = mem.native[k]
           /\ IsFiniteSet(NewlyEnded(a, i, batch))
           /\ NewlyEnded(a, i, batch) \subseteq Keys
           /\ Cardinality(NewlyEnded(a, i, batch)) \in Nat
           /\ Cardinality(NewlyEnded(a, i, batch)) = 0 => NewlyEnded(a, i, batch) = {}
<1>1. ASSUME NEW p \in DOMAIN batch
      PROVE  batch[p] \in [kind : ReportKinds, ts : {clock, clock - 1} \ {0}]
  BY DEF Batches
<1>2. \A k \in Keys : mem.native[k] \in Statuses /\ mem.native[k].updatedAt <= clock
  BY BaseParts, RecordParts DEF Dated
<1>3. clock \in Nat \ {0}
  BY BaseParts
<1>4. ASSUME NEW k \in Keys
      PROVE  /\ NativeAfter(a, i, batch)[k] \in Statuses
             /\ NativeAfter(a, i, batch)[k].updatedAt <= clock
             /\ EndsAssignment(mem.native[k].name)
                   => EndsAssignment(NativeAfter(a, i, batch)[k].name)
             /\ k[2] # a \/ k[1] \notin mem.probes
                   => NativeAfter(a, i, batch)[k] = mem.native[k]
  <2>1. CASE k[1] \in Known(batch) /\ k[2] = a /\ k[3] = i
    <3>1. NativeAfter(a, i, batch)[k] = Recorded(mem.native[k], batch[k[1]])
      BY <2>1 DEF NativeAfter
    <3>2. k[1] \in DOMAIN batch /\ k[1] \in mem.probes
      BY <2>1 DEF Known
    <3> QED
      BY <1>1, <1>2, <1>3, <2>1, <3>1, <3>2, RecordedParts, SMTT(60)
  <2>2. CASE ~(k[1] \in Known(batch) /\ k[2] = a /\ k[3] = i)
    <3>1. NativeAfter(a, i, batch)[k] = mem.native[k]
      BY <2>2 DEF NativeAfter
    <3> QED
      BY <1>2, <3>1
  <2> QED
    BY <2>1, <2>2
<1>5. NativeAfter(a, i, batch) \in [Keys -> Statuses]
  <2>1. NativeAfter(a, i, batch) = [k \in Keys |-> NativeAfter(a, i, batch)[k]]
    BY DEF NativeAfter
  <2> QED
    BY <1>4, <2>1
<1>6. NewlyEnded(a, i, batch) \in SUBSET Keys
  BY DEF NewlyEnded
<1>7. IsFiniteSet(NewlyEnded(a, i, batch))
  BY <1>6, FiniteKeys, FS_Subset
<1>8. /\ Cardinality(NewlyEnded(a, i, batch)) \in Nat
      /\ Cardinality(NewlyEnded(a, i, batch)) = 0 => NewlyEnded(a, i, batch) = {}
  BY <1>7, FS_CardinalityType, FS_EmptySet
<1> QED
  BY <1>4, <1>5, <1>6, <1>7, <1>8 DEF Dated

LEMMA IngestEffect ==
    ASSUME BaseInv, NEW a \in Agent, NEW i \in Instances, NEW batch \in Batches,
           IngestNative(a, i, batch)
    PROVE  \/ UNCHANGED <<mem, disk, ended>>
           \/ /\ mem' \in Records /\ Stored(mem', disk')
              /\ mem'.probes = mem.probes /\ mem'.expired = mem.expired
              /\ mem'.inst = mem.inst /\ mem'.native = NativeAfter(a, i, batch)
              /\ mem'.version[a] = mem.version[a] + Cardinality(NewlyEnded(a, i, batch))
              /\ \A b \in Agent \ {a} : mem'.version[b] = mem.version[b]
              /\ ended' = ended \cup NewlyEnded(a, i, batch)
<1> DEFINE N == NativeAfter(a, i, batch)
           L == LogicalAfter(a, i, batch)
           V == VersionAfter(a, i, batch)
<1>0. \/ UNCHANGED <<mem, disk, ended>>
      \/ /\ mem' = [mem EXCEPT !.native = N, !.logical = L, !.version = V]
         /\ disk' = PersistNativeIngest(mem', a, i, DOMAIN batch)
         /\ ended' = ended \cup NewlyEnded(a, i, batch)
  <2>1. CASE Unknown(batch) = {}
    BY <2>1, IngestCases
  <2>2. CASE Unknown(batch) # {}
    BY <2>2, IngestCases
  <2> QED
    BY <2>1, <2>2
<1>1. SUFFICES ASSUME mem' = [mem EXCEPT !.native = N, !.logical = L, !.version = V],
                      disk' = PersistNativeIngest(mem', a, i, DOMAIN batch),
                      ended' = ended \cup NewlyEnded(a, i, batch)
               PROVE  /\ mem' \in Records /\ Stored(mem', disk')
                      /\ mem'.probes = mem.probes /\ mem'.expired = mem.expired
                      /\ mem'.inst = mem.inst /\ mem'.native = NativeAfter(a, i, batch)
                      /\ mem'.version[a] = mem.version[a] + Cardinality(NewlyEnded(a, i, batch))
                      /\ \A b \in Agent \ {a} : mem'.version[b] = mem.version[b]
                      /\ ended' = ended \cup NewlyEnded(a, i, batch)
  BY <1>0, Zenon
<1>2. N \in [Keys -> Statuses] /\ Dated(N) /\ mem \in Records
  BY NativeAfterParts, BaseParts
<1>3. L \in [Probe -> Statuses]
  <2>1. \A p \in Probe : DeriveLogical(mem, N, p) \in Statuses /\ mem.logical[p] \in Statuses
    BY <1>2, BaseParts, RecordParts, DerivedType
  <2> HIDE DEF N
  <2> QED
    BY <2>1 DEF LogicalAfter, N
<1>4. /\ V \in [Agent -> Nat]
      /\ V[a] = mem.version[a] + Cardinality(NewlyEnded(a, i, batch))
      /\ \A b \in Agent \ {a} : V[b] = mem.version[b]
  BY <1>2, RecordParts, NativeAfterParts DEF VersionAfter
<1> HIDE DEF N, L, V
<1>5. /\ mem' \in Records /\ mem'.probes = mem.probes /\ mem'.expired = mem.expired
      /\ mem'.inst = mem.inst /\ mem'.native = N /\ mem'.version = V
  BY <1>1, <1>2, <1>3, <1>4 DEF Records
<1>6. disk.inst = mem'.inst /\ Dated(mem'.native)
  BY <1>2, <1>5, BaseParts
<1>7. Stored(mem', disk')
  BY <1>1, <1>5, <1>6, PersistedAgent
<1> QED
  BY <1>1, <1>4, <1>5, <1>7 DEF N

(* The variables beside the records and the clock. *)
OthersTyped ==
    /\ removed \in [Probe -> Nat] /\ deletedAt \in [Probe -> Nat]
    /\ held \in [Agent -> SUBSET Probe] /\ minted \subseteq Probe /\ ended \subseteq Keys
    /\ lost \subseteq Probe /\ batches \in Nat
    /\ view \in [Agent -> [since : Nat, desired : SUBSET (Instances \X Probe)]]

LEMMA DesiredType ==
    ASSUME NEW m \in Records, NEW a \in Agent
    PROVE  Desired(m, a) \in SUBSET (Instances \X Probe)
<1>1. m.inst[a] \in SUBSET Instances /\ m.probes \in SUBSET Probe
  BY RecordParts
<1> QED
  BY <1>1 DEF Desired

LEMMA ExpireEffect ==
    ASSUME BaseInv, Expire
    PROVE  /\ mem' = ExpireDueProbes(mem) /\ mem' \in Records /\ mem'.inst = mem.inst
           /\ mem'.native = mem.native /\ mem'.probes = mem.probes
           /\ disk' = disk \/ Stored(mem', disk')
<1>1. mem' = ExpireDueProbes(mem) /\ disk' \in {disk, PersistAll(mem')}
  BY DEF Expire
<1>2. /\ mem' \in Records /\ mem'.inst = mem.inst /\ mem'.native = mem.native
      /\ mem'.probes = mem.probes
  BY <1>1, BaseParts, ExpiredParts
<1>3. Stored(mem', PersistAll(mem'))
  BY <1>2, BaseParts, PersistedAll
<1> QED
  BY <1>1, <1>2, <1>3

LEMMA AssignmentsEffect ==
    ASSUME BaseInv, NEW a \in Agent, Assignments(a)
    PROVE  /\ mem' = ExpireDueProbes(mem) /\ mem' \in Records /\ mem'.inst = mem.inst
           /\ mem'.native = mem.native /\ mem'.probes = mem.probes
           /\ \/ UNCHANGED <<view, held>>
              \/ /\ view' = [view EXCEPT ![a] =
                              [since |-> mem'.version[a], desired |-> Desired(mem', a)]]
                 /\ held' = [held EXCEPT ![a] = @ \cup {ip[2] : ip \in Desired(mem', a)}]
<1>1. mem' = ExpireDueProbes(mem)
  BY DEF Assignments
<1>2. /\ mem' \in Records /\ mem'.inst = mem.inst /\ mem'.native = mem.native
      /\ mem'.probes = mem.probes
  BY <1>1, BaseParts, ExpiredParts
<1> QED
  BY <1>1, <1>2 DEF Assignments

LEMMA RestartEffect ==
    ASSUME BaseInv, Restart
    PROVE  /\ mem' = ExpireDueProbes(disk') /\ mem' \in Records /\ mem'.inst = mem.inst
           /\ mem'.native = disk'.native /\ mem'.probes = disk'.probes
           /\ disk' = disk \/ Stored(mem, disk')
           /\ disk' \in Records /\ disk'.inst = mem.inst /\ Dated(disk'.native)
<1>1. mem' = ExpireDueProbes(disk') /\ disk' \in {disk, PersistAll(mem)}
  BY DEF Restart
<1>2. Stored(mem, PersistAll(mem))
  BY BaseParts, PersistedAll
<1>3. disk' \in Records /\ disk'.inst = mem.inst /\ Dated(disk'.native)
  BY <1>1, <1>2, BaseParts DEF Stored
<1>4. /\ mem' \in Records /\ mem'.inst = mem.inst /\ mem'.native = disk'.native
      /\ mem'.probes = disk'.probes
  BY <1>1, <1>3, BaseParts, ExpiredParts
<1> QED
  BY <1>1, <1>2, <1>3, <1>4

-----------------------------------------------------------------------------
(* The base invariant *)

LEMMA BaseFrom ==
    ASSUME BaseInv, clock' = clock, mem' \in Records, disk' \in Records, disk'.inst = mem'.inst,
           Dated(mem'.native), Dated(disk'.native), OneOwner', OthersTyped'
    PROVE  BaseInv'
<1>1. Dated(mem.native)' /\ Dated(disk.native)'
  BY DEF Dated
<1>2. clock' \in Nat \ {0}
  BY BaseParts
<1>3. NativeTypeOK'
  BY <1>2 DEF NativeTypeOK, OthersTyped
<1> QED
  BY <1>1, <1>2, <1>3 DEF BaseInv, TypeInv

(* The owners stay when no agent's instances change. *)
LEMMA OwnersStay ==
    ASSUME BaseInv, mem'.inst = mem.inst
    PROVE  OneOwner'
BY DEF BaseInv, OneOwner

LEMMA BaseInit == Init => BaseInv
<1> SUFFICES ASSUME Init PROVE BaseInv
  OBVIOUS
<1> DEFINE E == [p \in Probe |-> 0]
           I == [a \in Agent |-> {}]
           N == [k \in Keys |-> NoStatus]
           L == [p \in Probe |-> NoStatus]
           V == [a \in Agent |-> 0]
<1>1. mem = [probes |-> {}, expired |-> {}, expiresAt |-> E, agents |-> {}, inst |-> I,
             native |-> N, logical |-> L, version |-> V]
      /\ disk = mem /\ clock = 1
  BY DEF Init
<1>2. /\ E \in [Probe -> Nat] /\ I \in [Agent -> SUBSET Instances] /\ N \in [Keys -> Statuses]
      /\ L \in [Probe -> Statuses] /\ V \in [Agent -> Nat]
  BY NoStatusType
<1>3. \A k \in Keys : N[k].updatedAt <= clock
  BY <1>1, NoStatusType
<1>4. \A a \in Agent : I[a] = {}
  OBVIOUS
<1> HIDE DEF E, I, N, L, V
<1>5. mem \in Records /\ disk \in Records /\ mem.inst = I /\ mem.native = N
  BY <1>1, <1>2 DEF Records
<1>6. OthersTyped
  <2>1. /\ removed \in [Probe -> Nat] /\ deletedAt \in [Probe -> Nat]
        /\ held \in [Agent -> SUBSET Probe] /\ minted \subseteq Probe /\ ended \subseteq Keys
        /\ lost \subseteq Probe /\ batches \in Nat
    BY DEF Init
  <2>2. view \in [Agent -> [since : Nat, desired : SUBSET (Instances \X Probe)]]
    BY DEF Init
  <2> QED
    BY <2>1, <2>2 DEF OthersTyped
<1>7. NativeTypeOK
  BY <1>1, <1>5, <1>6 DEF NativeTypeOK, OthersTyped
<1>8. OneOwner
  BY <1>4, <1>5 DEF OneOwner
<1> QED
  BY <1>1, <1>3, <1>5, <1>7, <1>8 DEF BaseInv, TypeInv, Dated

LEMMA BaseCreate == ASSUME BaseInv, NEW p \in Probe, Create(p) PROVE BaseInv'
<1>1. OthersTyped'
  BY BaseParts DEF Create, OthersTyped
<1>2. clock' = clock
  BY DEF Create
<1> QED
  BY <1>1, <1>2, CreateEffect, BaseParts, OwnersStay, BaseFrom DEF Stored

LEMMA BaseDelete == ASSUME BaseInv, NEW p \in Probe, Delete(p) PROVE BaseInv'
<1>1. OthersTyped'
  BY BaseParts DEF Delete, OthersTyped
<1>2. clock' = clock
  BY DEF Delete
<1> QED
  BY <1>1, <1>2, DeleteEffect, BaseParts, OwnersStay, BaseFrom DEF Stored

LEMMA BaseExpire == ASSUME BaseInv, Expire PROVE BaseInv'
<1>1. OthersTyped'
  BY BaseParts DEF Expire, OthersTyped
<1>2. clock' = clock
  BY DEF Expire
<1> QED
  BY <1>1, <1>2, ExpireEffect, BaseParts, OwnersStay, BaseFrom DEF Stored

LEMMA BaseRegister == ASSUME BaseInv, NEW a \in Agent, Register(a) PROVE BaseInv'
<1>1. OthersTyped'
  BY BaseParts DEF Register, OthersTyped
<1>2. clock' = clock
  BY DEF Register
<1> QED
  BY <1>1, <1>2, RegisterEffect, BaseParts, OwnersStay, BaseFrom DEF Stored

(* The ownership check is what keeps a process with one agent. *)
LEMMA BaseReplace ==
    ASSUME BaseInv, NEW a \in Agent, NEW S \in InstanceSets, ReplaceInstances(a, S)
    PROVE  BaseInv'
<1>1. OthersTyped'
  BY BaseParts DEF ReplaceInstances, TakeInstances, OthersTyped
<1>2. clock' = clock
  BY DEF ReplaceInstances, TakeInstances
<1>3. OneOwner'
  <2>1. mem'.inst[a] = S /\ \A b \in Agent \ {a} : mem'.inst[b] = mem.inst[b]
    BY ReplaceEffect
  <2>2. \A i \in S, b \in Agent \ {a} : \A j \in mem.inst[b] : j.id # i.id
    BY DEF ReplaceInstances
  <2>3. \A i, j \in S : i.id = j.id => i = j
    BY DEF InstanceSets
  <2>4. OneOwner
    BY DEF BaseInv
  <2>5. SUFFICES ASSUME NEW b \in Agent, NEW c \in Agent, NEW i \in mem'.inst[b],
                        NEW j \in mem'.inst[c], i.id = j.id
                 PROVE  b = c /\ i = j
    BY DEF OneOwner
  <2>6. CASE b = a /\ c = a
    BY <2>1, <2>3, <2>5, <2>6
  <2>7. CASE b = a /\ c # a
    BY <2>1, <2>2, <2>5, <2>7
  <2>8. CASE b # a /\ c = a
    BY <2>1, <2>2, <2>5, <2>8
  <2>9. CASE b # a /\ c # a
    BY <2>1, <2>4, <2>5, <2>9 DEF OneOwner
  <2> QED
    BY <2>6, <2>7, <2>8, <2>9
<1> QED
  BY <1>1, <1>2, <1>3, ReplaceEffect, BaseParts, BaseFrom DEF Stored

LEMMA BaseAssignments == ASSUME BaseInv, NEW a \in Agent, Assignments(a) PROVE BaseInv'
<1>1. clock' = clock /\ disk' = disk /\ UNCHANGED <<removed, minted, deletedAt, ended, lost, batches>>
  BY DEF Assignments
<1>2. mem'.version[a] \in Nat /\ Desired(mem', a) \in SUBSET (Instances \X Probe)
  BY AssignmentsEffect, RecordParts, DesiredType
<1>3. view' \in [Agent -> [since : Nat, desired : SUBSET (Instances \X Probe)]]
  BY <1>2, AssignmentsEffect, BaseParts
<1>4. held' \in [Agent -> SUBSET Probe]
  BY <1>2, AssignmentsEffect, BaseParts
<1>5. OthersTyped'
  BY <1>1, <1>3, <1>4, BaseParts DEF OthersTyped
<1> QED
  BY <1>1, <1>5, AssignmentsEffect, BaseParts, OwnersStay, BaseFrom

LEMMA BaseAgentRestart == ASSUME BaseInv, NEW a \in Agent, AgentRestart(a) PROVE BaseInv'
<1>1. /\ clock' = clock /\ disk' = disk /\ mem' = mem
      /\ UNCHANGED <<removed, minted, deletedAt, ended, lost, batches>>
  BY DEF AgentRestart
<1>2. /\ view' \in [Agent -> [since : Nat, desired : SUBSET (Instances \X Probe)]]
      /\ held' \in [Agent -> SUBSET Probe]
  BY BaseParts DEF AgentRestart
<1>3. OthersTyped'
  BY <1>1, <1>2, BaseParts DEF OthersTyped
<1> QED
  BY <1>1, <1>3, BaseParts, OwnersStay, BaseFrom

LEMMA BaseIngest ==
    ASSUME BaseInv, NEW a \in Agent, NEW i \in Instances, NEW batch \in Batches,
           IngestNative(a, i, batch)
    PROVE  BaseInv'
<1>1. UNCHANGED <<clock, view, held, minted, deletedAt>> /\ batches' = batches + 1 /\ removed' = Pruned
  BY DEF IngestNative
<1>2. Pruned \in [Probe -> Nat]
  BY BaseParts DEF Pruned
<1>3. lost' \subseteq Probe
  <2>1. lost \subseteq Probe /\ mem.probes \subseteq Probe
    BY BaseParts, RecordParts
  <2>2. lost' = lost \/ lost' = lost \cup Known(batch)
    BY IngestCases
  <2> QED
    BY <2>1, <2>2 DEF Known
<1>4. ended' \subseteq Keys
  BY IngestEffect, BaseParts, NativeAfterParts
<1>5. OthersTyped'
  BY <1>1, <1>2, <1>3, <1>4, BaseParts DEF OthersTyped
<1>6. CASE UNCHANGED <<mem, disk, ended>>
  BY <1>1, <1>5, <1>6, BaseParts, OwnersStay, BaseFrom
<1>7. CASE ~UNCHANGED <<mem, disk, ended>>
  BY <1>1, <1>5, <1>7, IngestEffect, NativeAfterParts, OwnersStay, BaseFrom DEF Stored
<1> QED
  BY <1>6, <1>7

LEMMA BaseRestart == ASSUME BaseInv, Restart PROVE BaseInv'
<1>1. clock' = clock /\ UNCHANGED <<view, held, minted, deletedAt, ended, lost, batches>>
      /\ removed' = [p \in Probe |-> 0]
  BY DEF Restart
<1>2. OthersTyped'
  BY <1>1, BaseParts DEF OthersTyped
<1> QED
  BY <1>1, <1>2, RestartEffect, OwnersStay, BaseFrom

LEMMA BaseTick == ASSUME BaseInv, Tick PROVE BaseInv'
<1>1. clock' = clock + 1
      /\ UNCHANGED <<mem, disk, removed, view, held, minted, deletedAt, ended, lost, batches>>
  BY DEF Tick
<1>2. Dated(mem.native)' /\ Dated(disk.native)'
  <2>1. \A k \in Keys : /\ mem.native[k].updatedAt \in Nat /\ mem.native[k].updatedAt <= clock
                        /\ disk.native[k].updatedAt \in Nat /\ disk.native[k].updatedAt <= clock
    BY BaseParts, RecordParts DEF Dated, Statuses
  <2> QED
    BY <1>1, <2>1, BaseParts DEF Dated
<1>3. clock' \in Nat \ {0}
  BY <1>1, BaseParts
<1>4. NativeTypeOK'
  BY <1>1, <1>3, BaseParts DEF NativeTypeOK
<1>5. OneOwner'
  BY <1>1, OwnersStay
<1>6. (disk.inst = mem.inst)'
  BY <1>1, BaseParts
<1> QED
  BY <1>2, <1>3, <1>4, <1>5, <1>6 DEF BaseInv, TypeInv

LEMMA BaseNext == BaseInv /\ [Next]_vars => BaseInv'
<1> SUFFICES ASSUME BaseInv, [Next]_vars PROVE BaseInv'
  OBVIOUS
<1>1. CASE Next
  BY <1>1, BaseCreate, BaseDelete, BaseExpire, BaseRegister, BaseReplace, BaseAssignments,
     BaseAgentRestart, BaseIngest, BaseRestart, BaseTick DEF Next
<1>2. CASE UNCHANGED vars
  BY <1>2 DEF vars, BaseInv, TypeInv, NativeTypeOK, OneOwner, Dated
<1> QED
  BY <1>1, <1>2

(* The types are kept, and no status is dated later than the clock. *)
THEOREM NativeTypeCorrect == Spec => []NativeTypeOK
<1>1. BaseInv => NativeTypeOK
  BY DEF BaseInv, TypeInv
<1> QED
  BY <1>1, BaseInit, BaseNext, PTL DEF Spec

(* Whatever the store and however often broker and agents restart, a       *)
(* target process is assigned through one agent only: an accepted report   *)
(* never takes over an instance id that another agent holds.               *)
THEOREM ProcessHasOneOwner == Spec => []OneOwner
<1>1. BaseInv => OneOwner
  BY DEF BaseInv
<1> QED
  BY <1>1, BaseInit, BaseNext, PTL DEF Spec

-----------------------------------------------------------------------------
(* Events of live probes *)

(* A probe deleted within the grace period is still remembered as removed. *)
LossInv ==
    /\ BaseInv
    /\ lost = {}
    /\ \A p \in Probe : deletedAt[p] # 0 /\ deletedAt[p] + Grace > clock
                          => removed[p] = deletedAt[p]

LEMMA LossInit == Init => LossInv
<1> SUFFICES ASSUME Init PROVE LossInv
  OBVIOUS
<1>1. \A p \in Probe : deletedAt[p] = 0
  BY DEF Init
<1>2. lost = {}
  BY DEF Init
<1> QED
  BY <1>1, <1>2, BaseInit DEF LossInv

LEMMA LossNext ==
    ASSUME CanRestart = FALSE, LossInv, [Next]_vars
    PROVE  LossInv'
<1> DEFINE Kept(p, c, d, r) == d[p] # 0 /\ d[p] + Grace > c => r[p] = d[p]
<1>0. /\ BaseInv /\ BaseInv' /\ lost = {} /\ Grace \in Nat
      /\ \A p \in Probe : Kept(p, clock, deletedAt, removed)
  BY BaseNext, NativeBounds DEF LossInv
<1>1. SUFFICES lost' = {} /\ \A p \in Probe : Kept(p, clock', deletedAt', removed')
  BY <1>0 DEF LossInv
<1>2. \A p \in Probe : deletedAt[p] \in Nat /\ removed[p] \in Nat
  BY <1>0, BaseParts
<1>3. clock \in Nat
  BY <1>0, BaseParts
<1>4. ASSUME NEW p \in Probe, Delete(p) PROVE lost' = {} /\ \A q \in Probe : Kept(q, clock', deletedAt', removed')
  <2>1. /\ clock' = clock /\ lost' = lost /\ removed' = [removed EXCEPT ![p] = clock]
        /\ deletedAt' = [deletedAt EXCEPT ![p] = clock]
    BY <1>4 DEF Delete
  <2>2. removed \in [Probe -> Nat] /\ deletedAt \in [Probe -> Nat]
    BY <1>0, BaseParts
  <2> QED
    BY <1>0, <2>1, <2>2
<1>5. ASSUME NEW a \in Agent, NEW i \in Instances, NEW batch \in Batches, IngestNative(a, i, batch)
      PROVE  lost' = {} /\ \A q \in Probe : Kept(q, clock', deletedAt', removed')
  <2>1. clock' = clock /\ deletedAt' = deletedAt /\ removed' = Pruned
    BY <1>5 DEF IngestNative
  <2>2. \A q \in Probe : Pruned[q] = IF removed[q] + Grace <= clock THEN 0 ELSE removed[q]
    BY DEF Pruned
  <2>3. \A q \in Probe : Kept(q, clock, deletedAt, Pruned)
    BY <1>0, <1>2, <1>3, <2>2
  <2>4. lost' = {}
    <3>1. CASE Unknown(batch) = {}
      BY <1>0, <1>5, <3>1, IngestCases
    <3>2. CASE Unknown(batch) # {}
      <4>1. PICK q \in Unknown(batch) : TRUE
        BY <3>2
      <4>2. DOMAIN batch \subseteq Probe
        BY DEF Batches
      <4>3. q \in Probe /\ Pruned[q] = 0
        BY <4>1, <4>2 DEF Unknown
      <4>4. ~(deletedAt[q] # 0 /\ deletedAt[q] + Grace > clock)
        BY <2>3, <4>3
      <4> QED
        BY <1>0, <1>5, <3>2, <4>1, <4>4, IngestCases
    <3> QED
      BY <3>1, <3>2
  <2> QED
    BY <2>1, <2>3, <2>4
<1>6. CASE Tick
  <2>1. clock' = clock + 1 /\ UNCHANGED <<lost, deletedAt, removed>>
    BY <1>6 DEF Tick
  <2> QED
    BY <1>0, <1>2, <1>3, <2>1
<1>7. CASE UNCHANGED <<clock, lost, deletedAt, removed>>
  BY <1>0, <1>7
<1>8. \/ \E p \in Probe : Delete(p)
      \/ \E a \in Agent, i \in Instances, batch \in Batches : IngestNative(a, i, batch)
      \/ Tick
      \/ UNCHANGED <<clock, lost, deletedAt, removed>>
  BY DEF LossInv, Next, vars, Create, Expire, Register, Assignments, AgentRestart,
         ReplaceInstances, TakeInstances, Restart
<1> HIDE DEF Kept
<1> QED
  BY <1>4, <1>5, <1>6, <1>7, <1>8

(* As long as the broker does not restart, events of live probes are never *)
(* refused because their batch also holds events of a probe whose removal  *)
(* is younger than the grace period, for every grace period and every      *)
(* history of creations, deletions and batches.  (A restart forgets the    *)
(* removals, which are no part of a snapshot.)                             *)
THEOREM LiveEvidenceIsTaken ==
    ASSUME CanRestart = FALSE
    PROVE  Spec => []NoCollateralLoss
<1>1. LossInv => NoCollateralLoss
  BY DEF LossInv, NoCollateralLoss
<1>2. LossInv /\ [Next]_vars => LossInv'
  BY LossNext
<1> QED
  BY <1>1, <1>2, LossInit, PTL DEF Spec

-----------------------------------------------------------------------------
(* The JSON store: what a restart finds *)

(* At time t the file D lags behind the records m by the probes X that a   *)
(* read has expired since the last persist, and by nothing else.           *)
JsonDisk(m, D, t) ==
    /\ D.probes = m.probes /\ D.expiresAt = m.expiresAt /\ D.inst = m.inst
    /\ D.expired \subseteq m.expired
    /\ \A p \in m.expired \ D.expired : p \in m.probes /\ m.expiresAt[p] <= t
    /\ \A k \in Keys : /\ D.native[k] \in {m.native[k], NoStatus}
                       /\ k[1] \in m.probes => D.native[k] = m.native[k]
    /\ \A a \in Agent :
          m.version[a] = D.version[a] + Cardinality(Hits(m.expired \ D.expired, m, a))

LEMMA NoHits == \A m, a : Cardinality(Hits({}, m, a)) = 0
<1>1. \A m, a : Hits({}, m, a) = {}
  BY DEF Hits
<1> QED
  BY <1>1, FS_EmptySet

LEMMA JsonSnapshot ==
    ASSUME NEW m \in Records, NEW t, NEW D, D = Snapshot(m)
    PROVE  JsonDisk(m, D, t)
<1>1. m.expired \ D.expired = {}
  BY SnapshotParts
<1>2. \A a \in Agent : m.version[a] \in Nat
  BY RecordParts
<1>3. \A a \in Agent :
         m.version[a] = D.version[a] + Cardinality(Hits(m.expired \ D.expired, m, a))
  BY <1>1, <1>2, NoHits, SnapshotParts
<1> QED
  BY <1>1, <1>3, SnapshotParts DEF JsonDisk

(* Hits of disjoint sets of probes add up. *)
LEMMA HitsAddUp ==
    ASSUME NEW m \in Records, NEW a \in Agent, NEW X \in SUBSET Probe, NEW Y \in SUBSET Probe,
           X \cap Y = {}
    PROVE  Cardinality(Hits(X \cup Y, m, a)) = Cardinality(Hits(X, m, a)) + Cardinality(Hits(Y, m, a))
<1>1. Hits(X \cup Y, m, a) = Hits(X, m, a) \cup Hits(Y, m, a) /\ Hits(X, m, a) \cap Hits(Y, m, a) = {}
  BY DEF Hits
<1>2. IsFiniteSet(Hits(X, m, a)) /\ IsFiniteSet(Hits(Y, m, a))
  BY FiniteHits
<1>3. Cardinality(Hits(X, m, a)) \in Nat /\ Cardinality(Hits(Y, m, a)) \in Nat
  BY FiniteHits
<1>4. Cardinality(Hits(X, m, a) \cup Hits(Y, m, a)) =
        Cardinality(Hits(X, m, a)) + Cardinality(Hits(Y, m, a)) - Cardinality(Hits(X, m, a) \cap Hits(Y, m, a))
  BY <1>2, FS_Union
<1>5. Cardinality(Hits(X, m, a) \cap Hits(Y, m, a)) = 0
  BY <1>1, FS_EmptySet
<1>6. Cardinality(Hits(X \cup Y, m, a)) = Cardinality(Hits(X, m, a) \cup Hits(Y, m, a))
  BY <1>1
<1> HIDE DEF Hits
<1> QED
  BY <1>3, <1>4, <1>5, <1>6

(* A read expires probes without a persist. *)
LEMMA JsonExpire ==
    ASSUME NEW m \in Records, NEW D \in Records, clock \in Nat, JsonDisk(m, D, clock),
           NEW n, n = ExpireDueProbes(m)
    PROVE  JsonDisk(n, D, clock)
<1> DEFINE X == m.expired \ D.expired
           Y == Due(m)
<1>1. /\ n \in Records /\ n.probes = m.probes /\ n.expired = m.expired \cup Y
      /\ n.expiresAt = m.expiresAt /\ n.inst = m.inst /\ n.native = m.native
      /\ \A a \in Agent : n.version[a] = m.version[a] + Cardinality(Hits(Y, m, a))
  BY ExpiredParts
<1>2. Y \subseteq m.probes /\ Y \cap m.expired = {} /\ \A p \in Y : m.expiresAt[p] <= clock
  BY DEF Due
<1>3. D.expired \subseteq m.expired
  BY DEF JsonDisk
<1>4. X \in SUBSET Probe /\ Y \in SUBSET Probe
  BY <1>2, RecordParts
<1>5. n.expired \ D.expired = X \cup Y /\ X \cap Y = {}
  BY <1>1, <1>2, <1>3
<1>6. ASSUME NEW a \in Agent
      PROVE  n.version[a] = D.version[a] + Cardinality(Hits(n.expired \ D.expired, n, a))
  <2>1. m.version[a] = D.version[a] + Cardinality(Hits(X, m, a))
    BY DEF JsonDisk
  <2>2. D.version[a] \in Nat /\ Cardinality(Hits(X, m, a)) \in Nat /\ Cardinality(Hits(Y, m, a)) \in Nat
    BY <1>4, RecordParts, FiniteHits
  <2>3. Hits(n.expired \ D.expired, n, a) = Hits(X \cup Y, m, a)
    BY <1>1, <1>5 DEF Hits
  <2>4. Cardinality(Hits(X \cup Y, m, a)) = Cardinality(Hits(X, m, a)) + Cardinality(Hits(Y, m, a))
    BY <1>4, <1>5, HitsAddUp
  <2> HIDE DEF X, Y
  <2> QED
    BY <1>1, <2>1, <2>2, <2>3, <2>4
<1>7. \A p \in n.expired \ D.expired : p \in n.probes /\ n.expiresAt[p] <= clock
  <2>1. \A p \in X : p \in m.probes /\ m.expiresAt[p] <= clock
    BY DEF JsonDisk
  <2> HIDE DEF X, Y
  <2> QED
    BY <1>1, <1>2, <1>5, <2>1
<1> QED
  BY <1>1, <1>3, <1>6, <1>7 DEF JsonDisk

(* The broker restores the file and expires what fell due meanwhile. *)
LEMMA JsonRestore ==
    ASSUME NEW D \in Records, clock \in Nat, NEW n, n = ExpireDueProbes(D)
    PROVE  JsonDisk(n, D, clock)
<1>1. /\ n \in Records /\ n.probes = D.probes /\ n.expired = D.expired \cup Due(D)
      /\ n.expiresAt = D.expiresAt /\ n.inst = D.inst /\ n.native = D.native
      /\ \A a \in Agent : n.version[a] = D.version[a] + Cardinality(Hits(Due(D), D, a))
  BY ExpiredParts
<1>2. Due(D) \subseteq D.probes /\ Due(D) \cap D.expired = {} /\ \A p \in Due(D) : D.expiresAt[p] <= clock
  BY DEF Due
<1>3. n.expired \ D.expired = Due(D)
  BY <1>1, <1>2
<1>4. \A a \in Agent : Hits(n.expired \ D.expired, n, a) = Hits(Due(D), D, a)
  BY <1>1, <1>3 DEF Hits
<1> QED
  BY <1>1, <1>2, <1>3, <1>4 DEF JsonDisk

-----------------------------------------------------------------------------
(* Every change of the desired state is numbered *)

Numbered(m, n) ==
    \A a \in Agent : /\ n.version[a] >= m.version[a]
                     /\ n.version[a] = m.version[a]
                           => n.inst[a] = m.inst[a] /\ Desired(n, a) = Desired(m, a)

LEMMA SameDesired ==
    ASSUME NEW m \in Records, NEW n \in Records, NEW a \in Agent, n.inst[a] = m.inst[a],
           \A p \in Probe, i \in m.inst[a] : InstSvc[i.id] = SvcOf[p] =>
              (p \in n.probes \ n.expired <=> p \in m.probes \ m.expired),
           \A p \in m.probes, i \in m.inst[a] :
              EndsAssignment(n.native[<<p, a, i>>].name) <=> EndsAssignment(m.native[<<p, a, i>>].name)
    PROVE  Desired(n, a) = Desired(m, a)
<1>1. m.probes \subseteq Probe /\ n.probes \subseteq Probe
  BY RecordParts
<1>2. ASSUME NEW i \in m.inst[a], NEW p \in Probe
      PROVE  <<i, p>> \in Desired(n, a) <=> <<i, p>> \in Desired(m, a)
  <2>1. <<i, p>> \in Desired(n, a) <=> /\ p \in n.probes \ n.expired /\ InstSvc[i.id] = SvcOf[p]
                                       /\ ~EndsAssignment(n.native[<<p, a, i>>].name)
    BY DEF Desired
  <2>2. <<i, p>> \in Desired(m, a) <=> /\ p \in m.probes \ m.expired /\ InstSvc[i.id] = SvcOf[p]
                                       /\ ~EndsAssignment(m.native[<<p, a, i>>].name)
    BY DEF Desired
  <2> QED
    BY <2>1, <2>2
<1>3. Desired(n, a) \subseteq m.inst[a] \X Probe /\ Desired(m, a) \subseteq m.inst[a] \X Probe
  BY <1>1 DEF Desired
<1>4. ASSUME NEW ip \in m.inst[a] \X Probe PROVE ip \in Desired(n, a) <=> ip \in Desired(m, a)
  <2>1. ip = <<ip[1], ip[2]>> /\ ip[1] \in m.inst[a] /\ ip[2] \in Probe
    OBVIOUS
  <2> QED
    BY <1>2, <2>1
<1> HIDE DEF Desired
<1> QED
  BY <1>3, <1>4

LEMMA CreateNumbered == ASSUME BaseInv, NEW p \in Probe, Create(p) PROVE Numbered(mem, mem')
<1>1. /\ mem \in Records /\ mem' \in Records
      /\ mem'.probes = mem.probes \cup {p} /\ mem'.expired = mem.expired
      /\ mem'.inst = mem.inst /\ mem'.native = mem.native
      /\ mem'.version = BumpService(mem, SvcOf[p])
  BY CreateEffect, BaseParts
<1>2. ASSUME NEW a \in Agent, mem'.version[a] = mem.version[a]
      PROVE  mem'.inst[a] = mem.inst[a] /\ Desired(mem', a) = Desired(mem, a)
  <2>1. Serving(mem, a, SvcOf[p]) = {}
    BY <1>1, <1>2, Bumped
  <2>2. \A i \in mem.inst[a] : InstSvc[i.id] # SvcOf[p]
    BY <2>1 DEF Serving
  <2>3. \A q \in Probe, i \in mem.inst[a] : InstSvc[i.id] = SvcOf[q] =>
           (q \in mem'.probes \ mem'.expired <=> q \in mem.probes \ mem.expired)
    BY <1>1, <2>2
  <2> QED
    BY <1>1, <2>3, SameDesired
<1> QED
  BY <1>1, <1>2, Bumped DEF Numbered

LEMMA DeleteNumbered == ASSUME BaseInv, NEW p \in Probe, Delete(p) PROVE Numbered(mem, mem')
<1>1. /\ mem \in Records /\ mem' \in Records
      /\ mem'.probes = mem.probes \ {p} /\ mem'.expired = mem.expired \ {p}
      /\ mem'.inst = mem.inst /\ mem'.native = mem.native
      /\ mem'.version = IF p \in mem.expired THEN mem.version ELSE BumpService(mem, SvcOf[p])
  BY DeleteEffect, BaseParts
<1>2. ASSUME NEW a \in Agent, mem'.version[a] = mem.version[a]
      PROVE  mem'.inst[a] = mem.inst[a] /\ Desired(mem', a) = Desired(mem, a)
  <2>1. \A q \in Probe, i \in mem.inst[a] : InstSvc[i.id] = SvcOf[q] =>
           (q \in mem'.probes \ mem'.expired <=> q \in mem.probes \ mem.expired)
    <3>1. CASE p \in mem.expired
      BY <1>1, <3>1
    <3>2. CASE p \notin mem.expired
      <4>1. Serving(mem, a, SvcOf[p]) = {}
        BY <1>1, <1>2, <3>2, Bumped
      <4>2. \A i \in mem.inst[a] : InstSvc[i.id] # SvcOf[p]
        BY <4>1 DEF Serving
      <4> QED
        BY <1>1, <4>2
    <3> QED
      BY <3>1, <3>2
  <2> QED
    BY <1>1, <2>1, SameDesired
<1>3. \A a \in Agent : mem'.version[a] >= mem.version[a]
  BY <1>1, Bumped, RecordParts
<1> QED
  BY <1>2, <1>3 DEF Numbered

(* Expiry moves every agent on which a probe that falls due runs. *)
LEMMA ExpiryNumbered ==
    ASSUME clock \in Nat, NEW m \in Records, NEW n, n = ExpireDueProbes(m)
    PROVE  Numbered(m, n)
<1>1. /\ n \in Records /\ n.probes = m.probes /\ n.expired = m.expired \cup Due(m)
      /\ n.inst = m.inst /\ n.native = m.native
      /\ \A a \in Agent : n.version[a] = m.version[a] + Cardinality(Hits(Due(m), m, a))
  BY ExpiredParts
<1>2. Due(m) \in SUBSET Probe /\ Due(m) \subseteq m.probes \ m.expired
  BY RecordParts DEF Due
<1>3. ASSUME NEW a \in Agent
      PROVE  m.version[a] \in Nat /\ Cardinality(Hits(Due(m), m, a)) \in Nat
             /\ (Cardinality(Hits(Due(m), m, a)) = 0 => Hits(Due(m), m, a) = {})
  BY <1>2, RecordParts, FiniteHits
<1>4. ASSUME NEW a \in Agent, n.version[a] = m.version[a]
      PROVE  n.inst[a] = m.inst[a] /\ Desired(n, a) = Desired(m, a)
  <2>1. Hits(Due(m), m, a) = {}
    BY <1>1, <1>3, <1>4
  <2>2. \A q \in Due(m), i \in m.inst[a] : InstSvc[i.id] # SvcOf[q]
    <3>1. ASSUME NEW q \in Due(m), NEW i \in m.inst[a], InstSvc[i.id] = SvcOf[q] PROVE FALSE
      <4>1. <<q, i>> \in Hits(Due(m), m, a)
        BY <3>1 DEF Hits
      <4> QED
        BY <2>1, <4>1
    <3> QED
      BY <3>1
  <2>3. \A q \in Probe, i \in m.inst[a] : InstSvc[i.id] = SvcOf[q] =>
           (q \in n.probes \ n.expired <=> q \in m.probes \ m.expired)
    BY <1>1, <2>2
  <2> QED
    BY <1>1, <2>3, SameDesired
<1> QED
  BY <1>1, <1>3, <1>4 DEF Numbered

LEMMA ReplaceNumbered ==
    ASSUME BaseInv, NEW a \in Agent, NEW S \in InstanceSets, ReplaceInstances(a, S)
    PROVE  Numbered(mem, mem')
<1>1. /\ mem \in Records /\ mem' \in Records
      /\ mem'.probes = mem.probes /\ mem'.expired = mem.expired
      /\ mem'.inst[a] = S /\ \A b \in Agent \ {a} : mem'.inst[b] = mem.inst[b]
      /\ mem'.native = mem.native
      /\ S = mem.inst[a] => mem'.version = mem.version
      /\ S # mem.inst[a] => mem'.version[a] = mem.version[a] + 1
      /\ \A b \in Agent \ {a} : mem'.version[b] = mem.version[b]
  BY ReplaceEffect, BaseParts
<1>2. \A b \in Agent : mem.version[b] \in Nat
  BY <1>1, RecordParts
<1>3. ASSUME NEW b \in Agent, mem'.version[b] = mem.version[b]
      PROVE  mem'.inst[b] = mem.inst[b] /\ Desired(mem', b) = Desired(mem, b)
  <2>1. mem'.inst[b] = mem.inst[b]
    BY <1>1, <1>2, <1>3
  <2> QED
    BY <1>1, <2>1, SameDesired
<1>4. \A b \in Agent : mem'.version[b] >= mem.version[b]
  BY <1>1, <1>2
<1> QED
  BY <1>3, <1>4 DEF Numbered

LEMMA IngestNumbered ==
    ASSUME BaseInv, NEW a \in Agent, NEW i \in Instances, NEW batch \in Batches,
           IngestNative(a, i, batch)
    PROVE  Numbered(mem, mem')
<1>1. mem \in Records /\ \A b \in Agent : mem.version[b] \in Nat
  BY BaseParts, RecordParts
<1>2. CASE UNCHANGED <<mem, disk, ended>>
  BY <1>1, <1>2 DEF Numbered
<1>3. CASE ~UNCHANGED <<mem, disk, ended>>
  <2>1. /\ mem' \in Records
        /\ mem'.probes = mem.probes /\ mem'.expired = mem.expired
        /\ mem'.inst = mem.inst /\ mem'.native = NativeAfter(a, i, batch)
        /\ mem'.version[a] = mem.version[a] + Cardinality(NewlyEnded(a, i, batch))
        /\ \A b \in Agent \ {a} : mem'.version[b] = mem.version[b]
    BY <1>3, IngestEffect
  <2>2. ASSUME NEW b \in Agent, mem'.version[b] = mem.version[b], NEW p \in mem.probes,
               NEW j \in mem.inst[b]
        PROVE  EndsAssignment(mem'.native[<<p, b, j>>].name)
                  <=> EndsAssignment(mem.native[<<p, b, j>>].name)
    <3>1. <<p, b, j>> \in Keys
      BY <1>1, RecordParts DEF Keys
    <3>2. CASE b # a
      BY <2>1, <3>1, <3>2, NativeAfterParts
    <3>3. CASE b = a
      <4>1. NewlyEnded(a, i, batch) = {}
        BY <1>1, <2>1, <2>2, <3>3, NativeAfterParts
      <4> QED
        BY <2>1, <3>1, <4>1, NativeAfterParts, ZenonT(60) DEF NewlyEnded
    <3> QED
      BY <3>2, <3>3
  <2>3. ASSUME NEW b \in Agent, mem'.version[b] = mem.version[b]
        PROVE  Desired(mem', b) = Desired(mem, b)
    BY <1>1, <2>1, <2>2, <2>3, SameDesired
  <2>4. \A b \in Agent : mem'.version[b] >= mem.version[b]
    BY <1>1, <2>1, NativeAfterParts
  <2> QED
    BY <2>1, <2>3, <2>4 DEF Numbered
<1> QED
  BY <1>2, <1>3

(* A restored broker numbers at least as high as the one that died: the    *)
(* probes that one had expired without a persist are due again, and if     *)
(* nothing else is, the desired state is the same.                         *)
LEMMA RestoreNumbered ==
    ASSUME clock \in Nat, NEW m \in Records, NEW D \in Records, JsonDisk(m, D, clock),
           NEW n, n = ExpireDueProbes(D)
    PROVE  Numbered(m, n)
<1> DEFINE X == m.expired \ D.expired
           Y == Due(D)
<1>1. /\ n \in Records /\ n.probes = D.probes /\ n.expired = D.expired \cup Y
      /\ n.inst = D.inst /\ n.native = D.native
      /\ \A a \in Agent : n.version[a] = D.version[a] + Cardinality(Hits(Y, D, a))
  BY ExpiredParts
<1>2. /\ D.probes = m.probes /\ D.expiresAt = m.expiresAt /\ D.inst = m.inst
      /\ D.expired \subseteq m.expired
      /\ \A p \in X : p \in m.probes /\ m.expiresAt[p] <= clock
      /\ \A k \in Keys : k[1] \in m.probes => D.native[k] = m.native[k]
      /\ \A a \in Agent : m.version[a] = D.version[a] + Cardinality(Hits(X, m, a))
  <2>1. /\ D.probes = m.probes /\ D.expiresAt = m.expiresAt /\ D.inst = m.inst
        /\ D.expired \subseteq m.expired
    BY DEF JsonDisk
  <2>2. \A p \in X : p \in m.probes /\ m.expiresAt[p] <= clock
    BY DEF JsonDisk
  <2>3. \A k \in Keys : k[1] \in m.probes => D.native[k] = m.native[k]
    <3> SUFFICES ASSUME NEW k \in Keys, k[1] \in m.probes PROVE D.native[k] = m.native[k]
      OBVIOUS
    <3> HIDE DEF X
    <3> QED
      BY Zenon DEF JsonDisk
  <2>4. \A a \in Agent : m.version[a] = D.version[a] + Cardinality(Hits(X, m, a))
    BY DEF JsonDisk
  <2> HIDE DEF X
  <2> QED
    BY <2>1, <2>2, <2>3, <2>4
<1>3. X \subseteq Y /\ X \in SUBSET Probe /\ Y \in SUBSET Probe
  BY <1>2, RecordParts DEF Due
<1>4. m.expired = D.expired \cup X /\ n.expired = D.expired \cup Y
  BY <1>1, <1>2
<1> HIDE DEF X, Y
<1>5. ASSUME NEW a \in Agent
      PROVE  /\ D.version[a] \in Nat /\ Cardinality(Hits(X, m, a)) \in Nat
             /\ Cardinality(Hits(Y, D, a)) \in Nat
             /\ Cardinality(Hits(X, m, a)) <= Cardinality(Hits(Y, D, a))
             /\ Cardinality(Hits(X, m, a)) = Cardinality(Hits(Y, D, a))
                   => Hits(X, m, a) = Hits(Y, D, a)
  <2>1. Hits(X, m, a) \subseteq Hits(Y, D, a)
    BY <1>2, <1>3 DEF Hits
  <2>2. IsFiniteSet(Hits(Y, D, a))
    BY <1>3, FiniteHits
  <2>3. /\ D.version[a] \in Nat /\ Cardinality(Hits(X, m, a)) \in Nat
        /\ Cardinality(Hits(Y, D, a)) \in Nat
    BY <1>3, FiniteHits, RecordParts
  <2> QED
    BY <2>1, <2>2, <2>3, FS_Subset
<1>6. ASSUME NEW a \in Agent, n.version[a] = m.version[a]
      PROVE  n.inst[a] = m.inst[a] /\ Desired(n, a) = Desired(m, a)
  <2>1. Hits(X, m, a) = Hits(Y, D, a)
    BY <1>1, <1>2, <1>5, <1>6
  <2>2. \A q \in Y \ X, i \in m.inst[a] : InstSvc[i.id] # SvcOf[q]
    <3>1. ASSUME NEW q \in Y \ X, NEW i \in m.inst[a], InstSvc[i.id] = SvcOf[q] PROVE FALSE
      <4>1. <<q, i>> \in Hits(Y, D, a)
        BY <1>2, <3>1 DEF Hits
      <4>2. <<q, i>> \in Hits(X, m, a)
        BY <2>1, <4>1
      <4>3. q \in X
        BY <4>2 DEF Hits
      <4> QED
        BY <3>1, <4>3
    <3> QED
      BY <3>1
  <2>3. \A q \in Probe, i \in m.inst[a] : InstSvc[i.id] = SvcOf[q] =>
           (q \in n.probes \ n.expired <=> q \in m.probes \ m.expired)
    BY <1>1, <1>2, <1>3, <1>4, <2>2
  <2>4. \A p \in m.probes, i \in m.inst[a] : n.native[<<p, a, i>>] = m.native[<<p, a, i>>]
    <3>1. \A p \in m.probes, i \in m.inst[a] : <<p, a, i>> \in Keys
      BY RecordParts DEF Keys
    <3> QED
      BY <1>1, <1>2, <3>1
  <2>5. n.inst[a] = m.inst[a]
    BY <1>1, <1>2
  <2> QED
    BY <1>1, <2>3, <2>4, <2>5, SameDesired
<1>7. \A a \in Agent : n.version[a] >= m.version[a]
  BY <1>1, <1>2, <1>5
<1> QED
  BY <1>6, <1>7 DEF Numbered

-----------------------------------------------------------------------------
(* With the JSON store *)

JsonInv == BaseInv /\ JsonDisk(mem, disk, clock)

LEMMA JsonInit == Init => JsonInv
<1> SUFFICES ASSUME Init PROVE JsonInv
  OBVIOUS
<1>1. BaseInv
  BY BaseInit
<1>2. disk = mem /\ \A k \in Keys : mem.native[k] = NoStatus
  BY DEF Init
<1>3. \A a \in Agent : mem.version[a] \in Nat
  BY <1>1, BaseParts, RecordParts
<1>4. \A a \in Agent :
         mem.version[a] = disk.version[a] + Cardinality(Hits(mem.expired \ disk.expired, mem, a))
  <2>1. mem.expired \ disk.expired = {}
    BY <1>2
  <2> QED
    BY <1>2, <1>3, <2>1, NoHits
<1>5. JsonDisk(mem, disk, clock)
  BY <1>2, <1>4 DEF JsonDisk
<1> QED
  BY <1>1, <1>5 DEF JsonInv

LEMMA JsonNext ==
    ASSUME Store = "json", JsonInv, [Next]_vars
    PROVE  JsonInv' /\ Numbered(mem, mem')
<1>0. BaseInv /\ BaseInv' /\ JsonDisk(mem, disk, clock)
  BY BaseNext DEF JsonInv
<1>1. mem \in Records /\ disk \in Records /\ clock \in Nat /\ mem' \in Records /\ disk' \in Records
  BY <1>0, BaseParts DEF BaseInv, TypeInv, NativeTypeOK
<1>2. ASSUME mem' = mem PROVE Numbered(mem, mem')
  <2>1. \A a \in Agent : mem.version[a] \in Nat
    BY <1>1, RecordParts
  <2> QED
    BY <1>2, <2>1 DEF Numbered
<1>3. SUFFICES JsonDisk(mem', disk', clock') /\ Numbered(mem, mem')
  BY <1>0 DEF JsonInv
<1>4. ASSUME Stored(mem', disk') PROVE JsonDisk(mem', disk', clock')
  BY <1>1, <1>4, JsonSnapshot DEF Stored
<1>5. ASSUME NEW p \in Probe, Create(p) PROVE JsonDisk(mem', disk', clock') /\ Numbered(mem, mem')
  BY <1>0, <1>4, <1>5, CreateEffect, CreateNumbered
<1>6. ASSUME NEW p \in Probe, Delete(p) PROVE JsonDisk(mem', disk', clock') /\ Numbered(mem, mem')
  BY <1>0, <1>4, <1>6, DeleteEffect, DeleteNumbered
<1>7. CASE Expire
  <2>1. mem' = ExpireDueProbes(mem) /\ (disk' = disk \/ Stored(mem', disk')) /\ clock' = clock
    BY <1>0, <1>7, ExpireEffect DEF Expire
  <2>2. Numbered(mem, mem')
    BY <1>1, <2>1, ExpiryNumbered
  <2>3. JsonDisk(mem', disk, clock)
    BY <1>0, <1>1, <2>1, JsonExpire
  <2> QED
    BY <1>4, <2>1, <2>2, <2>3
<1>8. ASSUME NEW a \in Agent, Register(a) PROVE JsonDisk(mem', disk', clock') /\ Numbered(mem, mem')
  <2>1. /\ Stored(mem', disk') /\ mem'.probes = mem.probes /\ mem'.expired = mem.expired
        /\ mem'.inst = mem.inst /\ mem'.native = mem.native /\ mem'.version = mem.version
    BY <1>0, <1>8, RegisterEffect
  <2>2. \A b \in Agent : mem.version[b] \in Nat
    BY <1>1, RecordParts
  <2>3. \A b \in Agent : Desired(mem', b) = Desired(mem, b)
    BY <2>1 DEF Desired
  <2> QED
    BY <1>4, <2>1, <2>2, <2>3 DEF Numbered
<1>9. ASSUME NEW a \in Agent, NEW S \in InstanceSets, ReplaceInstances(a, S)
      PROVE  JsonDisk(mem', disk', clock') /\ Numbered(mem, mem')
  BY <1>0, <1>4, <1>9, ReplaceEffect, ReplaceNumbered
<1>10. ASSUME NEW a \in Agent, Assignments(a)
       PROVE  JsonDisk(mem', disk', clock') /\ Numbered(mem, mem')
  <2>1. mem' = ExpireDueProbes(mem) /\ disk' = disk /\ clock' = clock
    BY <1>0, <1>10, AssignmentsEffect DEF Assignments
  <2> QED
    BY <1>0, <1>1, <2>1, ExpiryNumbered, JsonExpire
<1>11. ASSUME NEW a \in Agent, NEW i \in Instances, NEW batch \in Batches, IngestNative(a, i, batch)
       PROVE  JsonDisk(mem', disk', clock') /\ Numbered(mem, mem')
  <2>1. Numbered(mem, mem')
    BY <1>0, <1>11, IngestNumbered
  <2>2. clock' = clock
    BY <1>11 DEF IngestNative
  <2>3. UNCHANGED <<mem, disk, ended>> \/ Stored(mem', disk')
    BY <1>0, <1>11, IngestEffect
  <2> QED
    BY <1>0, <1>4, <2>1, <2>2, <2>3
<1>12. CASE Restart
  <2>1. /\ mem' = ExpireDueProbes(disk') /\ (disk' = disk \/ Stored(mem, disk')) /\ clock' = clock
        /\ disk' \in Records
    BY <1>0, <1>12, RestartEffect DEF Restart
  <2>2. JsonDisk(mem, disk', clock)
    BY <1>0, <1>1, <2>1, JsonSnapshot DEF Stored
  <2>3. Numbered(mem, mem')
    BY <1>1, <2>1, <2>2, RestoreNumbered
  <2>4. JsonDisk(mem', disk', clock)
    BY <1>1, <2>1, JsonRestore
  <2> QED
    BY <2>1, <2>3, <2>4
<1>13. CASE Tick
  <2>1. clock' = clock + 1 /\ mem' = mem /\ disk' = disk
    BY <1>13 DEF Tick
  <2>2. \A p \in mem.expired : mem.expiresAt[p] \in Nat
    BY <1>1, RecordParts
  <2>3. \A p \in mem.expired \ disk.expired : p \in mem.probes /\ mem.expiresAt[p] <= clock + 1
    BY <1>0, <1>1, <2>2 DEF JsonDisk
  <2>4. JsonDisk(mem, disk, clock + 1)
    BY <1>0, <2>3, Zenon DEF JsonDisk
  <2> QED
    BY <1>2, <2>1, <2>4
<1>14. CASE UNCHANGED <<clock, mem, disk>>
  BY <1>0, <1>2, <1>14
<1>15. ASSUME NEW a \in Agent, AgentRestart(a) PROVE UNCHANGED <<clock, mem, disk>>
  BY <1>15 DEF AgentRestart
<1>16. CASE UNCHANGED vars
  BY <1>14, <1>16 DEF vars
<1>17. CASE Next
  BY <1>5, <1>6, <1>7, <1>8, <1>9, <1>10, <1>11, <1>12, <1>13, <1>14, <1>15, <1>17 DEF Next
<1> QED
  BY <1>16, <1>17

(* No step takes an assignment version back, a restart from a file that    *)
(* misses the latest expiries included: an agent that asks with the        *)
(* version it has is never told that it is ahead of the broker.            *)
THEOREM VersionsNeverGoBack ==
    ASSUME Store = "json"
    PROVE  Spec => [][\A a \in Agent : mem'.version[a] >= mem.version[a]]_vars
<1>1. JsonInv /\ [Next]_vars => JsonInv'
  BY JsonNext
<1>2. JsonInv /\ [Next]_vars => [\A a \in Agent : mem'.version[a] >= mem.version[a]]_vars
  BY JsonNext DEF Numbered
<1> QED
  BY <1>1, <1>2, JsonInit, PTL DEF Spec

-----------------------------------------------------------------------------
(* Agents run what is desired *)

(* Agents are never ahead, one that is not behind runs the desired state,  *)
(* and one that has just started, at version 0, runs nothing rightly if    *)
(* the broker has not numbered it either.                                  *)
CoherentInv ==
    /\ JsonInv
    /\ \A a \in Agent : /\ view[a].since <= mem.version[a]
                        /\ view[a].since = mem.version[a] => view[a].desired = Desired(mem, a)
                        /\ mem.version[a] = 0 => mem.inst[a] = {}

LEMMA CoherentInit == Init => CoherentInv
<1> SUFFICES ASSUME Init PROVE CoherentInv
  OBVIOUS
<1>1. \A a \in Agent : view[a] = [since |-> 0, desired |-> {}] /\ mem.version[a] = 0 /\ mem.inst[a] = {}
  BY DEF Init
<1>2. \A a \in Agent : Desired(mem, a) = {}
  BY <1>1 DEF Desired
<1> QED
  BY <1>1, <1>2, JsonInit DEF CoherentInv

LEMMA CoherentNext ==
    ASSUME Store = "json", CoherentInv, [Next]_vars
    PROVE  CoherentInv'
<1>0. JsonInv /\ JsonInv' /\ Numbered(mem, mem') /\ BaseInv /\ BaseInv'
  BY JsonNext DEF CoherentInv, JsonInv
<1>1. /\ view \in [Agent -> [since : Nat, desired : SUBSET (Instances \X Probe)]]
      /\ \A a \in Agent : mem.version[a] \in Nat /\ mem'.version[a] \in Nat /\ view[a].since \in Nat
  <2>1. mem \in Records /\ mem' \in Records
    BY <1>0 DEF BaseInv, TypeInv, NativeTypeOK
  <2> QED
    BY <1>0, <2>1, BaseParts, RecordParts
<1>2. ASSUME NEW a \in Agent PROVE mem'.version[a] = 0 => mem'.inst[a] = {}
  BY <1>0, <1>1 DEF CoherentInv, Numbered
<1>3. ASSUME NEW a \in Agent, view'[a] = view[a]
      PROVE  /\ view'[a].since <= mem'.version[a]
             /\ view'[a].since = mem'.version[a] => view'[a].desired = Desired(mem', a)
  <2>1. /\ view[a].since <= mem.version[a]
        /\ view[a].since = mem.version[a] => view[a].desired = Desired(mem, a)
    BY DEF CoherentInv
  <2>2. /\ mem'.version[a] >= mem.version[a]
        /\ mem'.version[a] = mem.version[a] => Desired(mem', a) = Desired(mem, a)
    BY <1>0 DEF Numbered
  <2> QED
    BY <1>1, <1>3, <2>1, <2>2
<1>4. ASSUME NEW a \in Agent, view' = [view EXCEPT ![a] = [since |-> 0, desired |-> {}]]
      PROVE  /\ view'[a].since <= mem'.version[a]
             /\ view'[a].since = mem'.version[a] => view'[a].desired = Desired(mem', a)
  <2>1. view'[a] = [since |-> 0, desired |-> {}]
    BY <1>1, <1>4
  <2>2. mem'.version[a] = 0 => Desired(mem', a) = {}
    BY <1>2 DEF Desired
  <2> QED
    BY <1>1, <2>1, <2>2
<1>5. ASSUME NEW a \in Agent,
             view' = [view EXCEPT ![a] = [since |-> mem'.version[a], desired |-> Desired(mem', a)]]
      PROVE  /\ view'[a].since <= mem'.version[a]
             /\ view'[a].since = mem'.version[a] => view'[a].desired = Desired(mem', a)
  <2>1. view'[a] = [since |-> mem'.version[a], desired |-> Desired(mem', a)]
    BY <1>1, <1>5
  <2> QED
    BY <1>1, <2>1
<1>6. \/ view' = view
      \/ \E a \in Agent :
            \/ view' = [view EXCEPT ![a] = [since |-> 0, desired |-> {}]]
            \/ view' = [view EXCEPT ![a] = [since |-> mem'.version[a], desired |-> Desired(mem', a)]]
  <2>1. ASSUME NEW a \in Agent, Assignments(a)
        PROVE  \/ view' = view
               \/ view' = [view EXCEPT ![a] = [since |-> mem'.version[a], desired |-> Desired(mem', a)]]
    BY <1>0, <2>1, AssignmentsEffect
  <2>2. ASSUME NEW a \in Agent, AgentRestart(a)
        PROVE  view' = [view EXCEPT ![a] = [since |-> 0, desired |-> {}]]
    BY <2>2 DEF AgentRestart
  <2>3. \/ \E a \in Agent : Assignments(a) \/ AgentRestart(a)
        \/ view' = view
    BY ZenonT(60) DEF Next, vars, Create, Delete, Expire, Register, ReplaceInstances, TakeInstances,
           IngestNative, Restart, Tick
  <2> QED
    BY <2>1, <2>2, <2>3
<1>7. ASSUME NEW a \in Agent
      PROVE  /\ view'[a].since <= mem'.version[a]
             /\ view'[a].since = mem'.version[a] => view'[a].desired = Desired(mem', a)
  <2>1. CASE view'[a] = view[a]
    BY <1>3, <2>1
  <2>2. CASE view'[a] # view[a]
    <3>1. PICK b \in Agent :
             \/ view' = [view EXCEPT ![b] = [since |-> 0, desired |-> {}]]
             \/ view' = [view EXCEPT ![b] = [since |-> mem'.version[b], desired |-> Desired(mem', b)]]
      BY <1>6, <2>2
    <3>2. a = b
      BY <1>1, <2>2, <3>1
    <3> QED
      BY <1>4, <1>5, <3>1, <3>2
  <2> QED
    BY <2>1, <2>2
<1> QED
  BY <1>0, <1>2, <1>7 DEF CoherentInv

(* With the JSON store, and however often broker and agents restart, an    *)
(* agent that holds the current assignment version runs exactly the        *)
(* desired state: no change of probes, instances or statuses goes          *)
(* unnumbered, and no version number is used again for another state.      *)
THEOREM CurrentAgentRunsDesired ==
    ASSUME Store = "json"
    PROVE  Spec => []AssignmentsCoherent
<1>1. CoherentInv => AssignmentsCoherent
  BY DEF CoherentInv, AssignmentsCoherent
<1>2. CoherentInv /\ [Next]_vars => CoherentInv'
  BY CoherentNext
<1> QED
  BY <1>1, <1>2, CoherentInit, PTL DEF Spec

-----------------------------------------------------------------------------
(* Ended assignments *)

(* The recorded statuses agree with the history of the probes there are;   *)
(* an id that was never given out has no history to leak into its first    *)
(* probe.                                                                  *)
EndedInv ==
    /\ JsonInv
    /\ mem.probes \subseteq minted
    /\ \A k \in Keys :
          /\ k[1] \in mem.probes => (k \in ended <=> EndsAssignment(mem.native[k].name))
          /\ k[1] \notin minted => k \notin ended /\ ~EndsAssignment(mem.native[k].name)

LEMMA EndedInit == Init => EndedInv
<1> SUFFICES ASSUME Init PROVE EndedInv
  OBVIOUS
<1>1. mem.probes = {} /\ ended = {} /\ \A k \in Keys : mem.native[k] = NoStatus
  BY DEF Init
<1> QED
  BY <1>1, JsonInit, NoStatusType DEF EndedInv

LEMMA EndedNext ==
    ASSUME Store = "json", EndedInv, [Next]_vars
    PROVE  EndedInv'
<1> DEFINE Told(k) == /\ k[1] \in mem.probes => (k \in ended <=> EndsAssignment(mem.native[k].name))
                      /\ k[1] \notin minted => k \notin ended /\ ~EndsAssignment(mem.native[k].name)
<1>0. JsonInv /\ JsonInv' /\ BaseInv /\ JsonDisk(mem, disk, clock)
  BY JsonNext DEF EndedInv, JsonInv
<1>1. mem.probes \subseteq minted /\ \A k \in Keys : Told(k)
  BY DEF EndedInv
<1>2. SUFFICES mem'.probes \subseteq minted' /\ \A k \in Keys : Told(k)'
  BY <1>0 DEF EndedInv
<1>3. ASSUME NEW p \in Probe, Create(p) PROVE mem'.probes \subseteq minted' /\ \A k \in Keys : Told(k)'
  <2>1. mem'.probes = mem.probes \cup {p} /\ mem'.native = mem.native
    BY <1>0, <1>3, CreateEffect
  <2>2. p \notin minted /\ minted' = minted \cup {p} /\ ended' = ended
    BY <1>3 DEF Create
  <2> QED
    BY <1>1, <2>1, <2>2
<1>4. ASSUME NEW p \in Probe, Delete(p) PROVE mem'.probes \subseteq minted' /\ \A k \in Keys : Told(k)'
  <2>1. mem'.probes = mem.probes \ {p} /\ mem'.native = mem.native
    BY <1>0, <1>4, DeleteEffect
  <2>2. minted' = minted /\ ended' = ended
    BY <1>4 DEF Delete
  <2> QED
    BY <1>1, <2>1, <2>2
<1>5. ASSUME NEW a \in Agent, NEW i \in Instances, NEW batch \in Batches, IngestNative(a, i, batch)
      PROVE  mem'.probes \subseteq minted' /\ \A k \in Keys : Told(k)'
  <2>1. minted' = minted
    BY <1>5 DEF IngestNative
  <2>2. CASE UNCHANGED <<mem, disk, ended>>
    BY <1>1, <2>1, <2>2
  <2>3. CASE ~UNCHANGED <<mem, disk, ended>>
    <3>1. /\ mem'.probes = mem.probes /\ mem'.native = NativeAfter(a, i, batch)
          /\ ended' = ended \cup NewlyEnded(a, i, batch)
      BY <1>0, <1>5, <2>3, IngestEffect
    <3>2. ASSUME NEW k \in Keys PROVE Told(k)'
      <4>1. k \in NewlyEnded(a, i, batch) <=> /\ EndsAssignment(mem'.native[k].name)
                                              /\ ~EndsAssignment(mem.native[k].name)
        BY <3>1 DEF NewlyEnded
      <4>2. EndsAssignment(mem.native[k].name) => EndsAssignment(mem'.native[k].name)
        BY <1>0, <3>1, NativeAfterParts
      <4>3. k[1] \notin mem.probes => mem'.native[k] = mem.native[k]
        BY <1>0, <3>1, NativeAfterParts
      <4>4. k \in ended' <=> k \in ended \/ k \in NewlyEnded(a, i, batch)
        BY <3>1
      <4> QED
        BY <1>1, <2>1, <3>1, <4>1, <4>2, <4>3, <4>4
    <3> QED
      BY <1>1, <2>1, <3>1, <3>2
  <2> QED
    BY <2>2, <2>3
<1>6. CASE Restart
  <2>1. /\ disk' = disk \/ Stored(mem, disk')
        /\ mem'.native = disk'.native /\ mem'.probes = disk'.probes
    BY <1>0, <1>6, RestartEffect
  <2>2. minted' = minted /\ ended' = ended
    BY <1>6 DEF Restart
  <2>3. JsonDisk(mem, disk', clock)
    BY <1>0, <2>1, BaseParts, JsonSnapshot DEF Stored
  <2>4. /\ mem'.probes = mem.probes
        /\ \A k \in Keys : /\ mem'.native[k] \in {mem.native[k], NoStatus}
                           /\ k[1] \in mem.probes => mem'.native[k] = mem.native[k]
    BY <2>1, <2>3 DEF JsonDisk
  <2> QED
    BY <1>1, <2>2, <2>4, NoStatusType
<1>7. CASE mem'.probes = mem.probes /\ mem'.native = mem.native /\ UNCHANGED <<minted, ended>>
  BY <1>1, <1>7
<1>8. CASE Expire
  BY <1>0, <1>7, <1>8, ExpireEffect DEF Expire
<1>9. ASSUME NEW a \in Agent, Register(a) \/ Assignments(a) \/ AgentRestart(a)
      PROVE  mem'.probes \subseteq minted' /\ \A k \in Keys : Told(k)'
  <2>1. UNCHANGED <<minted, ended>>
    BY <1>9 DEF Register, Assignments, AgentRestart
  <2>2. mem'.probes = mem.probes /\ mem'.native = mem.native
    BY <1>0, <1>9, RegisterEffect, AssignmentsEffect DEF AgentRestart
  <2> QED
    BY <1>7, <2>1, <2>2
<1>10. ASSUME NEW a \in Agent, NEW S \in InstanceSets, ReplaceInstances(a, S)
       PROVE  mem'.probes \subseteq minted' /\ \A k \in Keys : Told(k)'
  BY <1>0, <1>7, <1>10, ReplaceEffect DEF ReplaceInstances, TakeInstances
<1>11. CASE Tick \/ UNCHANGED vars
  BY <1>7, <1>11 DEF Tick, vars
<1> HIDE DEF Told
<1> QED
  BY <1>3, <1>4, <1>5, <1>6, <1>8, <1>9, <1>10, <1>11 DEF Next

(* With the JSON store, the desired state of an instance is exactly the    *)
(* active probes of its service that have not ended there: a late or       *)
(* repeated report, a restart, a removed and returning instance or another *)
(* instance's status neither resurrects nor ends an assignment.            *)
THEOREM EndedAssignmentsStayEnded ==
    ASSUME Store = "json"
    PROVE  Spec => []EndedExactly
<1>1. EndedInv => EndedExactly
  <2> SUFFICES ASSUME EndedInv, NEW a \in Agent, NEW i \in Instances, i \in mem.inst[a], NEW p \in Probe
               PROVE  <<i, p>> \in Desired(mem, a) <=>
                         /\ p \in mem.probes \ mem.expired
                         /\ SvcOf[p] = InstSvc[i.id] /\ <<p, a, i>> \notin ended
    <3>1. EndedInv => mem.probes \subseteq Probe
      BY BaseParts, RecordParts DEF EndedInv, JsonInv
    <3> QED
      BY <3>1 DEF EndedExactly
  <2>1. <<p, a, i>> \in Keys
    BY DEF Keys
  <2>2. p \in mem.probes => (<<p, a, i>> \in ended <=> EndsAssignment(mem.native[<<p, a, i>>].name))
    BY <2>1 DEF EndedInv
  <2>3. <<i, p>> \in Desired(mem, a) <=>
           /\ p \in mem.probes \ mem.expired
           /\ InstSvc[i.id] = SvcOf[p] /\ ~EndsAssignment(mem.native[<<p, a, i>>].name)
    BY DEF Desired
  <2> QED
    BY <2>2, <2>3
<1>2. EndedInv /\ [Next]_vars => EndedInv'
  BY EndedNext
<1> QED
  BY <1>1, <1>2, EndedInit, PTL DEF Spec
==============================================================================
