------------------------------ MODULE SdkProofs ------------------------------
(***************************************************************************)
(* Proofs about the Node agent: its probes and their breakpoints           *)
(* (SdkProbes), for every set of probes, definitions, scripts and          *)
(* positions and every limit, and what becomes of the events it captures   *)
(* (SdkDelivery), for every number and size of events, every limit of the  *)
(* buffer and every budget.                                                *)
(***************************************************************************)
EXTENDS SdkProbes, SdkDelivery, FiniteSetTheorems, WellFoundedInduction, TLAPS

-----------------------------------------------------------------------------
(* The captures that wait, and whom they count for *)

Hit == [who : SUBSET Probes, fresh : BOOLEAN]
Inst == [def : Defs \cup {None}, bp : Key \cup {None}, hits : Nat, pending : Nat]

Pending(p, cs) == {i \in DOMAIN cs : p \in cs[i].who}

(* The captures but the first. *)
Later(cs) == [i \in 1..(Len(cs) - 1) |-> cs[i + 1]]

(* The places of a sequence of n elements are n. *)
LEMMA FirstPlaces == \A n \in Nat : IsFiniteSet(1..n) /\ Cardinality(1..n) = n
<1> SUFFICES ASSUME NEW n \in Nat
             PROVE  IsFiniteSet(1..n) /\ Cardinality(1..n) = n
  OBVIOUS
<1> QED
  BY FS_Interval, SMTT(60)

LEMMA PendingFinite ==
    ASSUME NEW cs \in Seq(Hit), NEW p
    PROVE  IsFiniteSet(Pending(p, cs)) /\ Cardinality(Pending(p, cs)) \in Nat
<1>1. DOMAIN cs = 1..Len(cs) /\ Len(cs) \in Nat
  OBVIOUS
<1>2. IsFiniteSet(1..Len(cs))
  BY <1>1, FirstPlaces
<1>3. Pending(p, cs) \subseteq 1..Len(cs)
  BY <1>1 DEF Pending
<1>4. IsFiniteSet(Pending(p, cs))
  BY <1>2, <1>3, FS_Subset
<1> QED
  BY <1>4, FS_CardinalityType

(* A function on 1..n is a sequence. *)
LEMMA HitSequence ==
    ASSUME NEW n \in Nat, NEW f, f \in [1..n -> Hit]
    PROVE  f \in Seq(Hit) /\ Len(f) = n /\ DOMAIN f = 1..n
OBVIOUS

LEMMA ForgetHits ==
    ASSUME NEW cs \in Seq(Hit), NEW P
    PROVE  /\ Forget(P, cs) \in Seq(Hit) /\ Len(Forget(P, cs)) = Len(cs)
           /\ \A p : Pending(p, Forget(P, cs)) = IF p \in P THEN {} ELSE Pending(p, cs)
           /\ \A i \in DOMAIN cs : Forget(P, cs)[i].who = cs[i].who \ P
<1>1. DOMAIN cs = 1..Len(cs) /\ Len(cs) \in Nat /\ \A i \in DOMAIN cs : cs[i] \in Hit
  OBVIOUS
<1>2. ASSUME NEW i \in DOMAIN cs
      PROVE  /\ [cs[i] EXCEPT !.who = cs[i].who \ P] \in Hit
             /\ [cs[i] EXCEPT !.who = cs[i].who \ P].who = cs[i].who \ P
  BY <1>1 DEF Hit
<1> DEFINE f == Forget(P, cs)
<1>3. f \in [1..Len(cs) -> Hit] /\ \A i \in DOMAIN cs : f[i].who = cs[i].who \ P
  BY <1>1, <1>2 DEF Forget
<1> HIDE DEF f
<1>4. f \in Seq(Hit) /\ Len(f) = Len(cs) /\ DOMAIN f = DOMAIN cs
  BY <1>1, <1>3, HitSequence
<1>5. \A p : Pending(p, f) = IF p \in P THEN {} ELSE Pending(p, cs)
  BY <1>3, <1>4 DEF Pending
<1> QED
  BY <1>3, <1>4, <1>5 DEF f

LEMMA StaleHits ==
    ASSUME NEW cs \in Seq(Hit)
    PROVE  Stale(cs) \in Seq(Hit) /\ \A p : Pending(p, Stale(cs)) = Pending(p, cs)
<1>1. DOMAIN cs = 1..Len(cs) /\ Len(cs) \in Nat /\ \A i \in DOMAIN cs : cs[i] \in Hit
  OBVIOUS
<1>2. ASSUME NEW i \in DOMAIN cs
      PROVE  /\ [cs[i] EXCEPT !.fresh = FALSE] \in Hit
             /\ [cs[i] EXCEPT !.fresh = FALSE].who = cs[i].who
  BY <1>1 DEF Hit
<1> DEFINE f == Stale(cs)
<1>3. f \in [1..Len(cs) -> Hit] /\ \A i \in DOMAIN cs : f[i].who = cs[i].who
  BY <1>1, <1>2 DEF Stale
<1> HIDE DEF f
<1>4. f \in Seq(Hit) /\ DOMAIN f = DOMAIN cs
  BY <1>1, <1>3, HitSequence
<1>5. \A p : Pending(p, f) = Pending(p, cs)
  BY <1>3, <1>4 DEF Pending
<1> QED
  BY <1>4, <1>5 DEF f

LEMMA AppendHits ==
    ASSUME NEW cs \in Seq(Hit), NEW h \in Hit
    PROVE  /\ Append(cs, h) \in Seq(Hit)
           /\ \A p : Cardinality(Pending(p, Append(cs, h))) =
                       Cardinality(Pending(p, cs)) + IF p \in h.who THEN 1 ELSE 0
<1> DEFINE f == Append(cs, h)
           n == Len(cs) + 1
<1>1. /\ f \in Seq(Hit) /\ DOMAIN cs = 1..Len(cs) /\ Len(cs) \in Nat /\ DOMAIN f = 1..n
      /\ f[n] = h /\ \A i \in DOMAIN cs : f[i] = cs[i]
  OBVIOUS
<1>2. n \notin DOMAIN cs /\ DOMAIN f = DOMAIN cs \cup {n}
  BY <1>1
<1> HIDE DEF f, n
<1>3. ASSUME NEW p PROVE Cardinality(Pending(p, f)) =
                         Cardinality(Pending(p, cs)) + IF p \in h.who THEN 1 ELSE 0
  <2>1. IsFiniteSet(Pending(p, cs)) /\ Cardinality(Pending(p, cs)) \in Nat
    BY PendingFinite
  <2>2. n \notin Pending(p, cs)
    BY <1>2 DEF Pending
  <2>3. CASE p \in h.who
    <3>1. Pending(p, f) = Pending(p, cs) \cup {n}
      BY <1>1, <1>2, <2>3 DEF Pending
    <3>2. Cardinality(Pending(p, cs) \cup {n}) = Cardinality(Pending(p, cs)) + 1
      BY <2>1, <2>2, FS_AddElement
    <3> QED
      BY <2>3, <3>1, <3>2
  <2>4. CASE p \notin h.who
    <3>1. Pending(p, f) = Pending(p, cs)
      BY <1>1, <1>2, <2>4 DEF Pending
    <3> QED
      BY <2>1, <2>4, <3>1
  <2> QED
    BY <2>3, <2>4
<1> QED
  BY <1>1, <1>3 DEF f

LEMMA LaterHits ==
    ASSUME NEW cs \in Seq(Hit), cs # <<>>
    PROVE  /\ Later(cs) \in Seq(Hit)
           /\ \A p : Cardinality(Pending(p, cs)) =
                       Cardinality(Pending(p, Later(cs))) + IF p \in cs[1].who THEN 1 ELSE 0
<1> DEFINE f == Later(cs)
           n == Len(cs) - 1
<1>1. /\ DOMAIN cs = 1..(n + 1) /\ n \in Nat /\ \A i \in DOMAIN cs : cs[i] \in Hit
  OBVIOUS
<1>2. f \in [1..n -> Hit] /\ \A i \in 1..n : f[i] = cs[i + 1]
  BY <1>1 DEF Later
<1> HIDE DEF f, n
<1>3. f \in Seq(Hit) /\ DOMAIN f = 1..n
  BY <1>1, <1>2, HitSequence
<1>4. ASSUME NEW p PROVE Cardinality(Pending(p, cs)) =
                         Cardinality(Pending(p, f)) + IF p \in cs[1].who THEN 1 ELSE 0
  <2> DEFINE S == Pending(p, f)
             T == Pending(p, cs) \ {1}
             shift == [i \in S |-> i + 1]
  <2>1. S \subseteq 1..n /\ T \subseteq 2..(n + 1)
    BY <1>1, <1>3 DEF Pending
  <2>2. \A i \in S : i + 1 \in T
    BY <1>1, <1>2, <1>3 DEF Pending
  <2>3. \A j \in T : j - 1 \in S /\ (j - 1) + 1 = j
    <3>1. ASSUME NEW j \in T PROVE j - 1 \in S /\ (j - 1) + 1 = j
      <4>1. j - 1 \in 1..n /\ (j - 1) + 1 = j
        BY <1>1, <2>1
      <4>2. f[j - 1] = cs[j]
        BY <1>2, <4>1
      <4> QED
        BY <1>3, <4>1, <4>2 DEF Pending
    <3> QED
      BY <3>1
  <2>4. \A i, j \in S : i + 1 = j + 1 => i = j
    BY <1>1, <2>1
  <2>5. IsFiniteSet(S) /\ IsFiniteSet(Pending(p, cs)) /\ Cardinality(S) \in Nat
    BY <1>3, PendingFinite
  <2> HIDE DEF S, T
  <2>6. shift \in Bijection(S, T)
    <3>1. shift \in [S -> T]
      BY <2>2
    <3>2. \A i, j \in S : shift[i] = shift[j] => i = j
      BY <2>4
    <3>3. \A j \in T : \E i \in S : shift[i] = j
      BY <2>3
    <3> HIDE DEF shift
    <3> QED
      BY <3>1, <3>2, <3>3 DEF Bijection, Injection, Surjection, IsInjective
  <2>7. ExistsBijection(S, T)
    BY <2>6 DEF ExistsBijection
  <2>8. IsFiniteSet(T) /\ Cardinality(T) = Cardinality(S)
    BY <2>5, <2>7, FS_Bijection
  <2>9. 1 \in DOMAIN cs
    BY <1>1
  <2>10. CASE p \in cs[1].who
    <3>1. Pending(p, cs) = T \cup {1} /\ 1 \notin T
      BY <2>9, <2>10 DEF Pending, T
    <3>2. Cardinality(T \cup {1}) = Cardinality(T) + 1
      BY <2>8, <3>1, FS_AddElement
    <3> QED
      BY <2>8, <2>10, <3>1, <3>2 DEF S
  <2>11. CASE p \notin cs[1].who
    <3>1. Pending(p, cs) = T
      BY <2>11 DEF Pending, T
    <3> QED
      BY <2>5, <2>8, <2>11, <3>1 DEF S
  <2> QED
    BY <2>10, <2>11
<1> QED
  BY <1>3, <1>4 DEF f

-----------------------------------------------------------------------------
(* The hits of every probe *)

(* What is known of probe p and its hits. *)
HitsOf(p) ==
    /\ installed[p].pending = Cardinality(Pending(p, captures))
    /\ Installed(p) => /\ installed[p].bp \in Key
                       /\ installed[p].hits + installed[p].pending <= Def[installed[p].def].limit
    /\ ~Installed(p) => installed[p] = Absent

HitInv ==
    /\ installed \in [Probes -> Inst]
    /\ captures \in Seq(Hit)
    /\ \A p \in Probes : HitsOf(p)

LEMMA AbsentType == Absent \in Inst /\ Absent.def = None /\ Absent.pending = 0 /\ Absent.hits = 0
BY DEF Absent, Inst

LEMMA LimitType == ASSUME NEW d \in Defs PROVE Def[d].limit \in Nat /\ d # None
BY DefAssumption

(* The probes of P, and no others, are no longer installed. *)
Shrinks(P) ==
    \A p \in Probes : /\ Installed(p)' <=> (Installed(p) /\ p \notin P)
                      /\ p \notin P => /\ installed'[p].def = installed[p].def
                                       /\ installed'[p].bp = installed[p].bp

(* The probes of P are taken off, and their captures count for nothing. *)
LEMMA TakenOff ==
    ASSUME HitInv, NEW P, installed' = [p \in Probes |-> IF p \in P THEN Absent ELSE installed[p]],
           captures' \in Seq(Hit),
           \A p : Pending(p, captures') = IF p \in P THEN {} ELSE Pending(p, captures)
    PROVE  HitInv' /\ Shrinks(P)
<1>0. Shrinks(P)
  BY AbsentType DEF Shrinks, Installed
<1>1. installed' \in [Probes -> Inst]
  BY AbsentType DEF HitInv
<1>2. ASSUME NEW p \in Probes PROVE HitsOf(p)'
  <2>1. HitsOf(p)
    BY DEF HitInv
  <2>2. CASE p \in P
    <3>1. installed'[p] = Absent /\ Cardinality(Pending(p, captures')) = 0
      BY <2>2, FS_EmptySet
    <3> QED
      BY <3>1, AbsentType DEF HitsOf, Installed
  <2>3. CASE p \notin P
    <3>1. installed'[p] = installed[p] /\ Pending(p, captures') = Pending(p, captures)
      BY <2>3
    <3> QED
      BY <2>1, <3>1 DEF HitsOf, Installed
  <2> QED
    BY <2>2, <2>3
<1> QED
  BY <1>0, <1>1, <1>2 DEF HitInv

(* A claimed probe becomes an installed one, without hits. *)
LEMMA PutOn ==
    ASSUME HitInv, NEW p \in Probes, ~Installed(p), NEW d \in Defs, NEW k \in Key,
           installed' = [installed EXCEPT ![p] = [def |-> d, bp |-> k, hits |-> 0, pending |-> 0]],
           UNCHANGED captures
    PROVE  HitInv'
<1> DEFINE new == [def |-> d, bp |-> k, hits |-> 0, pending |-> 0]
<1>1. new \in Inst /\ new.def = d /\ new.bp = k /\ new.hits = 0 /\ new.pending = 0
  BY DEF Inst
<1>2. installed' = [installed EXCEPT ![p] = new]
  OBVIOUS
<1> HIDE DEF new
<1>3. installed' \in [Probes -> Inst]
  BY <1>1, <1>2 DEF HitInv
<1>4. ASSUME NEW q \in Probes PROVE HitsOf(q)'
  <2>1. HitsOf(q)
    BY DEF HitInv
  <2>2. CASE q = p
    <3>1. installed'[p] = new
      BY <1>2 DEF HitInv
    <3>2. Cardinality(Pending(p, captures')) = 0
      BY <2>1, <2>2, AbsentType DEF HitsOf
    <3>3. Def[d].limit \in Nat /\ d # None
      BY LimitType
    <3> QED
      BY <1>1, <2>2, <3>1, <3>2, <3>3 DEF HitsOf, Installed
  <2>3. CASE q # p
    <3>1. installed'[q] = installed[q]
      BY <1>2, <2>3 DEF HitInv
    <3> QED
      BY <2>1, <3>1 DEF HitsOf, Installed
  <2> QED
    BY <2>2, <2>3
<1> QED
  BY <1>3, <1>4 DEF HitInv

(* The numbers of an installed probe change. *)
Counted(r, h, n) == [r EXCEPT !.hits = h, !.pending = n]

LEMMA CountedType ==
    ASSUME NEW r \in Inst, NEW h \in Nat, NEW n \in Nat
    PROVE  /\ Counted(r, h, n) \in Inst
           /\ Counted(r, h, n).def = r.def /\ Counted(r, h, n).bp = r.bp
           /\ Counted(r, h, n).hits = h /\ Counted(r, h, n).pending = n
BY DEF Counted, Inst

(* The probes of P reach their limit and are taken off; the others have    *)
(* h[p] hits and n[p] on their way, of which one or none is new.           *)
RecountedTo(P, h, n) ==
    /\ installed' = [p \in Probes |-> IF p \in P THEN Absent
                                      ELSE Counted(installed[p], h[p], n[p])]
    /\ captures' \in Seq(Hit)
    /\ \A p \in Probes : Cardinality(Pending(p, captures')) = IF p \in P THEN 0 ELSE n[p]
    /\ \A p \in Probes \ P :
          \/ h[p] = installed[p].hits /\ n[p] = installed[p].pending
          \/ Installed(p) /\ h[p] + n[p] <= Def[installed[p].def].limit

LEMMA Recounted ==
    ASSUME HitInv, NEW P, NEW h \in [Probes -> Nat], NEW n \in [Probes -> Nat],
           RecountedTo(P, h, n)
    PROVE  HitInv' /\ Shrinks(P)
<1>0. ASSUME NEW p \in Probes
      PROVE  /\ Counted(installed[p], h[p], n[p]) \in Inst
             /\ Counted(installed[p], h[p], n[p]).def = installed[p].def
             /\ Counted(installed[p], h[p], n[p]).bp = installed[p].bp
             /\ Counted(installed[p], h[p], n[p]).hits = h[p]
             /\ Counted(installed[p], h[p], n[p]).pending = n[p]
  <2> DEFINE x == installed[p]
             a == h[p]
             b == n[p]
  <2>1. x \in Inst /\ a \in Nat /\ b \in Nat
    BY DEF HitInv
  <2> HIDE DEF x, a, b
  <2>2. /\ Counted(x, a, b) \in Inst
        /\ Counted(x, a, b).def = x.def /\ Counted(x, a, b).bp = x.bp
        /\ Counted(x, a, b).hits = a /\ Counted(x, a, b).pending = b
    BY <2>1, CountedType
  <2> QED
    BY <2>2 DEF x, a, b
<1>1. installed' \in [Probes -> Inst]
  BY <1>0, AbsentType DEF RecountedTo
<1>2. ASSUME NEW p \in Probes PROVE HitsOf(p)'
  <2>1. HitsOf(p) /\ installed[p] \in Inst
    BY DEF HitInv
  <2>2. CASE p \in P
    <3>1. installed'[p] = Absent /\ Cardinality(Pending(p, captures')) = 0
      BY <2>2 DEF RecountedTo
    <3> QED
      BY <3>1, AbsentType DEF HitsOf, Installed
  <2>3. CASE p \notin P
    <3> DEFINE r == Counted(installed[p], h[p], n[p])
    <3>1. /\ installed'[p] = r /\ Cardinality(Pending(p, captures')) = n[p]
          /\ r \in Inst /\ r.def = installed[p].def /\ r.bp = installed[p].bp
          /\ r.hits = h[p] /\ r.pending = n[p]
      <4>1. installed'[p] = r /\ Cardinality(Pending(p, captures')) = n[p]
        BY <2>3 DEF RecountedTo
      <4>4. /\ r \in Inst /\ r.def = installed[p].def /\ r.bp = installed[p].bp
            /\ r.hits = h[p] /\ r.pending = n[p]
        BY <1>0
      <4> HIDE DEF r
      <4> QED
        BY <4>1, <4>4
    <3>2. CASE h[p] = installed[p].hits /\ n[p] = installed[p].pending
      <4>1. r = installed[p]
        BY <2>1, <3>2 DEF Counted, Inst
      <4> HIDE DEF r
      <4> QED
        BY <2>1, <3>1, <4>1 DEF HitsOf, Installed
    <3>3. CASE Installed(p) /\ h[p] + n[p] <= Def[installed[p].def].limit
      <4> HIDE DEF r
      <4> QED
        BY <2>1, <3>1, <3>3 DEF HitsOf, Installed
    <3> QED
      BY <2>3, <3>2, <3>3 DEF RecountedTo
  <2> QED
    BY <2>2, <2>3
<1>3. ASSUME NEW p \in Probes
      PROVE  /\ Installed(p)' <=> (Installed(p) /\ p \notin P)
             /\ p \notin P => /\ installed'[p].def = installed[p].def
                              /\ installed'[p].bp = installed[p].bp
  <2>1. CASE p \in P
    <3>1. installed'[p] = Absent
      BY <2>1 DEF RecountedTo
    <3> QED
      BY <2>1, <3>1, AbsentType DEF Installed
  <2>2. CASE p \notin P
    <3>1. installed'[p] = Counted(installed[p], h[p], n[p])
      BY <2>2 DEF RecountedTo
    <3> QED
      BY <1>0, <2>2, <3>1 DEF Installed
  <2> QED
    BY <2>1, <2>2
<1> QED
  BY <1>1, <1>2, <1>3 DEF HitInv, RecountedTo, Shrinks

LEMMA CountedSame ==
    ASSUME NEW r \in Inst, NEW h \in Nat, NEW n \in Nat
    PROVE  /\ Counted(r, r.hits, r.pending) = r
           /\ Counted(r, r.hits, n) = [r EXCEPT !.pending = n]
           /\ Counted(r, h, r.pending) = [r EXCEPT !.hits = h]
           /\ Counted(r, h, n) = [[r EXCEPT !.pending = n] EXCEPT !.hits = h]
           /\ [r EXCEPT !.pending = n].hits = r.hits
BY DEF Counted, Inst

LEMMA PauseCapturedHits ==
    ASSUME HitInv, NEW k \in Key, holders[k].claims \subseteq Probes, PauseCaptured(k)
    PROVE  HitInv' /\ Shrinks({})
<1> DEFINE who == Candidates(k)
           h == [p \in Probes |-> installed[p].hits]
           n == [p \in Probes |-> IF p \in who THEN installed[p].pending + 1
                                  ELSE installed[p].pending]
           c == [who |-> who, fresh |-> TRUE]
           none == {}
<1>1. /\ installed' = [p \in Probes |-> IF p \in who
                                         THEN [installed[p] EXCEPT !.pending = installed[p].pending + 1]
                                         ELSE installed[p]]
      /\ captures' = Append(captures, c)
  BY DEF PauseCaptured
<1>2. \A p \in Probes : installed[p] \in Inst /\ installed[p].hits \in Nat
                        /\ installed[p].pending \in Nat /\ HitsOf(p)
  BY DEF HitInv, Inst
<1>3. /\ who \subseteq Probes
      /\ \A p \in who : /\ Installed(p)
                        /\ installed[p].hits + installed[p].pending < Def[installed[p].def].limit
  BY DEF Candidates
<1> HIDE DEF who
<1>4. h \in [Probes -> Nat] /\ n \in [Probes -> Nat]
  BY <1>2
<1>5. c \in Hit /\ c.who = who
  BY <1>3 DEF Hit
<1> HIDE DEF c
<1>6. /\ captures' \in Seq(Hit)
      /\ \A p : Cardinality(Pending(p, captures')) =
                   Cardinality(Pending(p, captures)) + IF p \in who THEN 1 ELSE 0
  BY <1>1, <1>5, AppendHits DEF HitInv
<1>7. ASSUME NEW p \in Probes
      PROVE  Cardinality(Pending(p, captures')) = IF p \in none THEN 0 ELSE n[p]
  <2>1. installed[p].pending = Cardinality(Pending(p, captures))
    BY <1>2 DEF HitsOf
  <2> QED
    BY <1>2, <1>6, <2>1
<1>8. ASSUME NEW p \in Probes \ none
      PROVE  \/ h[p] = installed[p].hits /\ n[p] = installed[p].pending
             \/ Installed(p) /\ h[p] + n[p] <= Def[installed[p].def].limit
  <2>1. CASE p \in who
    <3>1. installed[p].def \in Defs
      BY <1>2, <1>3, <2>1 DEF Inst, Installed
    <3>2. Def[installed[p].def].limit \in Nat
      BY <3>1, LimitType
    <3>3. installed[p].hits + (installed[p].pending + 1) <= Def[installed[p].def].limit
      BY <1>2, <1>3, <2>1, <3>2
    <3> QED
      BY <1>3, <2>1, <3>3
  <2>2. CASE p \notin who
    BY <2>2
  <2> QED
    BY <2>1, <2>2
<1>9. installed' = [p \in Probes |-> IF p \in none THEN Absent ELSE Counted(installed[p], h[p], n[p])]
  <2>1. ASSUME NEW p \in Probes
        PROVE  Counted(installed[p], h[p], n[p]) =
                  IF p \in who THEN [installed[p] EXCEPT !.pending = installed[p].pending + 1]
                  ELSE installed[p]
    <3>1. installed[p] \in Inst /\ installed[p].pending + 1 \in Nat
      BY <1>2
    <3> QED
      BY <3>1, CountedSame
  <2> QED
    BY <1>1, <2>1
<1> HIDE DEF h, n, none
<1>10. RecountedTo(none, h, n)
  BY <1>6, <1>7, <1>8, <1>9 DEF RecountedTo
<1> QED
  BY <1>4, <1>10, Recounted DEF none

(* Hits of hit are counted, and fewer captures wait for the probes of who: *)
(* whoever is then at its limit goes.                                      *)
Recount(who, hit) ==
    [p \in Probes |->
        Counted(installed[p], IF p \in hit THEN installed[p].hits + 1 ELSE installed[p].hits,
                              IF p \in who THEN installed[p].pending - 1 ELSE installed[p].pending)]

LEMMA HitsCounted ==
    ASSUME HitInv, NEW who \in SUBSET Probes, NEW hit \in SUBSET Probes,
           \A p \in who : installed[p].pending > 0,
           \A p \in hit : Installed(p),
           \A p \in hit \ who : installed[p].hits + installed[p].pending
                                   < Def[installed[p].def].limit,
           NEW over, installed' = [p \in Probes |-> IF p \in over THEN Absent
                                                   ELSE Recount(who, hit)[p]],
           captures' \in Seq(Hit),
           \A p \in Probes : Cardinality(Pending(p, captures')) =
              IF p \in over THEN 0
              ELSE Cardinality(Pending(p, captures)) - (IF p \in who THEN 1 ELSE 0)
    PROVE  HitInv' /\ Shrinks(over)
<1> DEFINE h == [p \in Probes |-> IF p \in hit THEN installed[p].hits + 1 ELSE installed[p].hits]
           n == [p \in Probes |-> IF p \in who THEN installed[p].pending - 1
                                  ELSE installed[p].pending]
<1>1. \A p \in Probes : installed[p] \in Inst /\ installed[p].hits \in Nat
                        /\ installed[p].pending \in Nat /\ HitsOf(p)
  BY DEF HitInv, Inst
<1>2. h \in [Probes -> Nat] /\ n \in [Probes -> Nat]
  BY <1>1
<1>3. installed' = [p \in Probes |-> IF p \in over THEN Absent
                                     ELSE Counted(installed[p], h[p], n[p])]
  BY DEF Recount
<1>4. ASSUME NEW p \in Probes
      PROVE  Cardinality(Pending(p, captures')) = IF p \in over THEN 0 ELSE n[p]
  <2>1. installed[p].pending = Cardinality(Pending(p, captures)) /\ installed[p].pending \in Nat
    BY <1>1 DEF HitsOf
  <2>2. CASE p \in over
    BY <2>2
  <2>3. CASE p \notin over
    <3>1. Cardinality(Pending(p, captures')) =
             installed[p].pending - (IF p \in who THEN 1 ELSE 0)
      BY <2>1, <2>3
    <3> QED
      BY <2>1, <2>3, <3>1
  <2> QED
    BY <2>2, <2>3
<1>5. ASSUME NEW p \in Probes \ over
      PROVE  \/ h[p] = installed[p].hits /\ n[p] = installed[p].pending
             \/ Installed(p) /\ h[p] + n[p] <= Def[installed[p].def].limit
  <2>1. CASE p \notin hit /\ p \notin who
    BY <2>1
  <2>2. CASE p \in hit \/ p \in who
    <3>1. Installed(p)
      <4>1. p \in who => installed[p].pending # 0
        BY <1>1
      <4>2. ~Installed(p) => installed[p].pending = 0
        BY <1>1, AbsentType DEF HitsOf
      <4> QED
        BY <2>2, <4>1, <4>2, Zenon
    <3>2. installed[p].def \in Defs
      BY <1>1, <3>1 DEF Inst, Installed
    <3>3. /\ Def[installed[p].def].limit \in Nat
          /\ installed[p].hits + installed[p].pending <= Def[installed[p].def].limit
      BY <1>1, <3>1, <3>2, LimitType DEF HitsOf
    <3>4. /\ h[p] \in {installed[p].hits, installed[p].hits + 1}
          /\ p \notin hit => h[p] = installed[p].hits
          /\ p \in who => n[p] = installed[p].pending - 1
          /\ p \notin who => n[p] = installed[p].pending
      OBVIOUS
    <3>5. p \in hit /\ p \notin who =>
             installed[p].hits + installed[p].pending < Def[installed[p].def].limit
      OBVIOUS
    <3>6. installed[p].hits \in Nat /\ installed[p].pending \in Nat
      BY <1>1
    <3> HIDE DEF h, n
    <3> QED
      BY <2>2, <3>1, <3>3, <3>4, <3>5, <3>6
  <2> QED
    BY <2>1, <2>2
<1> HIDE DEF h, n
<1>6. RecountedTo(over, h, n)
  BY <1>3, <1>4, <1>5 DEF RecountedTo
<1> QED
  BY <1>2, <1>6, Recounted

(* The probes of P, all of breakpoint k, have reached their limit. *)
Retired(k, P) ==
    /\ P \in SUBSET Probes /\ Shrinks(P)
    /\ Unclaim(k, P)
    /\ posted' = IF P # {} /\ LastClaim(k, P)
                 THEN Append(posted, Command("remove", k, "retire")) ELSE posted
    /\ exhausted' \in [Probes -> Defs \cup {None}]

(* handlePaused above the rate. *)
LEMMA PauseOverBudgetHits ==
    ASSUME HitInv, exhausted \in [Probes -> Defs \cup {None}],
           NEW k \in Key, holders[k].claims \subseteq Probes, PauseOverBudget(k)
    PROVE  /\ HitInv'
           /\ \E over \in SUBSET Candidates(k) :
                 Retired(k, over) /\ captures' = Forget(over, captures)
<1> DEFINE counted == {p \in Candidates(k) : Def[installed[p].def].bare}
           inst == [p \in Probes |-> IF p \in counted
                                     THEN [installed[p] EXCEPT !.hits = installed[p].hits + 1]
                                     ELSE installed[p]]
           over == AtLimit(counted, inst)
           none == {}
<1>1. /\ installed' = [p \in Probes |-> IF p \in over THEN Absent ELSE inst[p]]
      /\ captures' = Forget(over, captures)
      /\ Unclaim(k, over)
      /\ posted' = IF over # {} /\ LastClaim(k, over)
                   THEN Append(posted, Command("remove", k, "retire")) ELSE posted
      /\ exhausted' = [p \in Probes |-> IF p \in over THEN inst[p].def ELSE exhausted[p]]
  BY DEF PauseOverBudget, Retire
<1>2. /\ counted \in SUBSET Probes
      /\ \A p \in counted : /\ Installed(p)
                            /\ installed[p].hits + installed[p].pending
                                  < Def[installed[p].def].limit
  BY DEF Candidates
<1>3. \A p \in Probes : installed[p] \in Inst /\ installed[p].hits + 1 \in Nat
                        /\ installed[p].pending \in Nat
  BY DEF HitInv, Inst
<1>0. over \in SUBSET Probes /\ over \in SUBSET Candidates(k)
  BY DEF AtLimit, Candidates
<1> HIDE DEF counted, over
<1>4. ASSUME NEW p \in Probes PROVE inst[p] = Recount(none, counted)[p]
  <2> DEFINE x == installed[p]
  <2>1. x \in Inst /\ x.hits + 1 \in Nat /\ x.pending \in Nat
    BY <1>3
  <2>2. inst[p] = IF p \in counted THEN [x EXCEPT !.hits = x.hits + 1] ELSE x
    OBVIOUS
  <2>3. Recount(none, counted)[p] =
           Counted(x, IF p \in counted THEN x.hits + 1 ELSE x.hits, x.pending)
    BY DEF Recount
  <2> HIDE DEF x, inst
  <2> QED
    BY <2>1, <2>2, <2>3, CountedSame
<1>5. installed' = [p \in Probes |-> IF p \in over THEN Absent ELSE Recount(none, counted)[p]]
  BY <1>1, <1>4
<1>6. /\ captures' \in Seq(Hit)
      /\ \A p : Pending(p, captures') = IF p \in over THEN {} ELSE Pending(p, captures)
  BY <1>1, ForgetHits DEF HitInv
<1>7. ASSUME NEW p \in Probes
      PROVE  Cardinality(Pending(p, captures')) =
                IF p \in over THEN 0
                ELSE Cardinality(Pending(p, captures)) - (IF p \in none THEN 1 ELSE 0)
  <2>1. Cardinality(Pending(p, captures)) \in Nat
    BY PendingFinite DEF HitInv
  <2>2. CASE p \in over
    BY <1>6, <2>2, FS_EmptySet
  <2>3. CASE p \notin over
    BY <1>6, <2>1, <2>3
  <2> QED
    BY <2>2, <2>3
<1>8. none \in SUBSET Probes /\ \A p \in none : installed[p].pending > 0
  OBVIOUS
<1> HIDE DEF none
<1>9. HitInv' /\ Shrinks(over)
  BY <1>2, <1>5, <1>6, <1>7, <1>8, HitsCounted
<1>10. \A p \in Probes : inst[p].def \in Defs \cup {None}
  BY <1>3 DEF Inst
<1> HIDE DEF inst
<1>11. exhausted' \in [Probes -> Defs \cup {None}]
  BY <1>1, <1>10
<1> QED
  BY <1>0, <1>1, <1>9, <1>11 DEF Retired

(* #resumeAndProcess, for the oldest capture. *)
LEMMA ProcessHits ==
    ASSUME HitInv, exhausted \in [Probes -> Defs \cup {None}], Process
    PROVE  /\ HitInv'
           /\ \E over \in SUBSET captures[1].who :
                 /\ captures' = Later(Forget(over, captures))
                 /\ \/ /\ over = {} /\ Shrinks(over)
                       /\ UNCHANGED <<exhausted, holders, byLocation, posted>>
                    \/ \E p \in over : Retired(installed[p].bp, over)
<1> DEFINE c == Head(captures)
           less == [p \in Probes |-> IF p \in c.who
                                     THEN [installed[p] EXCEPT !.pending = installed[p].pending - 1]
                                     ELSE installed[p]]
           inst(hit) == [p \in Probes |-> IF p \in hit
                                          THEN [less[p] EXCEPT !.hits = less[p].hits + 1]
                                          ELSE less[p]]
<1>1. captures # <<>> /\ captures \in Seq(Hit) /\ c = captures[1] /\ 1 \in DOMAIN captures
      /\ c \in Hit
  <2>1. captures # <<>>
    BY Zenon DEF Process
  <2>2. captures \in Seq(Hit)
    BY DEF HitInv
  <2> QED
    BY <2>1, <2>2
<1>2. PICK hit \in SUBSET c.who :
         LET over == AtLimit(hit, inst(hit)) IN
         /\ installed' = [p \in Probes |-> IF p \in over THEN Absent ELSE inst(hit)[p]]
         /\ captures' = Later(Forget(over, captures))
         /\ \/ over = {} /\ UNCHANGED <<exhausted, holders, byLocation, posted>>
            \/ /\ over # {}
               /\ Retire(installed[CHOOSE p \in over : TRUE].bp, over, inst(hit))
  <2>1. PICK hit \in SUBSET c.who :
           LET over == AtLimit(hit, inst(hit)) IN
           /\ IF over = {}
              THEN installed' = inst(hit) /\ UNCHANGED <<exhausted, holders, byLocation, posted>>
              ELSE Retire(installed[CHOOSE p \in over : TRUE].bp, over, inst(hit))
           /\ captures' = [i \in 1..(Len(captures) - 1) |-> Forget(over, captures)[i + 1]]
    BY Zenon DEF Process
  <2> DEFINE over == AtLimit(hit, inst(hit))
  <2>2. Len(Forget(over, captures)) = Len(captures)
    BY <1>1, ForgetHits
  <2>3. captures' = Later(Forget(over, captures))
    BY <2>1, <2>2 DEF Later
  <2>4. installed' = [p \in Probes |-> IF p \in over THEN Absent ELSE inst(hit)[p]]
    <3> HIDE DEF over
    <3>1. CASE over = {}
      <4>1. installed' = inst(hit)
        BY <2>1, <3>1 DEF over
      <4> QED
        BY <3>1, <4>1
    <3>2. CASE over # {}
      BY <2>1, <3>2 DEF over, Retire
    <3> QED
      BY <3>1, <3>2
  <2> QED
    BY <2>1, <2>3, <2>4
<1> DEFINE who == c.who
           over == AtLimit(hit, inst(hit))
<1>3. who \in SUBSET Probes /\ hit \in SUBSET Probes /\ hit \subseteq who
  BY <1>1 DEF Hit
<1>4. ASSUME NEW p \in Probes
      PROVE  /\ installed[p] \in Inst /\ installed[p].hits + 1 \in Nat /\ installed[p].hits \in Nat
             /\ installed[p].pending \in Nat
             /\ p \in who => installed[p].pending > 0 /\ Installed(p)
  <2>1. installed[p] \in Inst /\ HitsOf(p) /\ installed[p].hits \in Nat
        /\ installed[p].pending \in Nat
    BY DEF HitInv, Inst
  <2>2. ASSUME p \in who PROVE installed[p].pending > 0
    <3>1. Cardinality(Pending(p, captures)) =
             Cardinality(Pending(p, Later(captures))) + (IF p \in captures[1].who THEN 1 ELSE 0)
          /\ Later(captures) \in Seq(Hit)
      BY <1>1, LaterHits
    <3>2. Cardinality(Pending(p, Later(captures))) \in Nat
      BY <3>1, PendingFinite
    <3> QED
      BY <1>1, <2>1, <2>2, <3>1, <3>2 DEF HitsOf
  <2> QED
    BY <2>1, <2>2, AbsentType DEF HitsOf
<1> HIDE DEF over, who
<1>5. ASSUME NEW p \in Probes PROVE inst(hit)[p] = Recount(who, hit)[p]
  <2> DEFINE x == installed[p]
             y == [x EXCEPT !.pending = x.pending - 1]
  <2>1. x \in Inst /\ x.hits + 1 \in Nat /\ x.hits \in Nat /\ x.pending \in Nat
        /\ (p \in who => x.pending - 1 \in Nat)
    BY <1>4
  <2>2. /\ p \in who /\ p \in hit => inst(hit)[p] = [y EXCEPT !.hits = y.hits + 1]
        /\ p \in who /\ p \notin hit => inst(hit)[p] = y
        /\ p \notin who => inst(hit)[p] = x
    BY <1>3 DEF who
  <2>3. Recount(who, hit)[p] = Counted(x, IF p \in hit THEN x.hits + 1 ELSE x.hits,
                                          IF p \in who THEN x.pending - 1 ELSE x.pending)
    BY DEF Recount
  <2> HIDE DEF x, inst
  <2>4. CASE p \in who
    <3>1. y.hits = x.hits /\ Counted(x, x.hits, x.pending - 1) = y
          /\ Counted(x, x.hits + 1, x.pending - 1) = [y EXCEPT !.hits = x.hits + 1]
      <4> DEFINE g == x.hits + 1
                 m == x.pending - 1
      <4>1. g \in Nat /\ m \in Nat
        BY <2>1, <2>4
      <4> HIDE DEF g, m
      <4>2. /\ Counted(x, x.hits, m) = [x EXCEPT !.pending = m]
            /\ Counted(x, g, m) = [[x EXCEPT !.pending = m] EXCEPT !.hits = g]
            /\ [x EXCEPT !.pending = m].hits = x.hits
        BY <2>1, <4>1 DEF Counted, Inst
      <4> QED
        BY <4>2 DEF g, m
    <3> HIDE DEF y
    <3> QED
      BY <2>2, <2>3, <2>4, <3>1
  <2>5. CASE p \notin who
    BY <1>3, <2>1, <2>2, <2>3, <2>5, CountedSame
  <2> QED
    BY <2>4, <2>5
<1>6. installed' = [p \in Probes |-> IF p \in over THEN Absent ELSE Recount(who, hit)[p]]
      /\ captures' = Later(Forget(over, captures))
  BY <1>2, <1>5 DEF over
<1> DEFINE f == Forget(over, captures)
<1>7. f \in Seq(Hit) /\ f # <<>> /\ f[1].who = who \ over
      /\ \A p : Pending(p, f) = IF p \in over THEN {} ELSE Pending(p, captures)
  <2>1. /\ f \in Seq(Hit) /\ Len(f) = Len(captures) /\ f[1].who = captures[1].who \ over
        /\ \A p : Pending(p, f) = IF p \in over THEN {} ELSE Pending(p, captures)
    BY <1>1, ForgetHits
  <2> HIDE DEF f
  <2>2. f # <<>>
    BY <1>1, <2>1
  <2> QED
    BY <1>1, <2>1, <2>2 DEF who
<1> HIDE DEF f
<1>8. /\ captures' \in Seq(Hit)
      /\ \A p : Cardinality(Pending(p, f)) =
                   Cardinality(Pending(p, captures')) + IF p \in f[1].who THEN 1 ELSE 0
  BY <1>6, <1>7, LaterHits DEF f
<1>9. ASSUME NEW p \in Probes
      PROVE  Cardinality(Pending(p, captures')) =
                IF p \in over THEN 0
                ELSE Cardinality(Pending(p, captures)) - (IF p \in who THEN 1 ELSE 0)
  <2>1. Cardinality(Pending(p, captures')) \in Nat
    BY <1>8, PendingFinite
  <2>2. CASE p \in over
    <3>1. Cardinality(Pending(p, f)) = 0 /\ p \notin f[1].who
      BY <1>7, <2>2, FS_EmptySet
    <3> QED
      BY <1>8, <2>1, <2>2, <3>1
  <2>3. CASE p \notin over
    <3>1. Pending(p, f) = Pending(p, captures) /\ (p \in f[1].who <=> p \in who)
      BY <1>7, <2>3
    <3> QED
      BY <1>8, <2>1, <2>3, <3>1
  <2> QED
    BY <2>2, <2>3
<1>10. /\ \A p \in who : installed[p].pending > 0
       /\ \A p \in hit : Installed(p) /\ p \in who
  BY <1>3, <1>4
<1>11. HitInv' /\ Shrinks(over)
  BY <1>3, <1>6, <1>8, <1>9, <1>10, HitsCounted
<1>12. over \in SUBSET hit /\ over \in SUBSET captures[1].who /\ over \in SUBSET Probes
  BY <1>1, <1>3 DEF over, AtLimit
<1>13. CASE over = {} /\ UNCHANGED <<exhausted, holders, byLocation, posted>>
  BY <1>6, <1>11, <1>12, <1>13
<1>14. CASE over # {} /\ Retire(installed[CHOOSE p \in over : TRUE].bp, over, inst(hit))
  <2> DEFINE q == CHOOSE p \in over : TRUE
             k == installed[q].bp
             new == inst(hit)
  <2>1. q \in over
    BY <1>14
  <2>2. \A p \in Probes : new[p].def \in Defs \cup {None}
    <3>1. ASSUME NEW p \in Probes PROVE new[p].def \in Defs \cup {None}
      <4> DEFINE x == installed[p]
                 g == IF p \in hit THEN x.hits + 1 ELSE x.hits
                 m == IF p \in who THEN x.pending - 1 ELSE x.pending
      <4>1. new[p] = Counted(x, g, m)
        BY <1>5 DEF Recount
      <4>2. x \in Inst /\ g \in Nat /\ m \in Nat
        BY <1>4
      <4> HIDE DEF x, g, m, new
      <4>3. Counted(x, g, m).def = x.def
        BY <4>2, CountedType
      <4> QED
        BY <4>1, <4>2, <4>3 DEF Inst
    <3> QED
      BY <3>1
  <2> HIDE DEF new
  <2>3. /\ Unclaim(k, over)
        /\ posted' = IF over # {} /\ LastClaim(k, over)
                     THEN Append(posted, Command("remove", k, "retire")) ELSE posted
        /\ exhausted' = [p \in Probes |-> IF p \in over THEN new[p].def ELSE exhausted[p]]
    BY <1>14 DEF Retire, new
  <2>4. exhausted' \in [Probes -> Defs \cup {None}]
    BY <2>2, <2>3
  <2> HIDE DEF q, k
  <2>5. Retired(k, over)
    BY <1>11, <1>12, <2>3, <2>4 DEF Retired
  <2>6. \E p \in over : Retired(installed[p].bp, over)
    BY <2>1, <2>5 DEF k
  <2> QED
    BY <1>6, <1>11, <1>12, <2>6
<1> QED
  BY <1>2, <1>13, <1>14 DEF over

-----------------------------------------------------------------------------
(* The registry of breakpoints *)

Holder == [keys : SUBSET Key, claims : SUBSET Probes]
InUse == {k \in Key : Registered(k)}

RegInv ==
    /\ holders \in [Key -> Holder]
    /\ byLocation \in [Key -> Key \cup {None}]
    /\ IsFiniteSet(InUse)

LEMMA NobodyType == Nobody \in Holder /\ Nobody.keys = {}
BY DEF Nobody, Holder

LEMMA UnclaimRegistry ==
    ASSUME RegInv, NEW k \in Key, NEW P, Unclaim(k, P)
    PROVE  RegInv'
<1> DEFINE h == [holders[k] EXCEPT !.claims = holders[k].claims \ P]
<1>1. holders[k] \in Holder
  BY DEF RegInv
<1>2. h \in Holder /\ h.keys = holders[k].keys
  BY <1>1 DEF Holder
<1>3. \/ holders' = [holders EXCEPT ![k] = Nobody]
      \/ holders' = [holders EXCEPT ![k] = h]
  BY DEF Unclaim
<1> HIDE DEF h
<1>4. /\ holders' \in [Key -> Holder]
      /\ \A l \in Key : holders'[l].keys # {} => holders[l].keys # {}
  BY <1>1, <1>2, <1>3, NobodyType DEF RegInv
<1>5. byLocation' \in [Key -> Key \cup {None}]
  BY DEF RegInv, Unclaim
<1>6. InUse' \subseteq InUse
  BY <1>4 DEF InUse, Registered
<1>7. IsFiniteSet(InUse')
  BY <1>6, FS_Subset DEF RegInv
<1> QED
  BY <1>4, <1>5, <1>7 DEF RegInv

LEMMA RegisterRegistry ==
    ASSUME RegInv, NEW k \in Key, NEW p \in Probes, Register(k, p)
    PROVE  RegInv'
<1> DEFINE resolved == <<k[1], Snap[k[2]]>>
           keys == {k} \cup {l \in {resolved} : byLocation[l] = None}
           h == [keys |-> keys, claims |-> {p}]
<1>1. resolved \in Key
  BY V8Assumption DEF Key
<1>2. /\ holders' = [holders EXCEPT ![k] = h]
      /\ byLocation' = [l \in Key |-> IF l \in keys THEN k ELSE byLocation[l]]
  BY DEF Register
<1>3. h \in Holder
  BY <1>1 DEF Holder
<1> HIDE DEF h, keys
<1>4. holders' \in [Key -> Holder] /\ byLocation' \in [Key -> Key \cup {None}]
  BY <1>2, <1>3 DEF RegInv
<1>5. InUse' \subseteq InUse \cup {k}
  BY <1>2 DEF InUse, Registered, RegInv
<1>6. IsFiniteSet(InUse \cup {k})
  BY FS_AddElement DEF RegInv
<1>7. IsFiniteSet(InUse')
  BY <1>5, <1>6, FS_Subset
<1> QED
  BY <1>4, <1>7 DEF RegInv

LEMMA ClearedRegistry ==
    ASSUME ClearRegistry
    PROVE  RegInv'
<1>1. holders' \in [Key -> Holder] /\ byLocation' \in [Key -> Key \cup {None}]
  BY NobodyType DEF ClearRegistry
<1>2. InUse' = {}
  BY NobodyType DEF ClearRegistry, InUse, Registered
<1>3. IsFiniteSet(InUse')
  BY <1>2, FS_EmptySet
<1> QED
  BY <1>1, <1>3 DEF RegInv

(* acquireBreakpoint: a probe joins those who hold the breakpoint. *)
LEMMA JoinedRegistry ==
    ASSUME RegInv, NEW k \in Key, NEW p \in Probes,
           holders' = [holders EXCEPT ![k] = [holders[k] EXCEPT !.claims = holders[k].claims \cup {p}]],
           UNCHANGED byLocation
    PROVE  RegInv'
<1> DEFINE h == [holders[k] EXCEPT !.claims = holders[k].claims \cup {p}]
<1>1. holders[k] \in Holder
  BY DEF RegInv
<1>2. h \in Holder /\ h.keys = holders[k].keys
  BY <1>1 DEF Holder
<1>3. holders' = [holders EXCEPT ![k] = h]
  OBVIOUS
<1> HIDE DEF h
<1>4. /\ holders' \in [Key -> Holder]
      /\ \A l \in Key : holders'[l].keys = holders[l].keys
  BY <1>1, <1>2, <1>3 DEF RegInv
<1>5. InUse' = InUse
  BY <1>4 DEF InUse, Registered
<1> QED
  BY <1>4, <1>5 DEF RegInv

LEMMA SameRegistry ==
    ASSUME RegInv, UNCHANGED <<holders, byLocation>>
    PROVE  RegInv'
BY DEF RegInv, InUse, Registered

-----------------------------------------------------------------------------
(* Commands to the inspector, and who awaits their answer *)

Others == {"reconcile", "retire", "suspend", "stop"}
Cmd == [op : {"set", "remove"}, key : Key, by : Probes \cup Others]

Owes(ps, q) == \E i \in DOMAIN ps : ps[i].by = q

(* A probe awaits at most one answer, and its arm says which. *)
Expected(c, as) ==
    /\ c.op = "set" => c.by \in Probes
    /\ c.by \in Probes =>
          IF c.op = "set" THEN as[c.by].pc = "setting"
          ELSE as[c.by].pc \in {"clearing", "releasing"}

Awaited(ps, as) ==
    /\ ps \in Seq(Cmd)
    /\ \A i \in DOMAIN ps : Expected(ps[i], as)
    /\ \A i, j \in DOMAIN ps : (ps[i].by \in Probes /\ ps[i].by = ps[j].by) => i = j

LEMMA CommandType ==
    ASSUME NEW op \in {"set", "remove"}, NEW k \in Key, NEW by \in Probes \cup Others
    PROVE  /\ Command(op, k, by) \in Cmd /\ Command(op, k, by).op = op
           /\ Command(op, k, by).by = by /\ Command(op, k, by).key = k
BY DEF Command, Cmd

LEMMA OthersApart == \A x \in Others : x \notin Probes
BY DefAssumption DEF Others

(* Whoever is owed an answer is waiting for one. *)
LEMMA OwedWaits ==
    ASSUME NEW ps, NEW as, Awaited(ps, as), NEW q \in Probes, Owes(ps, q)
    PROVE  as[q].pc \in {"setting", "clearing", "releasing"}
BY DEF Awaited, Owes, Expected

LEMMA PostAwaited ==
    ASSUME NEW ps, NEW as, Awaited(ps, as), NEW c \in Cmd, NEW bs, Expected(c, bs),
           c.by \in Probes => ~Owes(ps, c.by),
           \A q \in Probes : Owes(ps, q) => bs[q].pc = as[q].pc
    PROVE  Awaited(Append(ps, c), bs)
<1> DEFINE f == Append(ps, c)
           n == Len(ps) + 1
<1>1. /\ f \in Seq(Cmd) /\ DOMAIN f = DOMAIN ps \cup {n} /\ n \notin DOMAIN ps
      /\ f[n] = c /\ \A i \in DOMAIN ps : f[i] = ps[i]
  BY DEF Awaited
<1> HIDE DEF f, n
<1>2. ASSUME NEW i \in DOMAIN ps PROVE Expected(ps[i], bs)
  BY DEF Awaited, Expected, Owes
<1>3. \A i \in DOMAIN f : Expected(f[i], bs)
  BY <1>1, <1>2
<1>4. \A i, j \in DOMAIN f : (f[i].by \in Probes /\ f[i].by = f[j].by) => i = j
  BY <1>1 DEF Awaited, Owes
<1> QED
  BY <1>1, <1>3, <1>4 DEF Awaited, f

LEMMA TakeAwaited ==
    ASSUME NEW ps, NEW as, Awaited(ps, as), ps # <<>>, NEW bs,
           \A q \in Probes : (Owes(ps, q) /\ q # Head(ps).by) => bs[q].pc = as[q].pc
    PROVE  /\ Awaited(Tail(ps), bs) /\ Head(ps) \in Cmd /\ Expected(Head(ps), as)
           /\ Head(ps).by \in Probes => ~Owes(Tail(ps), Head(ps).by) /\ Owes(ps, Head(ps).by)
           /\ \A q : Owes(Tail(ps), q) => Owes(ps, q)
<1> DEFINE f == Tail(ps)
           n == Len(ps) - 1
<1>1. /\ f \in Seq(Cmd) /\ DOMAIN f = 1..n /\ DOMAIN ps = 1..(n + 1) /\ n \in Nat
      /\ \A i \in 1..n : f[i] = ps[i + 1]
      /\ Head(ps) = ps[1] /\ ps[1] \in Cmd
  BY DEF Awaited
<1> HIDE DEF f, n
<1>2. /\ 1 \in DOMAIN ps
      /\ \A i \in DOMAIN f : i + 1 \in DOMAIN ps /\ i + 1 # 1 /\ f[i] = ps[i + 1] /\ i \in Nat
  BY <1>1
<1>3. \A q : Owes(f, q) => Owes(ps, q)
  BY <1>2 DEF Owes
<1>4. Expected(ps[1], as) /\ (ps[1].by \in Probes => ~Owes(f, ps[1].by) /\ Owes(ps, ps[1].by))
  BY <1>2 DEF Awaited, Owes
<1>5. ASSUME NEW i \in DOMAIN f PROVE Expected(f[i], bs)
  <2>1. f[i] = ps[i + 1] /\ Expected(ps[i + 1], as)
    BY <1>2 DEF Awaited
  <2>2. f[i].by \in Probes => Owes(ps, f[i].by) /\ f[i].by # Head(ps).by
    BY <1>1, <1>2 DEF Awaited, Owes
  <2> QED
    BY <2>1, <2>2 DEF Expected
<1>6. ASSUME NEW i \in DOMAIN f, NEW j \in DOMAIN f, f[i].by \in Probes, f[i].by = f[j].by
      PROVE  i = j
  <2>1. i + 1 = j + 1
    BY <1>2, <1>6 DEF Awaited
  <2> QED
    BY <1>2, <2>1
<1> QED
  BY <1>1, <1>3, <1>4, <1>5, <1>6 DEF Awaited, f

-----------------------------------------------------------------------------
(* The arms under way *)

Arm == [pc : {"idle", "waiting", "woken", "setting", "clearing", "claimed", "releasing"},
        def : Defs \cup {None}, key : Key \cup {None},
        bp : Key \cup {None}, on : Probes \cup {None}]

(* An arm that can still go on knows its definition and location, and one  *)
(* that has claimed a breakpoint knows which.                              *)
ArmWell(a) ==
    /\ a \in Arm
    /\ a.pc \in {"waiting", "woken", "setting", "claimed"} => a.def \in Defs /\ a.key \in Key
    /\ a.pc = "claimed" => a.bp \in Key

ArmsWell(as) == as \in [Probes -> Arm] /\ \A p \in Probes : ArmWell(as[p])

LEMMA NoArmType == ArmWell(NoArm) /\ NoArm \in Arm /\ NoArm.pc = "idle"
BY DEF NoArm, ArmWell, Arm

(* The arms that acquireBreakpoint() leaves behind. *)
LEMMA NewArms ==
    ASSUME NEW d \in Defs, NEW k \in Key
    PROVE  /\ ArmWell([NoArm EXCEPT !.pc = "setting", !.def = d, !.key = k])
           /\ [NoArm EXCEPT !.pc = "setting", !.def = d, !.key = k].pc = "setting"
           /\ \A b \in Key :
                 /\ ArmWell([NoArm EXCEPT !.pc = "claimed", !.def = d, !.key = k, !.bp = b])
                 /\ [NoArm EXCEPT !.pc = "claimed", !.def = d, !.key = k, !.bp = b].pc = "claimed"
                 /\ [NoArm EXCEPT !.pc = "claimed", !.def = d, !.key = k, !.bp = b].bp = b
           /\ \A o \in Probes :
                 /\ ArmWell([NoArm EXCEPT !.pc = "waiting", !.def = d, !.key = k, !.on = o])
                 /\ [NoArm EXCEPT !.pc = "waiting", !.def = d, !.key = k, !.on = o].pc = "waiting"
BY NoArmType DEF ArmWell, Arm

(* The arm goes on to another stage. *)
LEMMA StageType ==
    ASSUME NEW a, ArmWell(a), NEW pc \in {"clearing", "releasing"}
    PROVE  ArmWell([a EXCEPT !.pc = pc]) /\ [a EXCEPT !.pc = pc].pc = pc
BY DEF ArmWell, Arm

LEMMA ClaimedType ==
    ASSUME NEW a, ArmWell(a), a.pc = "setting", NEW k \in Key
    PROVE  /\ ArmWell([a EXCEPT !.pc = "claimed", !.bp = k])
           /\ [a EXCEPT !.pc = "claimed", !.bp = k].pc = "claimed"
BY DEF ArmWell, Arm

LEMMA PutArm ==
    ASSUME NEW as, ArmsWell(as), NEW p \in Probes, NEW a, ArmWell(a)
    PROVE  /\ ArmsWell([as EXCEPT ![p] = a]) /\ [as EXCEPT ![p] = a][p] = a
           /\ \A q \in Probes : q # p => [as EXCEPT ![p] = a][q] = as[q]
<1>1. a \in Arm
  BY DEF ArmWell
<1> QED
  BY <1>1 DEF ArmsWell

(* Arms outside S stay as they were, or wake up. *)
MayWake(as, bs, S) ==
    \A q \in Probes \ S : bs[q] = as[q] \/ (as[q].pc = "waiting" /\ bs[q].pc = "woken")

LEMMA WakeArms ==
    ASSUME NEW as, NEW p, ArmsWell(as)
    PROVE  ArmsWell(Wake(p, as)) /\ MayWake(as, Wake(p, as), {})
<1> DEFINE w(q) == [as[q] EXCEPT !.pc = "woken", !.on = None]
<1>1. ASSUME NEW q \in Probes, as[q].pc = "waiting"
      PROVE  ArmWell(w(q)) /\ w(q).pc = "woken"
  <2>1. ArmWell(as[q])
    BY DEF ArmsWell
  <2> QED
    BY <1>1, <2>1 DEF ArmWell, Arm
<1>2. Wake(p, as) = [q \in Probes |-> IF as[q].pc = "waiting" /\ as[q].on = p
                                      THEN w(q) ELSE as[q]]
  BY DEF Wake
<1>3. ASSUME NEW q \in Probes
      PROVE  /\ ArmWell(Wake(p, as)[q])
             /\ \/ Wake(p, as)[q] = as[q]
                \/ as[q].pc = "waiting" /\ Wake(p, as)[q].pc = "woken"
  <2>1. ArmWell(as[q])
    BY DEF ArmsWell
  <2> HIDE DEF w
  <2>2. CASE as[q].pc = "waiting" /\ as[q].on = p
    BY <1>1, <1>2, <2>2
  <2>3. CASE ~(as[q].pc = "waiting" /\ as[q].on = p)
    BY <1>2, <2>1, <2>3
  <2> QED
    BY <2>2, <2>3
<1>4. Wake(p, as) \in [Probes -> Arm]
  <2>1. \A q \in Probes : Wake(p, as)[q] \in Arm
    BY <1>3 DEF ArmWell
  <2>2. Wake(p, as) = [q \in Probes |-> Wake(p, as)[q]]
    BY DEF Wake
  <2> QED
    BY <2>1, <2>2
<1> QED
  BY <1>3, <1>4 DEF ArmsWell, MayWake

-----------------------------------------------------------------------------
(* The inductive invariant, and that every step keeps it *)

Modes == [suspended : BOOLEAN, failed : BOOLEAN, stop : {"running", "stopping", "stopped"}]
Recs == [pc : {"idle", "resumed", "awaiting"}, next : [Probes -> Defs \cup {None}],
         todo : SUBSET (Probes \X Key)]

(* The parts of the state that no other part depends on for its type. *)
PlainInv ==
    /\ loaded \subseteq Scripts /\ live \subseteq Key /\ dropping \subseteq Key
    /\ desired \in [Probes -> Defs \cup {None}]
    /\ exhausted \in [Probes -> Defs \cup {None}]
    /\ arming \in [Key -> Probes \cup {None}]
    /\ tokens \in 0..Rate
    /\ mode \in Modes
    /\ rec \in Recs

(* No probe is installed while it is being armed. *)
IdleArms == \A p \in Probes : arms[p].pc # "idle" => ~Installed(p)

ProbesInv ==
    /\ PlainInv
    /\ HitInv
    /\ RegInv
    /\ ArmsWell(arms)
    /\ IdleArms
    /\ Awaited(posted, arms)

LEMMA SameHits ==
    ASSUME HitInv, UNCHANGED <<installed, captures>>
    PROVE  HitInv' /\ Shrinks({})
BY DEF HitInv, HitsOf, Installed, Shrinks

LEMMA ShrunkArms ==
    ASSUME IdleArms, NEW P, Shrinks(P), UNCHANGED arms
    PROVE  IdleArms'
BY DEF IdleArms, Shrinks

(* resolveBySuffix finds a loaded script, or none. *)
LEMMA ResolveType ==
    ASSUME loaded \subseteq Scripts, NEW d
    PROVE  resolveBySuffix(d) \in Scripts \cup {None}
<1> DEFINE matches == loaded \cap Def[d].scripts
           best == {s \in matches : \A t \in matches : PathLen[s] <= PathLen[t]}
<1>1. resolveBySuffix(d) = IF Cardinality(best) = 1 THEN CHOOSE s \in best : TRUE ELSE None
  BY DEF resolveBySuffix
<1>2. best \subseteq Scripts
  OBVIOUS
<1> HIDE DEF best
<1>3. CASE Cardinality(best) = 1
  <2>1. best # {}
    BY <1>3, FS_EmptySet
  <2>2. (CHOOSE s \in best : TRUE) \in best
    BY <2>1
  <2> QED
    BY <1>1, <1>2, <1>3, <2>2
<1>4. CASE Cardinality(best) # 1
  BY <1>1, <1>4
<1> QED
  BY <1>3, <1>4

(* Somebody who is not owed an answer posts a command, or changes its arm. *)
LEMMA ArmPosts ==
    ASSUME ArmsWell(arms), Awaited(posted, arms), NEW p \in Probes,
           arms[p].pc \notin {"setting", "clearing", "releasing"},
           NEW a, ArmWell(a), NEW op \in {"set", "remove"}, NEW k \in Key,
           op = "set" => a.pc = "setting",
           op = "remove" => a.pc \in {"clearing", "releasing"}
    PROVE  /\ ArmsWell([arms EXCEPT ![p] = a])
           /\ Awaited(Append(posted, Command(op, k, p)), [arms EXCEPT ![p] = a])
<1> DEFINE bs == [arms EXCEPT ![p] = a]
           c == Command(op, k, p)
<1>1. ArmsWell(bs) /\ bs[p] = a /\ \A q \in Probes : q # p => bs[q] = arms[q]
  BY PutArm
<1>2. c \in Cmd /\ c.op = op /\ c.by = p
  BY CommandType
<1> HIDE DEF bs, c
<1>3. ~Owes(posted, p)
  BY OwedWaits
<1>4. Expected(c, bs)
  BY <1>1, <1>2 DEF Expected
<1>5. \A q \in Probes : Owes(posted, q) => bs[q].pc = arms[q].pc
  BY <1>1, <1>3
<1>6. Awaited(Append(posted, c), bs)
  BY <1>2, <1>3, <1>4, <1>5, PostAwaited
<1> QED
  BY <1>1, <1>6 DEF bs, c

LEMMA ArmMoves ==
    ASSUME ArmsWell(arms), Awaited(posted, arms), NEW p \in Probes,
           arms[p].pc \notin {"setting", "clearing", "releasing"}, NEW a, ArmWell(a)
    PROVE  ArmsWell([arms EXCEPT ![p] = a]) /\ Awaited(posted, [arms EXCEPT ![p] = a])
<1> DEFINE bs == [arms EXCEPT ![p] = a]
<1>1. ArmsWell(bs) /\ bs[p] = a /\ \A q \in Probes : q # p => bs[q] = arms[q]
  BY PutArm
<1> HIDE DEF bs
<1>2. ~Owes(posted, p)
  BY OwedWaits
<1>3. Awaited(posted, bs)
  BY <1>1, <1>2 DEF Awaited, Owes, Expected
<1> QED
  BY <1>1, <1>3 DEF bs

(* Only a probe that is not installed has a new arm. *)
LEMMA IdleKept ==
    ASSUME IdleArms, ArmsWell(arms), NEW p \in Probes, ~Installed(p),
           NEW a, arms' = [arms EXCEPT ![p] = a], UNCHANGED installed
    PROVE  IdleArms'
<1>1. \A q \in Probes : q # p => arms'[q] = arms[q]
  BY DEF ArmsWell
<1>2. \A q \in Probes : Installed(q)' <=> Installed(q)
  BY DEF Installed
<1> QED
  BY <1>1, <1>2 DEF IdleArms

(* acquireBreakpoint: the breakpoint is shared ... *)
LEMMA ClaimKeeps ==
    ASSUME ProbesInv, NEW p \in Probes, ~Installed(p),
           arms[p].pc \notin {"setting", "clearing", "releasing"},
           NEW d \in Defs, NEW k \in Key, byLocation[k] # None, Claim(p, d, k),
           UNCHANGED <<loaded, desired, installed, exhausted, byLocation, live, dropping,
                       rec, captures, tokens, mode, posted, arming>>
    PROVE  ProbesInv'
<1> DEFINE b == byLocation[k]
           a == [NoArm EXCEPT !.pc = "claimed", !.def = d, !.key = k, !.bp = b]
<1>1. b \in Key
  BY DEF ProbesInv, RegInv
<1>2. /\ holders' = [holders EXCEPT ![b] = [holders[b] EXCEPT !.claims = holders[b].claims \cup {p}]]
      /\ arms' = [arms EXCEPT ![p] = a]
  BY DEF Claim
<1> HIDE DEF b
<1>3. ArmWell(a)
  BY <1>1, NewArms, ZenonT(60)
<1> HIDE DEF a
<1>4. RegInv'
  BY <1>1, <1>2, JoinedRegistry DEF ProbesInv
<1>5. ArmsWell(arms') /\ Awaited(posted', arms')
  BY <1>2, <1>3, ArmMoves DEF ProbesInv
<1>6. IdleArms'
  BY <1>2, IdleKept DEF ProbesInv
<1>7. HitInv'
  BY SameHits DEF ProbesInv
<1> QED
  BY <1>4, <1>5, <1>6, <1>7 DEF ProbesInv, PlainInv

(* ... or the inspector is asked for it. *)
LEMMA AttemptKeeps ==
    ASSUME ProbesInv, NEW p \in Probes, ~Installed(p),
           arms[p].pc \notin {"setting", "clearing", "releasing"},
           NEW d \in Defs, NEW k \in Key, Attempt(p, d, k),
           UNCHANGED <<loaded, desired, installed, exhausted, byLocation, live, dropping,
                       rec, captures, tokens, mode, holders>>
    PROVE  ProbesInv'
<1> DEFINE a == [NoArm EXCEPT !.pc = "setting", !.def = d, !.key = k]
<1>1. /\ posted' = Append(posted, Command("set", k, p))
      /\ arms' = [arms EXCEPT ![p] = a]
      /\ arming' = [arming EXCEPT ![k] = p]
  BY DEF Attempt
<1>2. ArmWell(a)
  BY NewArms, ZenonT(60)
<1>7. a.pc = "setting"
  BY NoArmType DEF Arm
<1> HIDE DEF a
<1>3. ArmsWell(arms') /\ Awaited(posted', arms')
  BY <1>1, <1>2, <1>7, ArmPosts DEF ProbesInv
<1>4. IdleArms'
  BY <1>1, IdleKept DEF ProbesInv
<1>5. HitInv' /\ RegInv'
  BY SameHits, SameRegistry DEF ProbesInv
<1>6. arming' \in [Key -> Probes \cup {None}]
  BY <1>1 DEF ProbesInv, PlainInv
<1> QED
  BY <1>3, <1>4, <1>5, <1>6 DEF ProbesInv, PlainInv

LEMMA EnsureArmedKeeps ==
    ASSUME ProbesInv, NEW p \in Probes, EnsureArmed(p)
    PROVE  ProbesInv'
<1> DEFINE d == desired[p]
           s == resolveBySuffix(d)
           k == <<s, Def[d].pos>>
<1>1. /\ d # None /\ ~Installed(p) /\ arms[p].pc = "idle" /\ s # None
      /\ UNCHANGED <<loaded, desired, installed, exhausted, byLocation, live,
                     dropping, rec, captures, tokens, mode>>
  BY DEF EnsureArmed
<1>2. d \in Defs
  BY <1>1 DEF ProbesInv, PlainInv
<1>3. s \in Scripts
  BY <1>1, ResolveType DEF ProbesInv, PlainInv
<1>4. Def[d].pos \in Positions
  BY <1>2, DefAssumption
<1>5. k \in Key
  BY <1>3, <1>4 DEF Key
<1>6. \/ /\ byLocation[k] # None
         /\ Claim(p, d, k)
         /\ UNCHANGED <<posted, arming>>
      \/ /\ byLocation[k] = None /\ arming[k] # None
         /\ arms' = [arms EXCEPT ![p] = [NoArm EXCEPT !.pc = "waiting", !.def = d,
                                                      !.key = k, !.on = arming[k]]]
         /\ UNCHANGED <<holders, posted, arming>>
      \/ /\ byLocation[k] = None /\ arming[k] = None
         /\ Attempt(p, d, k)
         /\ UNCHANGED holders
  BY DEF EnsureArmed
<1> HIDE DEF d, s, k
<1>7. CASE /\ byLocation[k] # None
           /\ Claim(p, d, k)
           /\ UNCHANGED <<posted, arming>>
  BY <1>1, <1>2, <1>5, <1>7, ClaimKeeps
<1>8. CASE /\ byLocation[k] = None /\ arming[k] = None
           /\ Attempt(p, d, k)
           /\ UNCHANGED holders
  BY <1>1, <1>2, <1>5, <1>8, AttemptKeeps
<1>9. CASE /\ byLocation[k] = None /\ arming[k] # None
           /\ arms' = [arms EXCEPT ![p] = [NoArm EXCEPT !.pc = "waiting", !.def = d,
                                                        !.key = k, !.on = arming[k]]]
           /\ UNCHANGED <<holders, posted, arming>>
  <2> DEFINE o == arming[k]
             a == [NoArm EXCEPT !.pc = "waiting", !.def = d, !.key = k, !.on = o]
  <2>1. o \in Probes
    BY <1>5, <1>9 DEF ProbesInv, PlainInv
  <2>2. arms' = [arms EXCEPT ![p] = a] /\ UNCHANGED <<holders, posted, arming>>
    BY <1>9
  <2> HIDE DEF o
  <2>3. ArmWell(a)
    BY <1>2, <1>5, <2>1, NewArms, ZenonT(60)
  <2> HIDE DEF a
  <2>4. ArmsWell(arms') /\ Awaited(posted', arms')
    BY <1>1, <2>2, <2>3, ArmMoves DEF ProbesInv
  <2>5. IdleArms'
    BY <1>1, <2>2, IdleKept DEF ProbesInv
  <2>6. HitInv' /\ RegInv'
    BY <1>1, <1>9, SameHits, SameRegistry DEF ProbesInv
  <2> QED
    BY <1>1, <1>9, <2>4, <2>5, <2>6 DEF ProbesInv, PlainInv
<1> QED
  BY <1>6, <1>7, <1>8, <1>9

LEMMA WaiterResumesKeeps ==
    ASSUME ProbesInv, NEW p \in Probes, WaiterResumes(p)
    PROVE  ProbesInv'
<1> DEFINE d == arms[p].def
           k == arms[p].key
<1>1. ArmWell(arms[p]) /\ arms[p].pc = "woken"
  BY DEF WaiterResumes, ProbesInv, ArmsWell
<1>2. d \in Defs /\ k \in Key
  BY <1>1 DEF ArmWell
<1>3. ~Installed(p)
  BY <1>1 DEF ProbesInv, IdleArms
<1>4. \/ byLocation[k] # None /\ Claim(p, d, k) /\ UNCHANGED <<posted, arming>>
      \/ Attempt(p, d, k) /\ UNCHANGED holders
  BY DEF WaiterResumes
<1>5. UNCHANGED <<loaded, desired, installed, exhausted, byLocation, live, dropping,
                  rec, captures, tokens, mode>>
  BY DEF WaiterResumes
<1> HIDE DEF d, k
<1>6. CASE byLocation[k] # None /\ Claim(p, d, k) /\ UNCHANGED <<posted, arming>>
  BY <1>1, <1>2, <1>3, <1>5, <1>6, ClaimKeeps
<1>7. CASE Attempt(p, d, k) /\ UNCHANGED holders
  BY <1>1, <1>2, <1>3, <1>5, <1>7, AttemptKeeps
<1> QED
  BY <1>4, <1>6, <1>7

LEMMA FinishArmKeeps ==
    ASSUME ProbesInv, NEW p \in Probes, FinishArm(p)
    PROVE  ProbesInv'
<1> DEFINE a == arms[p]
           keep == desired[p] = a.def /\ mode.stop # "stopped" /\ ~mode.suspended
<1>1. /\ a.pc = "claimed"
      /\ UNCHANGED <<loaded, desired, exhausted, arming, live, dropping, rec, captures,
                     tokens, mode>>
  BY DEF FinishArm
<1>2. ArmWell(a)
  BY DEF ProbesInv, ArmsWell
<1>3. a.def \in Defs /\ a.bp \in Key
  BY <1>1, <1>2 DEF ArmWell
<1>4. ~Installed(p)
  BY <1>1 DEF ProbesInv, IdleArms
<1>5. CASE keep
  <2>1. /\ installed' = [installed EXCEPT
                ![p] = [def |-> a.def, bp |-> a.bp, hits |-> 0, pending |-> 0]]
        /\ arms' = [arms EXCEPT ![p] = NoArm]
        /\ UNCHANGED <<holders, byLocation, posted>>
    BY <1>5 DEF FinishArm
  <2> HIDE DEF keep
  <2>2. HitInv' /\ RegInv'
    <3> DEFINE d == a.def
               k == a.bp
    <3>1. d \in Defs /\ k \in Key
      BY <1>3
    <3>2. installed' = [installed EXCEPT ![p] = [def |-> d, bp |-> k, hits |-> 0, pending |-> 0]]
      BY <2>1
    <3> HIDE DEF d, k
    <3>3. HitInv'
      BY <1>1, <1>4, <3>1, <3>2, PutOn DEF ProbesInv
    <3> QED
      BY <2>1, <3>3, SameRegistry DEF ProbesInv
  <2>3. ArmsWell(arms') /\ Awaited(posted', arms')
    BY <1>1, <2>1, NoArmType, ArmMoves DEF ProbesInv
  <2>4. IdleArms'
    <3>1. \A q \in Probes : q # p => arms'[q] = arms[q] /\ installed'[q] = installed[q]
      BY <2>1 DEF ProbesInv, HitInv, ArmsWell
    <3>2. arms'[p].pc = "idle"
      BY <2>1, NoArmType DEF ProbesInv, ArmsWell
    <3> QED
      BY <3>1, <3>2 DEF ProbesInv, IdleArms, Installed
  <2> QED
    BY <1>1, <2>2, <2>3, <2>4 DEF ProbesInv, PlainInv
<1>6. CASE ~keep
  <2>1. /\ Unclaim(a.bp, {p})
        /\ IF LastClaim(a.bp, {p})
           THEN /\ posted' = Append(posted, Command("remove", a.bp, p))
                /\ arms' = [arms EXCEPT ![p] = [a EXCEPT !.pc = "releasing"]]
           ELSE /\ arms' = [arms EXCEPT ![p] = NoArm]
                /\ UNCHANGED posted
        /\ UNCHANGED installed
    BY <1>6 DEF FinishArm
  <2> HIDE DEF keep
  <2> DEFINE k == a.bp
             r == [a EXCEPT !.pc = "releasing"]
  <2>2. k \in Key /\ Unclaim(k, {p})
    BY <1>3, <2>1
  <2>3. ArmWell(r) /\ r.pc = "releasing"
    BY <1>2, StageType
  <2>4. \/ posted' = Append(posted, Command("remove", k, p)) /\ arms' = [arms EXCEPT ![p] = r]
        \/ posted' = posted /\ arms' = [arms EXCEPT ![p] = NoArm]
    BY <2>1
  <2> HIDE DEF k, r
  <2>5. RegInv'
    BY <2>2, UnclaimRegistry DEF ProbesInv
  <2>6. ArmsWell(arms') /\ Awaited(posted', arms')
    <3>1. CASE posted' = Append(posted, Command("remove", k, p)) /\ arms' = [arms EXCEPT ![p] = r]
      BY <1>1, <2>2, <2>3, <3>1, ArmPosts DEF ProbesInv
    <3>2. CASE posted' = posted /\ arms' = [arms EXCEPT ![p] = NoArm]
      BY <1>1, <3>2, NoArmType, ArmMoves DEF ProbesInv
    <3> QED
      BY <2>4, <3>1, <3>2
  <2>7. IdleArms'
    BY <1>4, <2>1, <2>4, IdleKept DEF ProbesInv
  <2>8. HitInv'
    BY <1>1, <2>1, SameHits DEF ProbesInv
  <2> QED
    BY <1>1, <2>5, <2>6, <2>7, <2>8 DEF ProbesInv, PlainInv
<1> QED
  BY <1>5, <1>6

(* The probe goes on with arm a, and wakes those who wait for it or not. *)
LEMMA ArmGoesOn ==
    ASSUME ArmsWell(arms), NEW p \in Probes, NEW a, ArmWell(a), NEW bs,
           bs = [arms EXCEPT ![p] = a] \/ bs = Wake(p, [arms EXCEPT ![p] = a])
    PROVE  /\ ArmsWell(bs) /\ MayWake(arms, bs, {p})
           /\ a.pc # "waiting" => bs[p] = a
<1> DEFINE as == [arms EXCEPT ![p] = a]
<1>1. ArmsWell(as) /\ as[p] = a /\ \A q \in Probes : q # p => as[q] = arms[q]
  BY PutArm
<1>2. bs = as \/ bs = Wake(p, as)
  OBVIOUS
<1> HIDE DEF as
<1>3. ArmsWell(Wake(p, as)) /\ MayWake(as, Wake(p, as), {})
  BY <1>1, WakeArms
<1>4. ArmsWell(bs) /\ MayWake(as, bs, {})
  BY <1>1, <1>2, <1>3 DEF MayWake
<1> QED
  BY <1>1, <1>4 DEF MayWake

(* The oldest command is answered, and the arms that await another answer  *)
(* stay as they are.                                                       *)
LEMMA AnswerTaken ==
    ASSUME Awaited(posted, arms), posted # <<>>, NEW bs,
           MayWake(arms, bs, {Head(posted).by})
    PROVE  /\ Awaited(Tail(posted), bs)
           /\ Head(posted).by \in Probes => ~Owes(Tail(posted), Head(posted).by)
<1>1. \A q \in Probes : (Owes(posted, q) /\ q # Head(posted).by) => bs[q].pc = arms[q].pc
  BY OwedWaits DEF MayWake
<1> QED
  BY <1>1, TakeAwaited

LEMMA IdleAnswered ==
    ASSUME IdleArms, NEW p \in Probes, arms[p].pc # "idle", UNCHANGED installed,
           MayWake(arms, arms', {p})
    PROVE  IdleArms'
BY DEF IdleArms, Installed, MayWake

LEMMA SettledType ==
    ASSUME arming \in [Key -> Probes \cup {None}], NEW p, NEW k \in Key, Settled(p, k)
    PROVE  arming' \in [Key -> Probes \cup {None}]
BY DEF Settled

LEMMA AnswerSetKeeps ==
    ASSUME ProbesInv, AnswerSet
    PROVE  ProbesInv'
<1> DEFINE c == Head(posted)
           p == c.by
           k == c.key
           none == k[2] \in NoCode
<1>1. /\ posted # <<>> /\ c.op = "set"
      /\ UNCHANGED <<loaded, desired, installed, exhausted, dropping, rec, captures,
                     tokens, mode>>
  BY DEF AnswerSet
<1>2. c \in Cmd /\ Expected(c, arms)
  BY <1>1, TakeAwaited DEF ProbesInv
<1>3. p \in Probes /\ k \in Key /\ arms[p].pc = "setting"
  BY <1>1, <1>2 DEF Cmd, Expected
<1>4. ArmWell(arms[p])
  BY <1>3 DEF ProbesInv, ArmsWell
<1>5. \/ /\ arms' = Wake(p, [arms EXCEPT ![p] = NoArm])
         /\ posted' = Tail(posted)
         /\ Settled(p, k)
         /\ UNCHANGED <<holders, byLocation, live>>
      \/ /\ posted' = Append(Tail(posted), Command("remove", k, p))
         /\ arms' = [arms EXCEPT ![p] = [arms[p] EXCEPT !.pc = "clearing"]]
         /\ UNCHANGED <<holders, byLocation, live, arming>>
      \/ /\ live' = live \cup {k}
         /\ Register(k, p)
         /\ arms' = Wake(p, [arms EXCEPT ![p] = [arms[p] EXCEPT !.pc = "claimed", !.bp = k]])
         /\ posted' = Tail(posted)
         /\ Settled(p, k)
  BY DEF AnswerSet
<1>6. HitInv'
  BY <1>1, SameHits DEF ProbesInv
<1> HIDE DEF c, k, none
<1>7. CASE /\ arms' = Wake(p, [arms EXCEPT ![p] = NoArm])
           /\ posted' = Tail(posted)
           /\ Settled(p, k)
           /\ UNCHANGED <<holders, byLocation, live>>
  <2>0. ArmsWell(arms') /\ MayWake(arms, arms', {p})
    <3>1. ArmsWell(arms) /\ arms' = Wake(p, [arms EXCEPT ![p] = NoArm]) /\ p \in Probes
      BY <1>3, <1>7 DEF ProbesInv
    <3> QED
      BY <3>1, NoArmType, ArmGoesOn
  <2>1. Awaited(posted', arms')
    BY <1>1, <1>7, <2>0, AnswerTaken DEF ProbesInv, c
  <2>2. IdleArms'
    BY <1>1, <1>3, <2>0, IdleAnswered DEF ProbesInv
  <2>3. RegInv'
    BY <1>7, SameRegistry DEF ProbesInv
  <2>4. arming' \in [Key -> Probes \cup {None}]
    BY <1>3, <1>7, SettledType DEF ProbesInv, PlainInv
  <2> QED
    BY <1>1, <1>6, <1>7, <2>0, <2>1, <2>2, <2>3, <2>4 DEF ProbesInv, PlainInv
<1>8. CASE /\ posted' = Append(Tail(posted), Command("remove", k, p))
           /\ arms' = [arms EXCEPT ![p] = [arms[p] EXCEPT !.pc = "clearing"]]
           /\ UNCHANGED <<holders, byLocation, live, arming>>
  <2> DEFINE a == [arms[p] EXCEPT !.pc = "clearing"]
             e == Command("remove", k, p)
  <2>1. ArmWell(a) /\ a.pc = "clearing"
    BY <1>4, StageType
  <2>2. e \in Cmd /\ e.op = "remove" /\ e.by = p
    BY <1>3, CommandType
  <2>3. posted' = Append(Tail(posted), e) /\ arms' = [arms EXCEPT ![p] = a]
    BY <1>8
  <2> HIDE DEF a, e
  <2>4. ArmsWell(arms') /\ MayWake(arms, arms', {p}) /\ arms'[p] = a
    <3>1. ArmsWell(arms) /\ arms' = [arms EXCEPT ![p] = a] /\ p \in Probes
      BY <1>3, <2>3 DEF ProbesInv
    <3> QED
      BY <2>1, <3>1, ArmGoesOn
  <2>9. Awaited(Tail(posted), arms') /\ ~Owes(Tail(posted), p)
    BY <1>1, <1>3, <2>4, AnswerTaken DEF ProbesInv, c
  <2>5. Expected(e, arms')
    BY <2>1, <2>2, <2>4 DEF Expected
  <2>6. Awaited(posted', arms')
    BY <2>2, <2>3, <2>9, <2>5, PostAwaited
  <2>7. IdleArms'
    BY <1>1, <1>3, <2>4, IdleAnswered DEF ProbesInv
  <2>8. RegInv'
    BY <1>8, SameRegistry DEF ProbesInv
  <2> QED
    BY <1>1, <1>6, <1>8, <2>4, <2>6, <2>7, <2>8 DEF ProbesInv, PlainInv
<1>9. CASE /\ live' = live \cup {k}
           /\ Register(k, p)
           /\ arms' = Wake(p, [arms EXCEPT ![p] = [arms[p] EXCEPT !.pc = "claimed", !.bp = k]])
           /\ posted' = Tail(posted)
           /\ Settled(p, k)
  <2> DEFINE a == [arms[p] EXCEPT !.pc = "claimed", !.bp = k]
  <2>1. ArmWell(a) /\ a.pc = "claimed"
    BY <1>3, <1>4, ClaimedType
  <2>2. arms' = Wake(p, [arms EXCEPT ![p] = a]) /\ posted' = Tail(posted)
    BY <1>9
  <2> HIDE DEF a
  <2>3. ArmsWell(arms') /\ MayWake(arms, arms', {p})
    <3>1. ArmsWell(arms) /\ arms' = Wake(p, [arms EXCEPT ![p] = a]) /\ p \in Probes
      BY <1>3, <2>2 DEF ProbesInv
    <3> QED
      BY <2>1, <3>1, ArmGoesOn
  <2>9. Awaited(posted', arms')
    BY <1>1, <2>2, <2>3, AnswerTaken DEF ProbesInv, c
  <2>4. IdleArms'
    BY <1>1, <1>3, <2>3, IdleAnswered DEF ProbesInv
  <2>5. RegInv'
    BY <1>3, <1>9, RegisterRegistry DEF ProbesInv
  <2>6. arming' \in [Key -> Probes \cup {None}] /\ live' \subseteq Key
    BY <1>3, <1>9, SettledType DEF ProbesInv, PlainInv
  <2> QED
    BY <1>1, <1>6, <2>3, <2>9, <2>4, <2>5, <2>6 DEF ProbesInv, PlainInv
<1> QED
  BY <1>5, <1>7, <1>8, <1>9

LEMMA AnswerRemoveKeeps ==
    ASSUME ProbesInv, AnswerRemove
    PROVE  ProbesInv'
<1> DEFINE c == Head(posted)
           p == c.by
<1>1. /\ posted # <<>> /\ c.op = "remove" /\ posted' = Tail(posted)
      /\ UNCHANGED <<loaded, desired, installed, exhausted, holders, byLocation, dropping,
                     captures, tokens, mode>>
      /\ live' = live \ {c.key}
  BY DEF AnswerRemove
<1>2. c \in Cmd /\ Expected(c, arms)
  BY <1>1, TakeAwaited DEF ProbesInv
<1>3. HitInv' /\ RegInv'
  BY <1>1, SameHits, SameRegistry DEF ProbesInv
<1>4. rec' \in Recs
  <2> DEFINE r == [rec EXCEPT !.pc = "resumed"]
  <2>1. rec \in Recs
    BY DEF ProbesInv, PlainInv
  <2>2. r \in Recs
    BY <2>1 DEF Recs
  <2>3. rec' = r \/ rec' = rec
    BY DEF AnswerRemove
  <2> HIDE DEF r
  <2> QED
    BY <2>1, <2>2, <2>3
<1>5. CASE p \notin Probes
  <2>1. UNCHANGED <<arms, arming>>
    BY <1>5 DEF AnswerRemove
  <2>2. \A q \in Probes : (Owes(posted, q) /\ q # Head(posted).by) => arms[q].pc = arms[q].pc
    OBVIOUS
  <2>3. Awaited(posted', arms')
    BY <1>1, <2>1, <2>2, TakeAwaited DEF ProbesInv
  <2>4. IdleArms'
    BY <1>1, <2>1 DEF ProbesInv, IdleArms, Installed
  <2> QED
    BY <1>1, <1>3, <1>4, <2>1, <2>3, <2>4 DEF ProbesInv, PlainInv
<1>6. CASE p \in Probes
  <2> DEFINE as == [arms EXCEPT ![p] = NoArm]
  <2>1. arms[p].pc # "idle" /\ c.key \in Key
    BY <1>1, <1>2, <1>6 DEF Expected, Cmd
  <2>2. \/ arms' = Wake(p, as) /\ Settled(p, c.key)
        \/ arms' = as /\ UNCHANGED arming
    BY <1>6 DEF AnswerRemove
  <2> HIDE DEF c
  <2>3. ArmsWell(arms') /\ MayWake(arms, arms', {p})
    <3>1. ArmsWell(arms)
      BY DEF ProbesInv
    <3>2. arms' = [arms EXCEPT ![p] = NoArm] \/ arms' = Wake(p, [arms EXCEPT ![p] = NoArm])
      BY <2>2
    <3> QED
      BY <1>6, <3>1, <3>2, NoArmType, ArmGoesOn
  <2>6. Awaited(posted', arms')
    BY <1>1, <2>3, AnswerTaken DEF ProbesInv, c
  <2>4. IdleArms'
    BY <1>1, <1>6, <2>1, <2>3, IdleAnswered DEF ProbesInv
  <2>5. arming' \in [Key -> Probes \cup {None}]
    BY <2>1, <2>2, SettledType DEF ProbesInv, PlainInv
  <2> QED
    BY <1>1, <1>3, <1>4, <2>3, <2>6, <2>4, <2>5 DEF ProbesInv, PlainInv
<1> QED
  BY <1>5, <1>6

(* A command that no arm awaits. *)
LEMMA OthersPost ==
    ASSUME Awaited(posted, arms), NEW k \in Key, NEW by \in Others
    PROVE  Awaited(Append(posted, Command("remove", k, by)), arms)
<1> DEFINE c == Command("remove", k, by)
<1>1. c \in Cmd /\ c.op = "remove" /\ c.by = by
  BY CommandType
<1>2. c.by \notin Probes
  BY <1>1, OthersApart
<1> HIDE DEF c
<1>3. Expected(c, arms)
  BY <1>1, <1>2 DEF Expected
<1>4. Awaited(Append(posted, c), arms)
  BY <1>1, <1>2, <1>3, PostAwaited
<1> QED
  BY <1>4 DEF c

(* What a round of the loop over the unwanted probes does, without its data. *)
LEMMA UninstallKeeps ==
    ASSUME ProbesInv, NEW next \in [Probes -> Defs \cup {None}],
           NEW todo \in SUBSET (Probes \X Key), NEW cs \in Seq(Hit),
           \A p : Pending(p, cs) = Pending(p, captures),
           UninstallThenReplace(next, todo, cs),
           UNCHANGED <<loaded, arms, arming, live, dropping, tokens, mode>>
    PROVE  ProbesInv'
<1>1. CASE todo # {} /\ Uninstall(next, todo, cs)
  <2>1. PICK u \in todo :
          LET p    == u[1]
              k    == u[2]
              last == LastClaim(k, {p})
          IN
          /\ installed' = [installed EXCEPT ![p] = Absent]
          /\ captures' = Forget({p}, cs)
          /\ Unclaim(k, {p})
          /\ posted' = IF last THEN Append(posted, Command("remove", k, "reconcile"))
                       ELSE posted
          /\ rec' = [pc |-> IF last THEN "awaiting" ELSE "resumed", next |-> next,
                     todo |-> todo \ {u}]
          /\ UNCHANGED <<desired, exhausted>>
    BY <1>1 DEF Uninstall
  <2> DEFINE p == u[1]
             k == u[2]
             P == {p}
  <2>2. p \in Probes /\ k \in Key
    OBVIOUS
  <2>3. /\ installed' = [installed EXCEPT ![p] = Absent]
        /\ captures' = Forget(P, cs) /\ Unclaim(k, P)
        /\ UNCHANGED <<desired, exhausted>>
        /\ posted' = posted \/ posted' = Append(posted, Command("remove", k, "reconcile"))
    BY <2>1
  <2>4. rec' \in Recs
    <3>1. \E pc \in {"awaiting", "resumed"} :
             rec' = [pc |-> pc, next |-> next, todo |-> todo \ {u}]
      BY <2>1
    <3> QED
      BY <3>1 DEF Recs
  <2> HIDE DEF p, k
  <2>5. installed' = [q \in Probes |-> IF q \in P THEN Absent ELSE installed[q]]
    BY <2>2, <2>3 DEF ProbesInv, HitInv
  <2> HIDE DEF P
  <2>6. /\ captures' \in Seq(Hit)
        /\ \A q : Pending(q, captures') = IF q \in P THEN {} ELSE Pending(q, captures)
    BY <2>3, ForgetHits
  <2>7. HitInv' /\ Shrinks(P)
    BY <2>5, <2>6, TakenOff DEF ProbesInv
  <2>8. RegInv'
    BY <2>2, <2>3, UnclaimRegistry DEF ProbesInv
  <2>9. IdleArms'
    BY <2>7, ShrunkArms DEF ProbesInv
  <2>10. Awaited(posted', arms')
    <3>1. "reconcile" \in Others
      BY DEF Others
    <3>2. Awaited(Append(posted, Command("remove", k, "reconcile")), arms)
      BY <2>2, <3>1, OthersPost DEF ProbesInv
    <3> QED
      BY <2>3, <3>2 DEF ProbesInv
  <2> QED
    BY <2>3, <2>4, <2>7, <2>8, <2>9, <2>10 DEF ProbesInv, PlainInv
<1>2. CASE todo = {} /\ ReplaceDesired(next) /\ captures' = cs
  <2>1. /\ desired' = next /\ captures' = cs
        /\ exhausted' = [p \in Probes |-> IF exhausted[p] = next[p] THEN exhausted[p] ELSE None]
        /\ rec' = NoRec
        /\ UNCHANGED <<installed, holders, byLocation, posted>>
    BY <1>2 DEF ReplaceDesired
  <2>2. exhausted' \in [Probes -> Defs \cup {None}]
    BY <2>1 DEF ProbesInv, PlainInv
  <2>3. rec' \in Recs
    BY <2>1 DEF NoRec, Recs
  <2> DEFINE none == {}
  <2>4. installed' = [p \in Probes |-> IF p \in none THEN Absent ELSE installed[p]]
    BY <2>1 DEF ProbesInv, HitInv
  <2>5. \A p : Pending(p, captures') = IF p \in none THEN {} ELSE Pending(p, captures)
    BY <2>1
  <2> HIDE DEF none
  <2>6. HitInv' /\ Shrinks(none)
    BY <2>1, <2>4, <2>5, TakenOff DEF ProbesInv
  <2>7. IdleArms'
    BY <2>6, ShrunkArms DEF ProbesInv
  <2>8. RegInv'
    BY <2>1, SameRegistry DEF ProbesInv
  <2> QED
    BY <2>1, <2>2, <2>3, <2>6, <2>7, <2>8 DEF ProbesInv, PlainInv
<1> QED
  BY <1>1, <1>2 DEF UninstallThenReplace

LEMMA ReconcileKeeps ==
    ASSUME ProbesInv, NEW f \in Feeds, Reconcile(f)
    PROVE  ProbesInv'
<1> DEFINE unwanted == {p \in Probes : Installed(p) /\ installed[p].def # f[p]}
           todo == {<<p, installed[p].bp>> : p \in unwanted}
           cs == IF f # desired THEN Stale(captures) ELSE captures
<1>1. f \in [Probes -> Defs \cup {None}]
  BY DefAssumption
<1>2. \A p \in unwanted : p \in Probes /\ installed[p].bp \in Key
  BY DEF ProbesInv, HitInv, HitsOf
<1>3. UninstallThenReplace(f, todo, cs)
      /\ UNCHANGED <<loaded, arms, arming, live, dropping, tokens, mode>>
  BY DEF Reconcile
<1> HIDE DEF unwanted
<1>4. todo \in SUBSET (Probes \X Key)
  BY <1>2
<1>5. cs \in Seq(Hit) /\ \A p : Pending(p, cs) = Pending(p, captures)
  <2>1. captures \in Seq(Hit)
    BY DEF ProbesInv, HitInv
  <2>2. CASE f # desired
    BY <2>1, <2>2, StaleHits
  <2>3. CASE f = desired
    BY <2>1, <2>3
  <2> QED
    BY <2>2, <2>3
<1> HIDE DEF todo, cs
<1> QED
  BY <1>1, <1>3, <1>4, <1>5, UninstallKeeps

LEMMA ReconcileResumesKeeps ==
    ASSUME ProbesInv, ReconcileResumes
    PROVE  ProbesInv'
<1> DEFINE next == rec.next
           todo == rec.todo
<1>1. next \in [Probes -> Defs \cup {None}] /\ todo \in SUBSET (Probes \X Key)
  BY DEF ProbesInv, PlainInv, Recs
<1>2. UninstallThenReplace(next, todo, captures)
      /\ UNCHANGED <<loaded, arms, arming, live, dropping, tokens, mode>>
  BY DEF ReconcileResumes
<1>3. captures \in Seq(Hit) /\ \A p : Pending(p, captures) = Pending(p, captures)
  BY DEF ProbesInv, HitInv
<1> HIDE DEF next, todo
<1> QED
  BY <1>1, <1>2, <1>3, UninstallKeeps

LEMMA DropNextKeeps ==
    ASSUME ProbesInv, DropNext
    PROVE  ProbesInv'
<1>1. PICK k \in dropping : /\ posted' = Append(posted, Command("remove", k, "suspend"))
                            /\ dropping' = dropping \ {k}
  BY DEF DropNext
<1>2. UNCHANGED <<loaded, desired, installed, exhausted, arms, arming, holders, byLocation,
                  live, rec, captures, tokens, mode>>
  BY DEF DropNext
<1>3. k \in Key /\ "suspend" \in Others
  BY DEF ProbesInv, PlainInv, Others
<1>4. Awaited(posted', arms')
  BY <1>1, <1>2, <1>3, OthersPost DEF ProbesInv
<1>5. HitInv' /\ RegInv'
  BY <1>2, SameHits, SameRegistry DEF ProbesInv
<1>6. IdleArms'
  BY <1>2 DEF ProbesInv, IdleArms, Installed
<1>7. PlainInv'
  BY <1>1, <1>2 DEF ProbesInv, PlainInv
<1> QED
  BY <1>2, <1>4, <1>5, <1>6, <1>7 DEF ProbesInv

(* Steps that only change plain parts of the state. *)
LEMMA PlainStep ==
    ASSUME ProbesInv, PlainInv',
           UNCHANGED <<installed, arms, holders, byLocation, posted, captures>>
    PROVE  ProbesInv'
<1>1. HitInv' /\ RegInv'
  BY SameHits, SameRegistry DEF ProbesInv
<1>2. IdleArms'
  BY DEF ProbesInv, IdleArms, Installed
<1> QED
  BY <1>1, <1>2 DEF ProbesInv

LEMMA PlainStepsKeep ==
    ASSUME ProbesInv,
           (\E s \in Scripts : ScriptParsed(s)) \/ Refill \/ Rearm \/ BeginStop
    PROVE  ProbesInv'
<1>1. CASE \E s \in Scripts : ScriptParsed(s)
  <2>1. PlainInv'
    BY <1>1 DEF ScriptParsed, ProbesInv, PlainInv
  <2> QED
    BY <1>1, <2>1, PlainStep DEF ScriptParsed
<1>2. CASE Refill
  <2>1. tokens' \in 0..Rate
    BY <1>2, BoundsAssumption DEF Refill, ProbesInv, PlainInv
  <2>2. PlainInv'
    BY <1>2, <2>1 DEF Refill, ProbesInv, PlainInv
  <2> QED
    BY <1>2, <2>2, PlainStep DEF Refill
<1>3. CASE Rearm
  <2>1. mode \in Modes /\ mode' = [mode EXCEPT !.suspended = FALSE]
    BY <1>3 DEF Rearm, ProbesInv, PlainInv
  <2>2. mode' \in Modes
    BY <2>1 DEF Modes
  <2>3. PlainInv'
    BY <1>3, <2>2 DEF Rearm, ProbesInv, PlainInv
  <2> QED
    BY <1>3, <2>3, PlainStep DEF Rearm
<1>4. CASE BeginStop
  <2>1. mode \in Modes /\ mode' = [mode EXCEPT !.stop = "stopping"]
    BY <1>4 DEF BeginStop, ProbesInv, PlainInv
  <2>2. mode' \in Modes
    BY <2>1 DEF Modes
  <2>3. PlainInv'
    BY <1>4, <2>2 DEF BeginStop, ProbesInv, PlainInv
  <2> QED
    BY <1>4, <2>3, PlainStep DEF BeginStop
<1> QED
  BY <1>1, <1>2, <1>3, <1>4

LEMMA PauseCapturedKeeps ==
    ASSUME ProbesInv, NEW k \in Key, PauseCaptured(k)
    PROVE  ProbesInv'
<1>1. UNCHANGED <<loaded, desired, exhausted, arms, arming, holders, byLocation, live,
                  posted, dropping, rec, mode>> /\ tokens > 0 /\ tokens' = tokens - 1
  BY DEF PauseCaptured
<1>2. holders[k].claims \subseteq Probes
  BY DEF ProbesInv, RegInv, Holder
<1>3. HitInv' /\ Shrinks({})
  BY <1>2, PauseCapturedHits DEF ProbesInv
<1>4. tokens' \in 0..Rate
  BY <1>1, BoundsAssumption DEF ProbesInv, PlainInv
<1>5. RegInv'
  BY <1>1, SameRegistry DEF ProbesInv
<1>6. IdleArms'
  BY <1>1, <1>3, ShrunkArms DEF ProbesInv
<1> QED
  BY <1>1, <1>3, <1>4, <1>5, <1>6 DEF ProbesInv, PlainInv

(* Probes of breakpoint k are retired. *)
LEMMA RetiredKeeps ==
    ASSUME ProbesInv, HitInv', NEW k \in Key, NEW P, Retired(k, P),
           UNCHANGED <<loaded, desired, arms, arming, live, dropping, rec, tokens, mode>>
    PROVE  ProbesInv'
<1>1. /\ Shrinks(P) /\ Unclaim(k, P)
      /\ exhausted' \in [Probes -> Defs \cup {None}]
      /\ posted' = posted \/ posted' = Append(posted, Command("remove", k, "retire"))
  BY DEF Retired
<1>2. RegInv'
  BY <1>1, UnclaimRegistry DEF ProbesInv
<1>3. IdleArms'
  BY <1>1, ShrunkArms DEF ProbesInv
<1>4. Awaited(posted', arms')
  <2>1. "retire" \in Others
    BY DEF Others
  <2>2. Awaited(Append(posted, Command("remove", k, "retire")), arms)
    BY <2>1, OthersPost DEF ProbesInv
  <2> QED
    BY <1>1, <2>2 DEF ProbesInv
<1> QED
  BY <1>1, <1>2, <1>3, <1>4 DEF ProbesInv, PlainInv

LEMMA PauseOverBudgetKeeps ==
    ASSUME ProbesInv, NEW k \in Key, PauseOverBudget(k)
    PROVE  ProbesInv'
<1>1. UNCHANGED <<loaded, desired, arms, arming, live, dropping, rec, tokens, mode>>
  BY DEF PauseOverBudget
<1>2. holders[k].claims \subseteq Probes
  BY DEF ProbesInv, RegInv, Holder
<1>3. exhausted \in [Probes -> Defs \cup {None}]
  BY DEF ProbesInv, PlainInv
<1>4. HitInv' /\ \E over : Retired(k, over)
  BY <1>2, <1>3, PauseOverBudgetHits DEF ProbesInv
<1> QED
  BY <1>1, <1>4, RetiredKeeps

LEMMA ProcessKeeps ==
    ASSUME ProbesInv, Process
    PROVE  ProbesInv'
<1>1. UNCHANGED <<loaded, desired, arms, arming, live, dropping, rec, tokens, mode>>
  BY DEF Process
<1>2. exhausted \in [Probes -> Defs \cup {None}]
  BY DEF ProbesInv, PlainInv
<1>3. HitInv' /\ \E over \in SUBSET captures[1].who :
                    \/ /\ over = {} /\ Shrinks(over)
                       /\ UNCHANGED <<exhausted, holders, byLocation, posted>>
                    \/ \E p \in over : Retired(installed[p].bp, over)
  BY <1>2, ProcessHits DEF ProbesInv
<1>4. PICK over \in SUBSET captures[1].who :
                    \/ /\ over = {} /\ Shrinks(over)
                       /\ UNCHANGED <<exhausted, holders, byLocation, posted>>
                    \/ \E p \in over : Retired(installed[p].bp, over)
  BY <1>3
<1>5. CASE /\ over = {} /\ Shrinks(over)
           /\ UNCHANGED <<exhausted, holders, byLocation, posted>>
  <2>1. IdleArms'
    BY <1>1, <1>5, ShrunkArms DEF ProbesInv
  <2>2. RegInv'
    BY <1>5, SameRegistry DEF ProbesInv
  <2> QED
    BY <1>1, <1>3, <1>5, <2>1, <2>2 DEF ProbesInv, PlainInv
<1>6. CASE \E p \in over : Retired(installed[p].bp, over)
  <2>1. PICK p \in over : Retired(installed[p].bp, over)
    BY <1>6
  <2>2. p \in Probes /\ captures \in Seq(Hit) /\ HitsOf(p)
    BY <2>1 DEF Retired, ProbesInv, HitInv
  <2>3. captures # <<>> /\ captures \in Seq(Hit) /\ p \in captures[1].who
    BY <2>2 DEF Process
  <2>4. p \in Probes /\ 1 \in Pending(p, captures)
    BY <2>2, <2>3 DEF Pending
  <2>5. installed[p].pending # 0
    <3>1. IsFiniteSet(Pending(p, captures))
      BY <2>3, PendingFinite
    <3>2. Cardinality(Pending(p, captures)) # 0
      BY <2>4, <3>1, FS_EmptySet
    <3> QED
      BY <2>2, <3>2 DEF HitsOf
  <2>6. installed[p].bp \in Key
    BY <2>2, <2>5, AbsentType DEF HitsOf
  <2> DEFINE k == installed[p].bp
  <2>7. k \in Key /\ Retired(k, over)
    BY <2>1, <2>6
  <2> HIDE DEF k
  <2> QED
    BY <1>1, <1>3, <2>7, RetiredKeeps
<1> QED
  BY <1>4, <1>5, <1>6

(* Everything is taken off: the captures left count for nobody. *)
LEMMA AllOff ==
    ASSUME HitInv, installed' = [p \in Probes |-> Absent],
           captures' = Stale(Forget(Probes, captures))
    PROVE  HitInv' /\ Shrinks(Probes)
<1> DEFINE cs == Forget(Probes, captures)
<1>1. /\ cs \in Seq(Hit)
      /\ \A p : Pending(p, cs) = IF p \in Probes THEN {} ELSE Pending(p, captures)
  BY ForgetHits DEF HitInv
<1> HIDE DEF cs
<1>2. /\ captures' \in Seq(Hit)
      /\ \A p : Pending(p, captures') = IF p \in Probes THEN {} ELSE Pending(p, captures)
  BY <1>1, StaleHits DEF cs
<1>3. installed' = [p \in Probes |-> IF p \in Probes THEN Absent ELSE installed[p]]
  OBVIOUS
<1> QED
  BY <1>2, <1>3, TakenOff

LEMMA ResumeFailsKeeps ==
    ASSUME ProbesInv, NEW k \in Key, ResumeFails(k)
    PROVE  ProbesInv'
<1>1. /\ mode' = [mode EXCEPT !.failed = TRUE, !.suspended = TRUE]
      /\ installed' = [p \in Probes |-> Absent]
      /\ captures' = Stale(Forget(Probes, captures))
      /\ ClearRegistry
      /\ live' = {}
      /\ UNCHANGED <<loaded, desired, exhausted, arms, arming, posted, dropping, rec, tokens>>
  BY DEF ResumeFails
<1>2. mode' \in Modes
  BY <1>1 DEF ProbesInv, PlainInv, Modes
<1>3. HitInv' /\ Shrinks(Probes)
  BY <1>1, AllOff DEF ProbesInv
<1>4. RegInv'
  BY <1>1, ClearedRegistry
<1>5. IdleArms'
  BY <1>1, <1>3, ShrunkArms DEF ProbesInv
<1> QED
  BY <1>1, <1>2, <1>3, <1>4, <1>5 DEF ProbesInv, PlainInv

LEMMA SuspendAllKeeps ==
    ASSUME ProbesInv, SuspendAll
    PROVE  ProbesInv'
<1>1. /\ mode' = [mode EXCEPT !.suspended = TRUE]
      /\ dropping' = dropping \cup {k \in Key : Registered(k)}
      /\ ClearRegistry
      /\ installed' = [p \in Probes |-> Absent]
      /\ captures' = Stale(Forget(Probes, captures))
      /\ UNCHANGED <<loaded, desired, exhausted, arms, arming, live, posted, rec, tokens>>
  BY DEF SuspendAll
<1>2. mode' \in Modes
  BY <1>1 DEF ProbesInv, PlainInv, Modes
<1>3. HitInv' /\ Shrinks(Probes)
  BY <1>1, AllOff DEF ProbesInv
<1>4. RegInv'
  BY <1>1, ClearedRegistry
<1>5. IdleArms'
  BY <1>1, <1>3, ShrunkArms DEF ProbesInv
<1>6. dropping' \subseteq Key
  BY <1>1 DEF ProbesInv, PlainInv
<1> QED
  BY <1>1, <1>2, <1>3, <1>4, <1>5, <1>6 DEF ProbesInv, PlainInv

(* The commands of stop(), one for every registered breakpoint. *)
Removals(n, ks) == [i \in 1..n |-> Command("remove", ks[i], "stop")]

LEMMA RemovalsType ==
    ASSUME NEW n \in Nat, NEW ks \in [1..n -> Key]
    PROVE  /\ Removals(n, ks) \in Seq(Cmd)
           /\ DOMAIN Removals(n, ks) = 1..n /\ Len(Removals(n, ks)) = n
           /\ \A i \in 1..n : /\ Removals(n, ks)[i] \in Cmd
                              /\ Removals(n, ks)[i].op = "remove"
                              /\ Removals(n, ks)[i].key = ks[i]
                              /\ Removals(n, ks)[i].by = "stop"
<1> DEFINE rs == Removals(n, ks)
<1>1. "stop" \in Probes \cup Others
  BY DEF Others
<1>2. ASSUME NEW i \in 1..n
      PROVE  /\ rs[i] \in Cmd /\ rs[i].op = "remove" /\ rs[i].key = ks[i] /\ rs[i].by = "stop"
  <2> DEFINE k == ks[i]
  <2>1. k \in Key /\ rs[i] = Command("remove", k, "stop")
    BY DEF Removals
  <2> HIDE DEF k, rs
  <2>2. /\ Command("remove", k, "stop") \in Cmd /\ Command("remove", k, "stop").op = "remove"
        /\ Command("remove", k, "stop").by = "stop" /\ Command("remove", k, "stop").key = k
    BY <1>1, <2>1, CommandType
  <2> QED
    BY <2>1, <2>2 DEF k
<1>3. DOMAIN rs = 1..n /\ rs = [i \in 1..n |-> rs[i]]
  BY DEF Removals
<1> HIDE DEF rs
<1>4. rs \in [1..n -> Cmd]
  BY <1>2, <1>3
<1>5. rs \in Seq(Cmd) /\ Len(rs) = n
  BY <1>4
<1> QED
  BY <1>2, <1>3, <1>5 DEF rs

LEMMA Joined ==
    ASSUME NEW s \in Seq(Cmd), NEW t \in Seq(Cmd)
    PROVE  /\ s \o t \in Seq(Cmd) /\ DOMAIN (s \o t) = 1..(Len(s) + Len(t))
           /\ \A i \in 1..(Len(s) + Len(t)) :
                 (s \o t)[i] = IF i <= Len(s) THEN s[i] ELSE t[i - Len(s)]
OBVIOUS

LEMMA StopPosts ==
    ASSUME Awaited(posted, arms), NEW n \in Nat, NEW ks \in [1..n -> Key]
    PROVE  Awaited(posted \o Removals(n, ks), arms)
<1> DEFINE rs == Removals(n, ks)
           f == posted \o rs
           m == Len(posted)
<1>1. /\ rs \in Seq(Cmd) /\ Len(rs) = n
      /\ \A i \in 1..n : rs[i].op = "remove" /\ rs[i].by = "stop"
  BY RemovalsType
<1>2. posted \in Seq(Cmd) /\ m \in Nat /\ DOMAIN posted = 1..m
  BY DEF Awaited
<1> HIDE DEF rs
<1>3. /\ f \in Seq(Cmd) /\ DOMAIN f = 1..(m + n)
      /\ \A i \in 1..(m + n) : f[i] = IF i <= m THEN posted[i] ELSE rs[i - m]
  BY <1>1, <1>2, Joined
<1> HIDE DEF f, m
<1>4. ASSUME NEW i \in DOMAIN f
      PROVE  \/ i \in DOMAIN posted /\ f[i] = posted[i]
             \/ f[i].op = "remove" /\ f[i].by \notin Probes
  <2>1. CASE i <= m
    BY <1>2, <1>3, <2>1
  <2>2. CASE ~(i <= m)
    <3>1. i - m \in 1..n /\ f[i] = rs[i - m]
      BY <1>2, <1>3, <2>2
    <3>2. "stop" \notin Probes
      BY OthersApart DEF Others
    <3> QED
      BY <1>1, <3>1, <3>2
  <2> QED
    BY <2>1, <2>2
<1>5. ASSUME NEW i \in DOMAIN f PROVE Expected(f[i], arms)
  BY <1>4 DEF Awaited, Expected
<1>6. ASSUME NEW i \in DOMAIN f, NEW j \in DOMAIN f, f[i].by \in Probes, f[i].by = f[j].by
      PROVE  i = j
  BY <1>4, <1>6 DEF Awaited
<1>7. Awaited(f, arms)
  BY <1>3, <1>5, <1>6 DEF Awaited
<1> QED
  BY <1>7 DEF f, rs

LEMMA StopKeeps ==
    ASSUME ProbesInv, Stop
    PROVE  ProbesInv'
<1> DEFINE n == Cardinality(InUse)
<1>1. /\ mode' = [mode EXCEPT !.stop = "stopped"]
      /\ ClearRegistry
      /\ installed' = [p \in Probes |-> Absent]
      /\ desired' = [p \in Probes |-> None]
      /\ captures' = Stale(Forget(Probes, captures))
      /\ UNCHANGED <<loaded, exhausted, arms, arming, live, dropping, rec, tokens>>
  BY DEF Stop
<1>2. PICK ks \in [1..n -> InUse] :
         /\ \A i, j \in DOMAIN ks : ks[i] = ks[j] => i = j
         /\ posted' = posted \o [i \in DOMAIN ks |-> Command("remove", ks[i], "stop")]
  BY DEF Stop, InUse
<1>3. posted' = posted \o Removals(n, ks)
  BY <1>2 DEF Removals
<1>4. n \in Nat
  BY FS_CardinalityType DEF ProbesInv, RegInv
<1>5. ks \in [1..n -> Key]
  BY <1>2 DEF InUse
<1> HIDE DEF n
<1>6. Awaited(posted', arms')
  BY <1>1, <1>3, <1>4, <1>5, StopPosts DEF ProbesInv
<1>7. mode' \in Modes
  BY <1>1 DEF ProbesInv, PlainInv, Modes
<1>8. HitInv' /\ Shrinks(Probes)
  BY <1>1, AllOff DEF ProbesInv
<1>9. RegInv'
  BY <1>1, ClearedRegistry
<1>10. IdleArms'
  BY <1>1, <1>8, ShrunkArms DEF ProbesInv
<1> QED
  BY <1>1, <1>6, <1>7, <1>8, <1>9, <1>10 DEF ProbesInv, PlainInv

LEMMA ProbesInitially ==
    ASSUME Init
    PROVE  ProbesInv
<1>1. PlainInv
  BY BoundsAssumption DEF Init, PlainInv, Modes, Recs, NoRec
<1>2. HitInv
  <2>1. installed \in [Probes -> Inst] /\ captures \in Seq(Hit) /\ captures = <<>>
    BY AbsentType DEF Init
  <2>2. ASSUME NEW p \in Probes PROVE HitsOf(p)
    <3>1. installed[p] = Absent /\ Pending(p, captures) = {}
      BY DEF Init, Pending
    <3>2. Cardinality(Pending(p, captures)) = 0
      BY <3>1, FS_EmptySet
    <3> QED
      BY <3>1, <3>2, AbsentType DEF HitsOf, Installed
  <2> QED
    BY <2>1, <2>2 DEF HitInv
<1>3. RegInv
  <2>1. holders \in [Key -> Holder] /\ byLocation \in [Key -> Key \cup {None}]
    BY NobodyType DEF Init
  <2>2. InUse = {}
    BY NobodyType DEF Init, InUse, Registered
  <2> QED
    BY <2>1, <2>2, FS_EmptySet DEF RegInv
<1>4. ArmsWell(arms) /\ IdleArms
  <2>1. NoArm \in Arm
    BY NoArmType
  <2> QED
    BY <2>1, NoArmType DEF Init, ArmsWell, IdleArms
<1>5. Awaited(posted, arms)
  BY DEF Init, Awaited
<1> QED
  BY <1>1, <1>2, <1>3, <1>4, <1>5 DEF ProbesInv

LEMMA ProbesStep ==
    ASSUME ProbesInv, [Next]_vars
    PROVE  ProbesInv'
<1>1. CASE Next
  BY <1>1, EnsureArmedKeeps, WaiterResumesKeeps, FinishArmKeeps, AnswerSetKeeps,
     AnswerRemoveKeeps, ReconcileKeeps, ReconcileResumesKeeps, DropNextKeeps,
     PauseCapturedKeeps, PauseOverBudgetKeeps, ResumeFailsKeeps, ProcessKeeps,
     SuspendAllKeeps, PlainStepsKeep, StopKeeps DEF Next
<1>2. CASE UNCHANGED vars
  <2>1. PlainInv'
    BY <1>2 DEF vars, ProbesInv, PlainInv
  <2> QED
    BY <1>2, <2>1, PlainStep DEF vars
<1> QED
  BY <1>1, <1>2

(* What V8 refused to remove is a breakpoint that was asked for. *)
LEMMA StuckStep ==
    ASSUME ProbesInv, stuck \subseteq Key, [Next]_vars
    PROVE  stuck' \subseteq Key
<1>1. CASE AnswerRemove
  <2> DEFINE c == Head(posted)
  <2>1. c \in Cmd
    BY <1>1, TakeAwaited DEF AnswerRemove, ProbesInv
  <2>2. stuck' = stuck \/ stuck' = stuck \cup {c.key}
    BY <1>1 DEF AnswerRemove
  <2> HIDE DEF c
  <2>3. c.key \in Key
    BY <2>1 DEF Cmd
  <2> QED
    BY <2>2, <2>3
<1>2. CASE \E k \in Key : ResumeFails(k)
  BY <1>2 DEF ResumeFails
<1>3. CASE UNCHANGED stuck
  BY <1>3
<1>4. AnswerRemove \/ (\E k \in Key : ResumeFails(k)) \/ UNCHANGED stuck
  BY DEF Next, vars, EnsureArmed, WaiterResumes, FinishArm, AnswerSet, Reconcile,
         ReconcileResumes, DropNext, ScriptParsed, PauseCaptured, PauseOverBudget, Process,
         Refill, SuspendAll, Rearm, BeginStop, Stop
<1> QED
  BY <1>1, <1>2, <1>3, <1>4

LEMMA ProbesTyped == ProbesInv /\ stuck \subseteq Key => TypeOK
BY DEF ProbesInv, PlainInv, HitInv, RegInv, ArmsWell, Awaited, TypeOK, Inst, Hit, Arm, Cmd,
       Others, Holder, Modes, Recs

LEMMA ProbesLimited == ProbesInv => HitLimitKept
BY DEF ProbesInv, HitInv, HitsOf, Pending, HitLimitKept

(* The type invariant, for every agent: whatever the order of the          *)
(* inspector's answers, pauses, polls and script events, the manager's     *)
(* maps (probes, breakpoints, pending arms) hold what TypeOK says.         *)
THEOREM ProbesTypeCorrect == Spec => []TypeOK
<1> DEFINE IInv == ProbesInv /\ stuck \subseteq Key
<1>1. Init => IInv
  BY ProbesInitially DEF Init
<1>2. IInv /\ [Next]_vars => IInv'
  BY ProbesStep, StuckStep
<1>3. IInv => TypeOK
  BY ProbesTyped
<1> HIDE DEF IInv
<1> QED
  BY <1>1, <1>2, <1>3, PTL DEF Spec

(* handlePaused() reserves a hit (pending) before it captures, and         *)
(* #releasePending() gives it back before #processHit() counts it: hits    *)
(* and reservations together never exceed the probe's hit limit, and a     *)
(* reservation belongs to exactly one capture that waits, also when the    *)
(* probe is uninstalled, retired, suspended or replaced by one of the same *)
(* id while its captures wait.                                             *)
THEOREM HitsWithinLimit == Spec => []HitLimitKept
<1>1. Init => ProbesInv
  BY ProbesInitially
<1>2. ProbesInv /\ [Next]_vars => ProbesInv'
  BY ProbesStep
<1>3. ProbesInv => HitLimitKept
  BY ProbesLimited
<1> QED
  BY <1>1, <1>2, <1>3, PTL DEF Spec

-----------------------------------------------------------------------------
(* Breakpoints: who holds them, and which of them are on their way out *)

HasCode(k) == k[2] \notin NoCode

(* The removal of k has been asked for, and no breakpoint's is twice. *)
Asked(ps, k) == \E i \in DOMAIN ps : ps[i].op = "remove" /\ ps[i].key = k
AskedOnce(ps) ==
    \A i, j \in DOMAIN ps :
        (/\ ps[i].op = "remove" /\ ps[j].op = "remove"
         /\ ps[i].key = ps[j].key /\ HasCode(ps[i].key)) => i = j

LEMMA AskMore ==
    ASSUME NEW ps \in Seq(Cmd), NEW c \in Cmd
    PROVE  /\ \A k : Asked(Append(ps, c), k) <=> (Asked(ps, k) \/ (c.op = "remove" /\ c.key = k))
           /\ (/\ AskedOnce(ps)
               /\ (c.op = "remove" /\ HasCode(c.key)) => ~Asked(ps, c.key))
              => AskedOnce(Append(ps, c))
<1> DEFINE f == Append(ps, c)
           n == Len(ps) + 1
<1>1. /\ DOMAIN f = DOMAIN ps \cup {n} /\ n \notin DOMAIN ps
      /\ f[n] = c /\ \A i \in DOMAIN ps : f[i] = ps[i]
  OBVIOUS
<1> HIDE DEF f, n
<1>2. \A k : Asked(f, k) <=> (Asked(ps, k) \/ (c.op = "remove" /\ c.key = k))
  BY <1>1 DEF Asked
<1>3. ASSUME AskedOnce(ps), (c.op = "remove" /\ HasCode(c.key)) => ~Asked(ps, c.key)
      PROVE  AskedOnce(f)
  BY <1>1, <1>3 DEF AskedOnce, Asked
<1> QED
  BY <1>2, <1>3 DEF f

LEMMA AskLess ==
    ASSUME NEW ps \in Seq(Cmd), ps # <<>>
    PROVE  /\ Tail(ps) \in Seq(Cmd)
           /\ \A k : Asked(ps, k) <=> (Asked(Tail(ps), k)
                                        \/ (Head(ps).op = "remove" /\ Head(ps).key = k))
           /\ AskedOnce(ps) => AskedOnce(Tail(ps))
           /\ (AskedOnce(ps) /\ Head(ps).op = "remove" /\ HasCode(Head(ps).key))
              => ~Asked(Tail(ps), Head(ps).key)
<1> DEFINE f == Tail(ps)
           n == Len(ps) - 1
<1>1. /\ f \in Seq(Cmd) /\ DOMAIN f = 1..n /\ DOMAIN ps = 1..(n + 1) /\ n \in Nat
      /\ \A i \in 1..n : f[i] = ps[i + 1]
      /\ Head(ps) = ps[1]
  OBVIOUS
<1> HIDE DEF f, n
<1>2. /\ 1 \in DOMAIN ps
      /\ \A i \in DOMAIN f : i + 1 \in DOMAIN ps /\ i + 1 # 1 /\ f[i] = ps[i + 1] /\ i \in Nat
      /\ \A j \in DOMAIN ps : j # 1 => \E i \in DOMAIN f : j = i + 1
  <2>1. ASSUME NEW j \in DOMAIN ps, j # 1 PROVE \E i \in DOMAIN f : j = i + 1
    <3>1. j - 1 \in DOMAIN f /\ j = (j - 1) + 1
      BY <1>1, <2>1
    <3> QED
      BY <3>1
  <2> QED
    BY <1>1, <2>1
<1>3. \A k : Asked(ps, k) <=> (Asked(f, k) \/ (ps[1].op = "remove" /\ ps[1].key = k))
  BY <1>2 DEF Asked
<1>4. ASSUME AskedOnce(ps) PROVE AskedOnce(f)
  <2>1. ASSUME NEW i \in DOMAIN f, NEW j \in DOMAIN f,
               f[i].op = "remove" /\ f[j].op = "remove" /\ f[i].key = f[j].key /\ HasCode(f[i].key)
        PROVE  i = j
    <3>1. i + 1 = j + 1
      BY <1>2, <1>4, <2>1 DEF AskedOnce
    <3> QED
      BY <1>2, <3>1
  <2> QED
    BY <2>1 DEF AskedOnce
<1>5. (AskedOnce(ps) /\ ps[1].op = "remove" /\ HasCode(ps[1].key)) => ~Asked(f, ps[1].key)
  BY <1>2 DEF AskedOnce, Asked
<1> QED
  BY <1>1, <1>3, <1>4, <1>5 DEF f

LEMMA AskAll ==
    ASSUME NEW ps \in Seq(Cmd), NEW n \in Nat, NEW ks \in [1..n -> Key],
           \A i, j \in 1..n : ks[i] = ks[j] => i = j
    PROVE  /\ \A k : Asked(ps \o Removals(n, ks), k)
                        <=> (Asked(ps, k) \/ \E i \in 1..n : ks[i] = k)
           /\ (AskedOnce(ps) /\ \A i \in 1..n : ~Asked(ps, ks[i]))
              => AskedOnce(ps \o Removals(n, ks))
<1> DEFINE rs == Removals(n, ks)
           f == ps \o rs
           m == Len(ps)
<1>1. /\ rs \in Seq(Cmd) /\ Len(rs) = n
      /\ \A i \in 1..n : rs[i].op = "remove" /\ rs[i].key = ks[i]
  BY RemovalsType
<1>2. m \in Nat /\ DOMAIN ps = 1..m
  OBVIOUS
<1> HIDE DEF rs
<1>3. /\ f \in Seq(Cmd) /\ DOMAIN f = 1..(m + n)
      /\ \A i \in 1..(m + n) : f[i] = IF i <= m THEN ps[i] ELSE rs[i - m]
  BY <1>1, <1>2, Joined
<1> HIDE DEF f, m
<1>4. ASSUME NEW i \in DOMAIN f
      PROVE  \/ i \in DOMAIN ps /\ f[i] = ps[i]
             \/ \E x \in 1..n : i = x + m /\ f[i].op = "remove" /\ f[i].key = ks[x]
  <2>1. CASE i <= m
    BY <1>2, <1>3, <2>1
  <2>2. CASE ~(i <= m)
    <3>1. i - m \in 1..n /\ f[i] = rs[i - m] /\ i = (i - m) + m
      BY <1>2, <1>3, <2>2
    <3>2. f[i].op = "remove" /\ f[i].key = ks[i - m]
      BY <1>1, <3>1
    <3> QED
      BY <3>1, <3>2
  <2> QED
    BY <2>1, <2>2
<1>5. \A i \in DOMAIN ps : i \in DOMAIN f /\ f[i] = ps[i]
  BY <1>2, <1>3
<1>6. ASSUME NEW x \in 1..n
      PROVE  x + m \in DOMAIN f /\ f[x + m].op = "remove" /\ f[x + m].key = ks[x]
  <2>1. x + m \in 1..(m + n) /\ ~(x + m <= m) /\ (x + m) - m = x
    BY <1>2
  <2>2. x + m \in DOMAIN f /\ f[x + m] = rs[(x + m) - m]
    BY <1>3, <2>1
  <2>3. f[x + m] = rs[x]
    BY <2>1, <2>2
  <2> QED
    BY <1>1, <2>2, <2>3
<1>7. ASSUME NEW k PROVE Asked(f, k) <=> (Asked(ps, k) \/ \E i \in 1..n : ks[i] = k)
  <2>1. ASSUME Asked(f, k) PROVE Asked(ps, k) \/ \E i \in 1..n : ks[i] = k
    BY <1>4, <2>1 DEF Asked
  <2>2. ASSUME Asked(ps, k) PROVE Asked(f, k)
    BY <1>5, <2>2 DEF Asked
  <2>3. ASSUME NEW i \in 1..n, ks[i] = k PROVE Asked(f, k)
    BY <1>6, <2>3 DEF Asked
  <2> QED
    BY <2>1, <2>2, <2>3
<1>8. ASSUME AskedOnce(ps), \A i \in 1..n : ~Asked(ps, ks[i])
      PROVE  AskedOnce(f)
  <2>1. ASSUME NEW i \in DOMAIN f, NEW j \in DOMAIN f, f[i].op = "remove", f[j].op = "remove",
               f[i].key = f[j].key, HasCode(f[i].key)
        PROVE  i = j
    <3>1. CASE i \in DOMAIN ps /\ f[i] = ps[i]
      <4>1. Asked(ps, f[j].key)
        BY <2>1, <3>1 DEF Asked
      <4>2. j \in DOMAIN ps /\ f[j] = ps[j]
        BY <1>4, <1>8, <4>1
      <4> QED
        BY <1>8, <2>1, <3>1, <4>2 DEF AskedOnce
    <3>2. CASE \E x \in 1..n : i = x + m /\ f[i].op = "remove" /\ f[i].key = ks[x]
      <4>1. PICK x \in 1..n : i = x + m /\ f[i].op = "remove" /\ f[i].key = ks[x]
        BY <3>2
      <4>2. ~(j \in DOMAIN ps /\ f[j] = ps[j])
        BY <1>8, <2>1, <4>1 DEF Asked
      <4>3. PICK y \in 1..n : j = y + m /\ f[j].op = "remove" /\ f[j].key = ks[y]
        BY <1>4, <4>2
      <4>4. x = y
        BY <2>1, <4>1, <4>3
      <4> QED
        BY <4>1, <4>3, <4>4
    <3> QED
      BY <1>4, <3>1, <3>2
  <2> QED
    BY <2>1 DEF AskedOnce
<1> QED
  BY <1>7, <1>8 DEF f, rs

(* A probe holds the breakpoint it is installed at, or has just claimed. *)
Holding(p, k) ==
    \/ Installed(p) /\ installed[p].bp = k
    \/ arms[p].pc = "claimed" /\ arms[p].bp = k /\ ~mode.failed

(* The registry names exactly those who hold a breakpoint. *)
ClaimInv ==
    /\ \A k \in Key, p \in Probes : p \in holders[k].claims <=> Holding(p, k)
    /\ \A k \in Key : Registered(k) <=> holders[k].claims # {}
    /\ \A l \in Key : byLocation[l] # None => l \in holders[byLocation[l]].keys

(* What V8 holds is registered or leaving, and never both: a removal is    *)
(* asked for once, and only of what is there.                              *)
LiveInv ==
    /\ \A k \in Key : Registered(k) => k \in live /\ k \notin dropping /\ ~Asked(posted, k)
    /\ \A k \in live : HasCode(k) /\ (Registered(k) \/ k \in dropping \/ Asked(posted, k))
    /\ ~mode.failed =>
          /\ AskedOnce(posted) /\ dropping \subseteq live
          /\ \A k \in Key : (HasCode(k) /\ Asked(posted, k)) => k \in live /\ k \notin dropping

FailInv == mode.failed => mode.suspended /\ live = {} /\ \A p \in Probes : ~Installed(p)

(* What a reconciliation has still to uninstall is not being armed anew. *)
TodoInv ==
    /\ rec.pc = "idle" => rec.todo = {}
    /\ \A u \in rec.todo : /\ arms[u[1]].pc = "idle"
                           /\ Installed(u[1]) => installed[u[1]].bp = u[2]

(* The probes a capture counts for share a breakpoint. *)
LineInv ==
    \A i \in DOMAIN captures : \A p, q \in captures[i].who : installed[p].bp = installed[q].bp

BreakpointInv == ClaimInv /\ LiveInv /\ FailInv /\ TodoInv /\ LineInv

(* The registered breakpoints after a step, where k may have left. *)
LEMMA UnclaimClaims ==
    ASSUME RegInv, ClaimInv, NEW k \in Key, NEW P, Unclaim(k, P),
           \A p \in Probes, l \in Key : Holding(p, l)' <=> (Holding(p, l) /\ ~(l = k /\ p \in P))
    PROVE  /\ ClaimInv'
           /\ \A l \in Key : Registered(l)' <=> (Registered(l) /\ ~(l = k /\ LastClaim(k, P)))
<1>1. holders \in [Key -> Holder] /\ byLocation \in [Key -> Key \cup {None}]
  BY DEF RegInv
<1>2. holders[k].claims \subseteq Probes
  BY <1>1 DEF Holder
<1>3. CASE LastClaim(k, P)
  <2>1. /\ holders' = [holders EXCEPT ![k] = Nobody]
        /\ byLocation' = [l \in Key |-> IF l \in holders[k].keys /\ byLocation[l] = k
                                        THEN None ELSE byLocation[l]]
    BY <1>3 DEF Unclaim
  <2>2. holders'[k] = Nobody /\ \A l \in Key : l # k => holders'[l] = holders[l]
    BY <1>1, <2>1
  <2>3. Nobody.keys = {} /\ Nobody.claims = {}
    BY DEF Nobody
  <2>4. holders[k].claims \subseteq P
    BY <1>3 DEF LastClaim
  <2>5. ASSUME NEW l \in Key, NEW p \in Probes PROVE p \in holders'[l].claims <=> Holding(p, l)'
    BY <2>2, <2>3, <2>4 DEF ClaimInv
  <2>6. ASSUME NEW l \in Key
        PROVE  /\ Registered(l)' <=> holders'[l].claims # {}
               /\ Registered(l)' <=> (Registered(l) /\ l # k)
    BY <2>2, <2>3 DEF ClaimInv, Registered
  <2>7. ASSUME NEW l \in Key, byLocation'[l] # None PROVE l \in holders'[byLocation'[l]].keys
    <3>1. byLocation'[l] = byLocation[l] /\ byLocation[l] \in Key
      BY <1>1, <2>1, <2>7
    <3>2. l \in holders[byLocation[l]].keys
      BY <2>7, <3>1 DEF ClaimInv
    <3>3. byLocation[l] # k
      BY <2>1, <2>7, <3>2
    <3> QED
      BY <2>2, <3>1, <3>2, <3>3
  <2> QED
    BY <1>3, <2>5, <2>6, <2>7 DEF ClaimInv
<1>4. CASE ~LastClaim(k, P)
  <2> DEFINE h == [holders[k] EXCEPT !.claims = holders[k].claims \ P]
  <2>1. holders' = [holders EXCEPT ![k] = h] /\ byLocation' = byLocation
    BY <1>4 DEF Unclaim
  <2>2. h.keys = holders[k].keys /\ h.claims = holders[k].claims \ P
    BY <1>1 DEF Holder
  <2> HIDE DEF h
  <2>3. holders'[k] = h /\ \A l \in Key : l # k => holders'[l] = holders[l]
    BY <1>1, <2>1
  <2>4. \A l \in Key : holders'[l].keys = holders[l].keys
    BY <2>2, <2>3
  <2>5. ASSUME NEW l \in Key, NEW p \in Probes PROVE p \in holders'[l].claims <=> Holding(p, l)'
    BY <2>2, <2>3 DEF ClaimInv
  <2>6. \A l \in Key : Registered(l)' <=> Registered(l)
    BY <2>4 DEF Registered
  <2>7. ASSUME NEW l \in Key PROVE Registered(l)' <=> holders'[l].claims # {}
    <3>1. Registered(k) => holders[k].claims \ P # {}
      BY <1>4 DEF LastClaim
    <3> QED
      BY <2>2, <2>3, <2>6, <3>1 DEF ClaimInv
  <2>8. ASSUME NEW l \in Key, byLocation'[l] # None PROVE l \in holders'[byLocation'[l]].keys
    BY <1>1, <2>1, <2>4, <2>8 DEF ClaimInv
  <2> QED
    BY <1>4, <2>5, <2>6, <2>7, <2>8 DEF ClaimInv
<1> QED
  BY <1>3, <1>4

(* The removal of a breakpoint that has just left the registry is asked    *)
(* for.                                                                    *)
LEMMA LeavesLive ==
    ASSUME LiveInv, posted \in Seq(Cmd), NEW k \in Key, Registered(k),
           NEW by \in Probes \cup Others,
           \A l \in Key : Registered(l)' <=> (Registered(l) /\ l # k),
           posted' = Append(posted, Command("remove", k, by)),
           live \subseteq Key, UNCHANGED <<live, dropping, mode>>
    PROVE  LiveInv'
<1> DEFINE c == Command("remove", k, by)
<1>1. c \in Cmd /\ c.op = "remove" /\ c.key = k
  BY CommandType
<1>2. posted' = Append(posted, c)
  OBVIOUS
<1> HIDE DEF c
<1>3. /\ \A l : Asked(posted', l) <=> (Asked(posted, l) \/ l = k)
      /\ (AskedOnce(posted) /\ ~Asked(posted, k)) => AskedOnce(posted')
  BY <1>1, <1>2, AskMore
<1>4. k \in live /\ k \notin dropping /\ ~Asked(posted, k)
  BY DEF LiveInv
<1> QED
  BY <1>3, <1>4 DEF LiveInv

(* Nothing is registered, removed or asked for. *)
LEMMA SameLive ==
    ASSUME LiveInv, live \subseteq Key, \A l \in Key : Registered(l)' <=> Registered(l),
           \A k : Asked(posted', k) <=> Asked(posted, k),
           AskedOnce(posted) => AskedOnce(posted'),
           UNCHANGED <<live, dropping>>, mode'.failed = mode.failed
    PROVE  LiveInv'
BY DEF LiveInv

LEMMA ShrinkHolding ==
    ASSUME NEW P, Shrinks(P), UNCHANGED <<arms, mode>>, NEW k,
           \A p \in Probes : p \in P => /\ arms[p].pc = "idle"
                                        /\ Installed(p) => installed[p].bp = k
    PROVE  \A p \in Probes, l \in Key : Holding(p, l)' <=> (Holding(p, l) /\ ~(l = k /\ p \in P))
<1>1. ASSUME NEW p \in Probes, NEW l \in Key
      PROVE  Holding(p, l)' <=> (Holding(p, l) /\ ~(l = k /\ p \in P))
  <2>1. CASE p \in P
    <3>1. ~Installed(p)' /\ arms'[p].pc = "idle"
      BY <2>1 DEF Shrinks
    <3>2. ~Holding(p, l)'
      BY <3>1 DEF Holding, Installed
    <3>3. Holding(p, l) => l = k
      BY <2>1 DEF Holding
    <3> QED
      BY <2>1, <3>2, <3>3
  <2>2. CASE p \notin P
    <3>1. (Installed(p)' <=> Installed(p)) /\ installed'[p].bp = installed[p].bp
      BY <2>2 DEF Shrinks
    <3>2. Holding(p, l)' <=> Holding(p, l)
      BY <3>1 DEF Holding, Installed
    <3> QED
      BY <2>2, <3>2
  <2> QED
    BY <2>1, <2>2
<1> QED
  BY <1>1

(* Probes P drop their claims on k, and ask for its removal if they are    *)
(* the last.                                                               *)
LEMMA GiveUp ==
    ASSUME ProbesInv, ClaimInv, LiveInv, NEW k \in Key, NEW P, Unclaim(k, P),
           NEW by \in Probes \cup Others,
           \A p \in Probes, l \in Key : Holding(p, l)' <=> (Holding(p, l) /\ ~(l = k /\ p \in P)),
           posted' = IF LastClaim(k, P) THEN Append(posted, Command("remove", k, by)) ELSE posted,
           UNCHANGED <<live, dropping, mode>>
    PROVE  ClaimInv' /\ LiveInv'
<1>1. /\ ClaimInv'
      /\ \A l \in Key : Registered(l)' <=> (Registered(l) /\ ~(l = k /\ LastClaim(k, P)))
  BY UnclaimClaims DEF ProbesInv
<1>2. posted \in Seq(Cmd) /\ live \subseteq Key
  BY DEF ProbesInv, Awaited, PlainInv
<1>3. CASE LastClaim(k, P)
  <2>1. Registered(k) /\ posted' = Append(posted, Command("remove", k, by))
    BY <1>3 DEF LastClaim
  <2>2. \A l \in Key : Registered(l)' <=> (Registered(l) /\ l # k)
    BY <1>1, <1>3
  <2>3. LiveInv'
    BY <1>2, <2>1, <2>2, LeavesLive
  <2> QED
    BY <1>1, <2>3
<1>4. CASE ~LastClaim(k, P)
  <2>1. posted' = posted
    BY <1>4
  <2>2. \A l \in Key : Registered(l)' <=> Registered(l)
    BY <1>1, <1>4
  <2>3. LiveInv'
    BY <1>2, <2>1, <2>2, SameLive
  <2> QED
    BY <1>1, <2>3
<1> QED
  BY <1>3, <1>4

LEMMA SameClaims ==
    ASSUME ClaimInv, UNCHANGED <<holders, byLocation>>,
           \A p \in Probes, l \in Key : Holding(p, l)' <=> Holding(p, l)
    PROVE  ClaimInv' /\ \A l \in Key : Registered(l)' <=> Registered(l)
BY DEF ClaimInv, Registered

LEMMA FailKept ==
    ASSUME FailInv, UNCHANGED mode, live' \subseteq live, NEW P, Shrinks(P)
    PROVE  FailInv'
BY DEF FailInv, Shrinks

LEMMA TodoKept ==
    ASSUME ProbesInv, TodoInv, UNCHANGED rec, NEW P, Shrinks(P),
           \A p \in Probes : arms[p].pc = "idle" => arms'[p].pc = "idle"
    PROVE  TodoInv'
<1>1. \A u \in rec.todo : u[1] \in Probes
  BY DEF ProbesInv, PlainInv, Recs
<1>2. ASSUME NEW u \in rec.todo
      PROVE  arms'[u[1]].pc = "idle" /\ (Installed(u[1])' => installed'[u[1]].bp = u[2])
  BY <1>1 DEF TodoInv, Shrinks
<1> QED
  BY <1>2 DEF TodoInv, Installed

(* Captures that count for fewer probes, and for none of P. *)
Thinner(ds, cs, P) ==
    \A i \in DOMAIN ds : \E j \in DOMAIN cs : ds[i].who \subseteq cs[j].who \ P

LEMMA LineThinner ==
    ASSUME LineInv, captures \in Seq(Hit), NEW P, Shrinks(P), Thinner(captures', captures, P)
    PROVE  LineInv'
<1>1. ASSUME NEW i \in DOMAIN captures', NEW p \in captures'[i].who, NEW q \in captures'[i].who
      PROVE  installed'[p].bp = installed'[q].bp
  <2>1. PICK j \in DOMAIN captures : captures'[i].who \subseteq captures[j].who \ P
    BY DEF Thinner
  <2>2. captures[j].who \subseteq Probes
    <3>1. captures[j] \in Hit
      OBVIOUS
    <3> QED
      BY <3>1 DEF Hit
  <2>3. p \in Probes /\ q \in Probes /\ p \notin P /\ q \notin P
        /\ installed[p].bp = installed[q].bp
    BY <2>1, <2>2 DEF LineInv
  <2> QED
    BY <2>3 DEF Shrinks
<1> QED
  BY <1>1 DEF LineInv

LEMMA ThinForget ==
    ASSUME NEW cs \in Seq(Hit), NEW P
    PROVE  Thinner(Forget(P, cs), cs, P) /\ Thinner(Forget(P, Stale(cs)), cs, P)
<1>1. \A i \in DOMAIN cs : Forget(P, cs)[i].who \subseteq cs[i].who \ P
  BY ForgetHits
<1>2. DOMAIN Forget(P, cs) = DOMAIN cs
  BY DEF Forget
<1> DEFINE ds == Stale(cs)
<1>3. ds \in Seq(Hit)
  BY StaleHits
<1>4. DOMAIN ds = DOMAIN cs /\ \A i \in DOMAIN cs : ds[i].who = cs[i].who
  <2>1. \A i \in DOMAIN cs : cs[i] \in Hit
    OBVIOUS
  <2> QED
    BY <2>1 DEF Stale, Hit
<1> HIDE DEF ds
<1>5. \A i \in DOMAIN ds : Forget(P, ds)[i].who \subseteq ds[i].who \ P
  BY <1>3, ForgetHits
<1>6. DOMAIN Forget(P, ds) = DOMAIN ds
  BY DEF Forget
<1>7. Thinner(Forget(P, ds), cs, P)
  BY <1>4, <1>5, <1>6 DEF Thinner
<1> QED
  BY <1>1, <1>2, <1>7 DEF Thinner, ds

LEMMA ThinStale ==
    ASSUME NEW cs \in Seq(Hit)
    PROVE  Thinner(cs, cs, {}) /\ Thinner(Stale(cs), cs, {})
<1>1. \A i \in DOMAIN cs : cs[i] \in Hit
  OBVIOUS
<1>2. DOMAIN Stale(cs) = DOMAIN cs /\ \A i \in DOMAIN cs : Stale(cs)[i].who = cs[i].who
  BY <1>1 DEF Stale, Hit
<1> QED
  BY <1>2 DEF Thinner

LEMMA ThinLater ==
    ASSUME NEW cs \in Seq(Hit), cs # <<>>, NEW P
    PROVE  Thinner(Later(Forget(P, cs)), cs, P)
<1> DEFINE f == Forget(P, cs)
<1>1. /\ f \in Seq(Hit) /\ Len(f) = Len(cs)
      /\ \A i \in DOMAIN cs : f[i].who = cs[i].who \ P
  BY ForgetHits
<1> HIDE DEF f
<1>2. Len(cs) \in Nat /\ DOMAIN cs = 1..Len(cs)
  OBVIOUS
<1>3. DOMAIN Later(f) = 1..(Len(cs) - 1) /\ \A i \in 1..(Len(cs) - 1) : Later(f)[i] = f[i + 1]
  BY <1>1 DEF Later
<1>4. ASSUME NEW i \in DOMAIN Later(f)
      PROVE  \E j \in DOMAIN cs : Later(f)[i].who \subseteq cs[j].who \ P
  <2>1. i + 1 \in DOMAIN cs
    BY <1>2, <1>3
  <2>2. Later(f)[i].who = cs[i + 1].who \ P
    BY <1>1, <1>3, <2>1
  <2> QED
    BY <2>1, <2>2
<1> QED
  BY <1>4 DEF Thinner, f

-----------------------------------------------------------------------------
(* Every step keeps the breakpoint invariant *)

(* An arm that held nothing claims a breakpoint others share. *)
LEMMA ClaimBreakpoints ==
    ASSUME ProbesInv, BreakpointInv, NEW p \in Probes, ~Installed(p),
           arms[p].pc \in {"idle", "woken"}, arms[p].pc = "idle" => rec.pc = "idle",
           NEW d \in Defs, NEW k \in Key, byLocation[k] # None, Claim(p, d, k),
           UNCHANGED <<installed, byLocation, live, dropping, rec, captures, mode, posted>>
    PROVE  BreakpointInv'
<1> DEFINE b == byLocation[k]
           a == [NoArm EXCEPT !.pc = "claimed", !.def = d, !.key = k, !.bp = b]
           h == [holders[b] EXCEPT !.claims = holders[b].claims \cup {p}]
<1>1. b \in Key /\ k \in holders[b].keys
  BY DEF ProbesInv, RegInv, BreakpointInv, ClaimInv
<1>2. holders' = [holders EXCEPT ![b] = h] /\ arms' = [arms EXCEPT ![p] = a]
  BY DEF Claim
<1>3. holders \in [Key -> Holder] /\ byLocation \in [Key -> Key \cup {None}]
      /\ arms \in [Probes -> Arm]
  BY DEF ProbesInv, RegInv, ArmsWell
<1>4. h.keys = holders[b].keys /\ h.claims = holders[b].claims \cup {p}
  BY <1>1, <1>3 DEF Holder
<1> HIDE DEF b
<1>5. a.pc = "claimed" /\ a.bp = b
  BY NoArmType DEF Arm
<1> HIDE DEF a, h
<1>6. arms'[p] = a /\ \A q \in Probes : q # p => arms'[q] = arms[q]
  BY <1>2, <1>3
<1>7. holders'[b] = h /\ \A l \in Key : l # b => holders'[l] = holders[l]
  BY <1>1, <1>2, <1>3
<1>8. \A l \in Key : holders'[l].keys = holders[l].keys
  BY <1>4, <1>7
<1>9. Registered(b) /\ b \in live /\ ~mode.failed
  BY <1>1 DEF Registered, BreakpointInv, LiveInv, FailInv
<1>10. ASSUME NEW q \in Probes, NEW l \in Key
       PROVE  Holding(q, l)' <=> (Holding(q, l) \/ (q = p /\ l = b))
  <2>1. CASE q = p
    <3>1. ~Holding(q, l)
      BY <2>1 DEF Holding
    <3>2. Holding(q, l)' <=> l = b
      BY <1>5, <1>6, <1>9, <2>1 DEF Holding, Installed
    <3> QED
      BY <2>1, <3>1, <3>2
  <2>2. CASE q # p
    <3>1. Holding(q, l)' <=> Holding(q, l)
      BY <1>6, <2>2 DEF Holding, Installed
    <3> QED
      BY <2>2, <3>1
  <2> QED
    BY <2>1, <2>2
<1>11. ClaimInv'
  <2>1. ASSUME NEW l \in Key, NEW q \in Probes PROVE q \in holders'[l].claims <=> Holding(q, l)'
    BY <1>4, <1>7, <1>10 DEF BreakpointInv, ClaimInv
  <2>2. ASSUME NEW l \in Key PROVE Registered(l)' <=> holders'[l].claims # {}
    BY <1>4, <1>7, <1>8, <1>9 DEF BreakpointInv, ClaimInv, Registered
  <2>3. ASSUME NEW l \in Key, byLocation'[l] # None PROVE l \in holders'[byLocation'[l]].keys
    BY <1>3, <1>8, <2>3 DEF BreakpointInv, ClaimInv
  <2> QED
    BY <2>1, <2>2, <2>3 DEF ClaimInv
<1>12. \A l \in Key : Registered(l)' <=> Registered(l)
  BY <1>8 DEF Registered
<1>13. LiveInv'
  BY <1>12, SameLive DEF BreakpointInv, ProbesInv, PlainInv
<1>14. TodoInv'
  <2>1. \A u \in rec.todo : u[1] \in Probes /\ u[1] # p
    BY DEF BreakpointInv, TodoInv, ProbesInv, PlainInv, Recs
  <2> QED
    BY <1>6, <2>1 DEF BreakpointInv, TodoInv, Installed
<1>15. FailInv' /\ LineInv'
  BY DEF BreakpointInv, FailInv, LineInv, Installed
<1> QED
  BY <1>11, <1>13, <1>14, <1>15 DEF BreakpointInv

(* Steps of the arms that change nobody's hold of a breakpoint. *)
LEMMA ArmsOnly ==
    ASSUME ProbesInv, BreakpointInv,
           \A q \in Probes, l \in Key : Holding(q, l)' <=> Holding(q, l),
           \A k : Asked(posted', k) <=> Asked(posted, k),
           AskedOnce(posted) => AskedOnce(posted'),
           \A u \in rec.todo : arms'[u[1]].pc = "idle",
           UNCHANGED <<installed, holders, byLocation, live, dropping, rec, captures, mode>>
    PROVE  BreakpointInv'
<1>1. ClaimInv' /\ \A l \in Key : Registered(l)' <=> Registered(l)
  BY SameClaims DEF BreakpointInv
<1>2. LiveInv'
  BY <1>1, SameLive DEF BreakpointInv, ProbesInv, PlainInv
<1>3. TodoInv'
  BY DEF BreakpointInv, TodoInv, Installed
<1>4. FailInv' /\ LineInv'
  BY DEF BreakpointInv, FailInv, LineInv, Installed
<1> QED
  BY <1>1, <1>2, <1>3, <1>4 DEF BreakpointInv

(* The arm of p changes, and does not claim anything before or after. *)
LEMMA OneArmHolding ==
    ASSUME ProbesInv, NEW p \in Probes, arms[p].pc # "claimed",
           NEW a, a.pc # "claimed", arms' = [arms EXCEPT ![p] = a],
           UNCHANGED <<installed, mode>>
    PROVE  \A q \in Probes, l \in Key : Holding(q, l)' <=> Holding(q, l)
<1>1. arms'[p] = a /\ \A q \in Probes : q # p => arms'[q] = arms[q]
  BY DEF ProbesInv, ArmsWell
<1>2. ASSUME NEW q \in Probes, NEW l \in Key PROVE Holding(q, l)' <=> Holding(q, l)
  <2>1. CASE q = p
    BY <1>1, <2>1 DEF Holding, Installed
  <2>2. CASE q # p
    BY <1>1, <2>2 DEF Holding, Installed
  <2> QED
    BY <2>1, <2>2
<1> QED
  BY <1>2

(* A probe that is armed anew is not one that is to be uninstalled. *)
LEMMA ArmNotDue ==
    ASSUME ProbesInv, BreakpointInv, NEW p \in Probes,
           arms[p].pc = "idle" => rec.pc = "idle", NEW a, arms' = [arms EXCEPT ![p] = a]
    PROVE  \A u \in rec.todo : arms'[u[1]].pc = "idle"
<1>1. \A u \in rec.todo : u[1] \in Probes /\ u[1] # p /\ arms[u[1]].pc = "idle"
  BY DEF BreakpointInv, TodoInv, ProbesInv, PlainInv, Recs
<1>2. \A q \in Probes : q # p => arms'[q] = arms[q]
  BY DEF ProbesInv, ArmsWell
<1> QED
  BY <1>1, <1>2

LEMMA AttemptBreakpoints ==
    ASSUME ProbesInv, BreakpointInv, NEW p \in Probes,
           arms[p].pc \in {"idle", "woken"}, arms[p].pc = "idle" => rec.pc = "idle",
           NEW d \in Defs, NEW k \in Key, Attempt(p, d, k),
           UNCHANGED <<installed, holders, byLocation, live, dropping, rec, captures, mode>>
    PROVE  BreakpointInv'
<1> DEFINE a == [NoArm EXCEPT !.pc = "setting", !.def = d, !.key = k]
           c == Command("set", k, p)
<1>1. posted' = Append(posted, c) /\ arms' = [arms EXCEPT ![p] = a]
  BY DEF Attempt
<1>2. a.pc = "setting"
  BY NoArmType DEF Arm
<1>3. c \in Cmd /\ c.op = "set"
  BY CommandType
<1> HIDE DEF a, c
<1>4. posted \in Seq(Cmd)
  BY DEF ProbesInv, Awaited
<1>5. /\ \A l : Asked(posted', l) <=> Asked(posted, l)
      /\ AskedOnce(posted) => AskedOnce(posted')
  BY <1>1, <1>3, <1>4, AskMore
<1>6. \A q \in Probes, l \in Key : Holding(q, l)' <=> Holding(q, l)
  BY <1>1, <1>2, OneArmHolding
<1>7. \A u \in rec.todo : arms'[u[1]].pc = "idle"
  BY <1>1, ArmNotDue
<1> QED
  BY <1>5, <1>6, <1>7, ArmsOnly

LEMMA EnsureArmedBreakpoints ==
    ASSUME ~ScriptsDuringReconcile, ProbesInv, BreakpointInv, NEW p \in Probes, EnsureArmed(p)
    PROVE  BreakpointInv'
<1> DEFINE d == desired[p]
           s == resolveBySuffix(d)
           k == <<s, Def[d].pos>>
<1>1. /\ d # None /\ ~Installed(p) /\ arms[p].pc = "idle" /\ s # None /\ rec.pc = "idle"
      /\ UNCHANGED <<installed, byLocation, live, dropping, rec, captures, mode>>
  BY DEF EnsureArmed
<1>2. d \in Defs
  BY <1>1 DEF ProbesInv, PlainInv
<1>3. s \in Scripts
  BY <1>1, ResolveType DEF ProbesInv, PlainInv
<1>4. Def[d].pos \in Positions
  BY <1>2, DefAssumption
<1>5. k \in Key
  BY <1>3, <1>4 DEF Key
<1>6. \/ byLocation[k] # None /\ Claim(p, d, k) /\ UNCHANGED posted
      \/ /\ \E o : arms' = [arms EXCEPT ![p] = [NoArm EXCEPT !.pc = "waiting", !.def = d,
                                                             !.key = k, !.on = o]]
         /\ UNCHANGED <<holders, posted>>
      \/ Attempt(p, d, k) /\ UNCHANGED holders
  BY DEF EnsureArmed
<1> HIDE DEF d, s, k
<1>7. CASE byLocation[k] # None /\ Claim(p, d, k) /\ UNCHANGED posted
  BY <1>1, <1>2, <1>5, <1>7, ClaimBreakpoints
<1>8. CASE Attempt(p, d, k) /\ UNCHANGED holders
  BY <1>1, <1>2, <1>5, <1>8, AttemptBreakpoints
<1>9. CASE /\ \E o : arms' = [arms EXCEPT ![p] = [NoArm EXCEPT !.pc = "waiting", !.def = d,
                                                               !.key = k, !.on = o]]
           /\ UNCHANGED <<holders, posted>>
  <2>1. PICK o : arms' = [arms EXCEPT ![p] = [NoArm EXCEPT !.pc = "waiting", !.def = d,
                                                           !.key = k, !.on = o]]
    BY <1>9
  <2> DEFINE a == [NoArm EXCEPT !.pc = "waiting", !.def = d, !.key = k, !.on = o]
  <2>2. arms' = [arms EXCEPT ![p] = a]
    BY <2>1
  <2>3. a.pc = "waiting"
    BY NoArmType DEF Arm
  <2> HIDE DEF a
  <2>4. \A q \in Probes, l \in Key : Holding(q, l)' <=> Holding(q, l)
    BY <1>1, <2>2, <2>3, OneArmHolding
  <2>5. \A u \in rec.todo : arms'[u[1]].pc = "idle"
    BY <1>1, <2>2, ArmNotDue
  <2>6. UNCHANGED <<holders, posted>>
    BY <1>9
  <2> QED
    BY <1>1, <2>4, <2>5, <2>6, ArmsOnly
<1> QED
  BY <1>6, <1>7, <1>8, <1>9

LEMMA WaiterResumesBreakpoints ==
    ASSUME ProbesInv, BreakpointInv, NEW p \in Probes, WaiterResumes(p)
    PROVE  BreakpointInv'
<1> DEFINE d == arms[p].def
           k == arms[p].key
<1>1. ArmWell(arms[p]) /\ arms[p].pc = "woken"
  BY DEF WaiterResumes, ProbesInv, ArmsWell
<1>2. d \in Defs /\ k \in Key
  BY <1>1 DEF ArmWell
<1>3. ~Installed(p)
  BY <1>1 DEF ProbesInv, IdleArms
<1>4. \/ byLocation[k] # None /\ Claim(p, d, k) /\ UNCHANGED <<posted, arming>>
      \/ Attempt(p, d, k) /\ UNCHANGED holders
  BY DEF WaiterResumes
<1>5. UNCHANGED <<installed, byLocation, live, dropping, rec, captures, mode>>
  BY DEF WaiterResumes
<1> HIDE DEF d, k
<1>6. CASE byLocation[k] # None /\ Claim(p, d, k) /\ UNCHANGED <<posted, arming>>
  BY <1>1, <1>2, <1>3, <1>5, <1>6, ClaimBreakpoints
<1>7. CASE Attempt(p, d, k) /\ UNCHANGED holders
  BY <1>1, <1>2, <1>5, <1>7, AttemptBreakpoints
<1> QED
  BY <1>4, <1>6, <1>7

LEMMA FinishArmBreakpoints ==
    ASSUME ProbesInv, BreakpointInv, NEW p \in Probes, FinishArm(p)
    PROVE  BreakpointInv'
<1> DEFINE a == arms[p]
           keep == desired[p] = a.def /\ mode.stop # "stopped" /\ ~mode.suspended
           k == a.bp
<1>1. a.pc = "claimed" /\ UNCHANGED <<live, dropping, rec, captures, mode>>
  BY DEF FinishArm
<1>2. ArmWell(a) /\ arms \in [Probes -> Arm] /\ installed \in [Probes -> Inst]
  BY DEF ProbesInv, ArmsWell, HitInv
<1>3. a.def \in Defs /\ a.def # None /\ k \in Key
  BY <1>1, <1>2, LimitType DEF ArmWell
<1>4. ~Installed(p)
  BY <1>1 DEF ProbesInv, IdleArms
<1>5. \A u \in rec.todo : u[1] \in Probes /\ u[1] # p /\ arms[u[1]].pc = "idle"
  BY <1>1 DEF BreakpointInv, TodoInv, ProbesInv, PlainInv, Recs
<1>6. CASE keep
  <2>1. /\ installed' = [installed EXCEPT
                ![p] = [def |-> a.def, bp |-> k, hits |-> 0, pending |-> 0]]
        /\ arms' = [arms EXCEPT ![p] = NoArm]
        /\ UNCHANGED <<holders, byLocation, posted>>
    BY <1>6 DEF FinishArm
  <2>2. ~mode.failed
    BY <1>6 DEF BreakpointInv, FailInv
  <2> HIDE DEF keep
  <2>3. /\ arms'[p] = NoArm /\ installed'[p].def = a.def /\ installed'[p].bp = k
        /\ \A q \in Probes : q # p => arms'[q] = arms[q] /\ installed'[q] = installed[q]
    BY <1>2, <2>1
  <2>4. ASSUME NEW q \in Probes, NEW l \in Key PROVE Holding(q, l)' <=> Holding(q, l)
    <3>1. CASE q = p
      <4>1. Holding(q, l) <=> l = k
        BY <1>1, <1>4, <2>2, <3>1 DEF Holding
      <4>2. Holding(q, l)' <=> l = k
        BY <1>3, <2>3, <3>1, NoArmType DEF Holding, Installed
      <4> QED
        BY <4>1, <4>2
    <3>2. CASE q # p
      BY <1>1, <2>3, <3>2 DEF Holding, Installed
    <3> QED
      BY <3>1, <3>2
  <2>5. ClaimInv' /\ \A l \in Key : Registered(l)' <=> Registered(l)
    BY <2>1, <2>4, SameClaims DEF BreakpointInv
  <2>6. LiveInv'
    BY <1>1, <2>1, <2>5, SameLive DEF BreakpointInv, ProbesInv, PlainInv
  <2>7. FailInv'
    BY <1>1, <2>2 DEF FailInv
  <2>8. TodoInv'
    BY <1>1, <1>5, <2>3 DEF BreakpointInv, TodoInv, Installed
  <2>9. LineInv'
    <3>1. ASSUME NEW i \in DOMAIN captures PROVE p \notin captures[i].who /\ captures[i].who \subseteq Probes
      <4>1. captures \in Seq(Hit) /\ HitsOf(p)
        BY DEF ProbesInv, HitInv
      <4>2. captures[i] \in Hit
        BY <4>1
      <4>3. Cardinality(Pending(p, captures)) = 0 /\ IsFiniteSet(Pending(p, captures))
        BY <1>4, <4>1, AbsentType, PendingFinite DEF HitsOf
      <4>4. Pending(p, captures) = {}
        BY <4>3, FS_EmptySet
      <4> QED
        BY <4>2, <4>4 DEF Pending, Hit
    <3> QED
      BY <1>1, <2>3, <3>1 DEF BreakpointInv, LineInv
  <2> QED
    BY <2>5, <2>6, <2>7, <2>8, <2>9 DEF BreakpointInv
<1>7. CASE ~keep
  <2> DEFINE r == [a EXCEPT !.pc = "releasing"]
             P == {p}
  <2>1. /\ Unclaim(k, P)
        /\ posted' = IF LastClaim(k, P) THEN Append(posted, Command("remove", k, p)) ELSE posted
        /\ arms' = [arms EXCEPT ![p] = r] \/ arms' = [arms EXCEPT ![p] = NoArm]
        /\ UNCHANGED installed
    BY <1>7 DEF FinishArm
  <2>2. r.pc = "releasing"
    BY <1>2, StageType
  <2> HIDE DEF keep, r
  <2>3. /\ arms'[p].pc # "claimed"
        /\ \A q \in Probes : q # p => arms'[q] = arms[q]
    BY <1>2, <2>1, <2>2, NoArmType
  <2>4. ASSUME NEW q \in Probes, NEW l \in Key
        PROVE  Holding(q, l)' <=> (Holding(q, l) /\ ~(l = k /\ q \in P))
    <3>1. CASE q = p
      <4>1. ~Holding(q, l)'
        BY <1>4, <2>1, <2>3, <3>1 DEF Holding, Installed
      <4>2. Holding(q, l) => l = k
        BY <1>4, <3>1 DEF Holding
      <4> QED
        BY <3>1, <4>1, <4>2
    <3>2. CASE q # p
      <4>1. Holding(q, l)' <=> Holding(q, l)
        BY <1>1, <2>1, <2>3, <3>2 DEF Holding, Installed
      <4> QED
        BY <3>2, <4>1
    <3> QED
      BY <3>1, <3>2
  <2> HIDE DEF P, k
  <2>5. ClaimInv' /\ LiveInv'
    BY <1>1, <1>3, <2>1, <2>4, GiveUp DEF BreakpointInv
  <2>6. TodoInv'
    BY <1>1, <1>5, <2>1, <2>3 DEF BreakpointInv, TodoInv, Installed
  <2>7. FailInv' /\ LineInv'
    BY <1>1, <2>1 DEF BreakpointInv, FailInv, LineInv, Installed
  <2> QED
    BY <2>5, <2>6, <2>7 DEF BreakpointInv
<1> QED
  BY <1>6, <1>7

(* The arms others wait for settle: nobody's claim changes but that of p. *)
LEMMA WokenHolding ==
    ASSUME NEW p \in Probes, MayWake(arms, arms', {p}), UNCHANGED <<installed, mode>>
    PROVE  \A q \in Probes, l \in Key : q # p => (Holding(q, l)' <=> Holding(q, l))
<1>1. ASSUME NEW q \in Probes, NEW l \in Key, q # p PROVE Holding(q, l)' <=> Holding(q, l)
  <2>1. arms'[q] = arms[q] \/ (arms[q].pc = "waiting" /\ arms'[q].pc = "woken")
    BY <1>1 DEF MayWake
  <2> QED
    BY <2>1 DEF Holding, Installed
<1> QED
  BY <1>1

LEMMA WokenTodo ==
    ASSUME ProbesInv, BreakpointInv, NEW p \in Probes, arms[p].pc # "idle",
           MayWake(arms, arms', {p})
    PROVE  \A u \in rec.todo : arms'[u[1]].pc = "idle"
<1>1. \A u \in rec.todo : u[1] \in Probes /\ u[1] # p /\ arms[u[1]].pc = "idle"
  BY DEF BreakpointInv, TodoInv, ProbesInv, PlainInv, Recs
<1> QED
  BY <1>1 DEF MayWake

(* setBreakpointByUrl is answered with a breakpoint: it is registered. *)
LEMMA RegisterBreakpoints ==
    ASSUME ProbesInv, BreakpointInv, NEW p \in Probes, arms[p].pc = "setting",
           NEW k \in Key, ~mode.failed, ~Taken(k), HasCode(k),
           live' = live \cup {k}, Register(k, p),
           MayWake(arms, arms', {p}), arms'[p].pc = "claimed", arms'[p].bp = k,
           \A l : Asked(posted', l) <=> Asked(posted, l),
           AskedOnce(posted) => AskedOnce(posted'),
           UNCHANGED <<installed, dropping, rec, captures, mode>>
    PROVE  BreakpointInv'
<1> DEFINE resolved == <<k[1], Snap[k[2]]>>
           keys == {k} \cup {l \in {resolved} : byLocation[l] = None}
           h == [keys |-> keys, claims |-> {p}]
<1>1. /\ holders' = [holders EXCEPT ![k] = h]
      /\ byLocation' = [l \in Key |-> IF l \in keys THEN k ELSE byLocation[l]]
  BY DEF Register
<1>2. h.keys = keys /\ h.claims = {p} /\ k \in keys
  OBVIOUS
<1> HIDE DEF h, keys
<1>3. holders \in [Key -> Holder] /\ byLocation \in [Key -> Key \cup {None}]
      /\ live \subseteq Key
  BY DEF ProbesInv, RegInv, PlainInv
<1>4. holders'[k] = h /\ \A l \in Key : l # k => holders'[l] = holders[l]
  BY <1>1, <1>3
<1>5. k \notin live /\ ~Registered(k) /\ k \notin dropping /\ ~Asked(posted, k)
  <2>1. k \notin live
    BY DEF Taken
  <2> QED
    BY <2>1 DEF BreakpointInv, LiveInv
<1>6. ~Installed(p)
  BY DEF ProbesInv, IdleArms
<1>7. ASSUME NEW q \in Probes, NEW l \in Key
      PROVE  Holding(q, l)' <=> (Holding(q, l) \/ (q = p /\ l = k))
  <2>1. CASE q = p
    <3>1. ~Holding(q, l)
      BY <1>6, <2>1 DEF Holding
    <3>2. Holding(q, l)' <=> l = k
      BY <1>6, <2>1 DEF Holding, Installed
    <3> QED
      BY <2>1, <3>1, <3>2
  <2>2. CASE q # p
    BY <2>2, WokenHolding
  <2> QED
    BY <2>1, <2>2
<1>8. ClaimInv'
  <2>1. ASSUME NEW l \in Key, NEW q \in Probes PROVE q \in holders'[l].claims <=> Holding(q, l)'
    <3>1. CASE l = k
      <4>1. ~Holding(q, k)
        BY <1>5 DEF BreakpointInv, ClaimInv
      <4> QED
        BY <1>2, <1>4, <1>7, <3>1, <4>1
    <3>2. CASE l # k
      BY <1>4, <1>7, <3>2 DEF BreakpointInv, ClaimInv
    <3> QED
      BY <3>1, <3>2
  <2>2. ASSUME NEW l \in Key PROVE Registered(l)' <=> holders'[l].claims # {}
    BY <1>2, <1>4 DEF BreakpointInv, ClaimInv, Registered
  <2>3. ASSUME NEW l \in Key, byLocation'[l] # None PROVE l \in holders'[byLocation'[l]].keys
    <3>1. CASE l \in keys
      BY <1>1, <1>2, <1>4, <3>1
    <3>2. CASE l \notin keys
      <4>1. byLocation'[l] = byLocation[l] /\ byLocation[l] \in Key
        BY <1>1, <1>3, <2>3, <3>2
      <4>2. l \in holders[byLocation[l]].keys
        BY <2>3, <4>1 DEF BreakpointInv, ClaimInv
      <4>3. byLocation[l] # k
        BY <1>5, <4>2 DEF Registered
      <4> QED
        BY <1>4, <4>1, <4>2, <4>3
    <3> QED
      BY <3>1, <3>2
  <2> QED
    BY <2>1, <2>2, <2>3 DEF ClaimInv
<1>9. \A l \in Key : Registered(l)' <=> (Registered(l) \/ l = k)
  BY <1>2, <1>4 DEF Registered
<1>10. LiveInv'
  BY <1>3, <1>5, <1>9 DEF BreakpointInv, LiveInv
<1>11. FailInv' /\ LineInv'
  BY DEF BreakpointInv, FailInv, LineInv
<1>12. TodoInv'
  <2>1. \A u \in rec.todo : arms'[u[1]].pc = "idle"
    BY WokenTodo
  <2> QED
    BY <2>1 DEF BreakpointInv, TodoInv, Installed
<1> QED
  BY <1>8, <1>10, <1>11, <1>12 DEF BreakpointInv

LEMMA AnswerSetBreakpoints ==
    ASSUME ProbesInv, BreakpointInv, AnswerSet
    PROVE  BreakpointInv'
<1> DEFINE c == Head(posted)
           p == c.by
           k == c.key
           ps == Tail(posted)
<1>1. posted # <<>> /\ c.op = "set" /\ UNCHANGED <<installed, dropping, rec, captures, mode>>
  BY DEF AnswerSet
<1>2. c \in Cmd /\ Expected(c, arms)
  BY <1>1, TakeAwaited DEF ProbesInv
<1>3. p \in Probes /\ k \in Key /\ arms[p].pc = "setting"
  BY <1>1, <1>2 DEF Cmd, Expected
<1>4. ArmWell(arms[p]) /\ ArmsWell(arms)
  BY <1>3 DEF ProbesInv, ArmsWell
<1>5. \/ /\ arms' = Wake(p, [arms EXCEPT ![p] = NoArm])
         /\ posted' = ps
         /\ UNCHANGED <<holders, byLocation, live>>
      \/ /\ ~HasCode(k)
         /\ posted' = Append(ps, Command("remove", k, p))
         /\ arms' = [arms EXCEPT ![p] = [arms[p] EXCEPT !.pc = "clearing"]]
         /\ UNCHANGED <<holders, byLocation, live>>
      \/ /\ ~mode.failed /\ ~Taken(k) /\ HasCode(k)
         /\ live' = live \cup {k}
         /\ Register(k, p)
         /\ arms' = Wake(p, [arms EXCEPT ![p] = [arms[p] EXCEPT !.pc = "claimed", !.bp = k]])
         /\ posted' = ps
  BY DEF AnswerSet, HasCode
<1>6. posted \in Seq(Cmd)
  BY DEF ProbesInv, Awaited
<1>7. /\ ps \in Seq(Cmd) /\ \A l : Asked(ps, l) <=> Asked(posted, l)
      /\ AskedOnce(posted) => AskedOnce(ps)
  BY <1>1, <1>6, AskLess
<1> HIDE DEF c, k, ps
<1>8. CASE /\ arms' = Wake(p, [arms EXCEPT ![p] = NoArm])
           /\ posted' = ps
           /\ UNCHANGED <<holders, byLocation, live>>
  <2>1. MayWake(arms, arms', {p}) /\ arms'[p] = NoArm
    <3>1. arms' = Wake(p, [arms EXCEPT ![p] = NoArm])
      BY <1>8
    <3> QED
      BY <1>3, <1>4, <3>1, NoArmType, ArmGoesOn
  <2>2. ASSUME NEW q \in Probes, NEW l \in Key PROVE Holding(q, l)' <=> Holding(q, l)
    <3>1. CASE q = p
      BY <1>1, <1>3, <2>1, <3>1, NoArmType DEF Holding, Installed
    <3>2. CASE q # p
      BY <1>1, <1>3, <2>1, <3>2, WokenHolding
    <3> QED
      BY <3>1, <3>2
  <2>3. \A u \in rec.todo : arms'[u[1]].pc = "idle"
    BY <1>3, <2>1, WokenTodo
  <2>4. posted' = ps /\ UNCHANGED <<holders, byLocation, live>>
    BY <1>8
  <2> QED
    BY <1>1, <1>7, <2>2, <2>3, <2>4, ArmsOnly
<1>9. CASE /\ ~HasCode(k)
           /\ posted' = Append(ps, Command("remove", k, p))
           /\ arms' = [arms EXCEPT ![p] = [arms[p] EXCEPT !.pc = "clearing"]]
           /\ UNCHANGED <<holders, byLocation, live>>
  <2> DEFINE a == [arms[p] EXCEPT !.pc = "clearing"]
             e == Command("remove", k, p)
  <2>1. a.pc = "clearing"
    BY <1>4, StageType
  <2>2. e \in Cmd /\ e.op = "remove" /\ e.key = k
    BY <1>3, CommandType
  <2>3. /\ ~HasCode(k) /\ posted' = Append(ps, e) /\ arms' = [arms EXCEPT ![p] = a]
        /\ UNCHANGED <<holders, byLocation, live>>
    BY <1>9
  <2> HIDE DEF a, e
  <2>4. \A q \in Probes, l \in Key : Holding(q, l)' <=> Holding(q, l)
    BY <1>1, <1>3, <2>1, <2>3, OneArmHolding
  <2>5. ClaimInv' /\ \A l \in Key : Registered(l)' <=> Registered(l)
    BY <2>3, <2>4, SameClaims DEF BreakpointInv
  <2>6. /\ \A l : Asked(posted', l) <=> (Asked(posted, l) \/ l = k)
        /\ AskedOnce(posted) => AskedOnce(posted')
    BY <1>7, <2>2, <2>3, AskMore
  <2>7. LiveInv'
    BY <1>1, <2>3, <2>5, <2>6 DEF BreakpointInv, LiveInv, ProbesInv, PlainInv
  <2>8. TodoInv'
    <3>1. \A u \in rec.todo : arms'[u[1]].pc = "idle"
      BY <1>3, <2>3, ArmNotDue
    <3> QED
      BY <1>1, <3>1 DEF BreakpointInv, TodoInv, Installed
  <2>9. FailInv' /\ LineInv'
    BY <1>1, <2>3 DEF BreakpointInv, FailInv, LineInv, Installed
  <2> QED
    BY <2>5, <2>7, <2>8, <2>9 DEF BreakpointInv
<1>10. CASE /\ ~mode.failed /\ ~Taken(k) /\ HasCode(k)
            /\ live' = live \cup {k}
            /\ Register(k, p)
            /\ arms' = Wake(p, [arms EXCEPT ![p] = [arms[p] EXCEPT !.pc = "claimed", !.bp = k]])
            /\ posted' = ps
  <2> DEFINE a == [arms[p] EXCEPT !.pc = "claimed", !.bp = k]
  <2>1. ArmWell(a) /\ a.pc = "claimed" /\ a.bp = k
    <3>1. ArmWell(a) /\ a.pc = "claimed"
      BY <1>3, <1>4, ClaimedType
    <3>2. arms[p] \in Arm
      BY <1>4 DEF ArmWell
    <3>3. a.bp = k
      BY <3>2 DEF Arm
    <3> HIDE DEF a
    <3> QED
      BY <3>1, <3>3
  <2>2. arms' = Wake(p, [arms EXCEPT ![p] = a])
    BY <1>10
  <2> HIDE DEF a
  <2>3. MayWake(arms, arms', {p}) /\ arms'[p] = a
    BY <1>3, <1>4, <2>1, <2>2, ArmGoesOn
  <2>4. ~mode.failed /\ ~Taken(k) /\ HasCode(k) /\ live' = live \cup {k} /\ Register(k, p)
        /\ posted' = ps
    BY <1>10
  <2> QED
    BY <1>1, <1>3, <1>7, <2>1, <2>3, <2>4, RegisterBreakpoints
<1> QED
  BY <1>5, <1>8, <1>9, <1>10

LEMMA AnswerRemoveBreakpoints ==
    ASSUME ProbesInv, BreakpointInv, AnswerRemove
    PROVE  BreakpointInv'
<1> DEFINE c == Head(posted)
           p == c.by
           k == c.key
<1>1. /\ posted # <<>> /\ c.op = "remove" /\ posted' = Tail(posted) /\ live' = live \ {k}
      /\ UNCHANGED <<installed, holders, byLocation, dropping, captures, mode>>
  BY DEF AnswerRemove
<1>2. c \in Cmd /\ Expected(c, arms) /\ posted \in Seq(Cmd)
  BY <1>1, TakeAwaited DEF ProbesInv, Awaited
<1>3. k \in Key /\ (p \in Probes => arms[p].pc \in {"clearing", "releasing"})
  BY <1>1, <1>2 DEF Cmd, Expected
<1>4. /\ \A l : Asked(posted, l) <=> (Asked(posted', l) \/ l = k)
      /\ AskedOnce(posted) => AskedOnce(posted')
      /\ (AskedOnce(posted) /\ HasCode(k)) => ~Asked(posted', k)
  <2>1. posted' = Tail(posted) /\ Head(posted).op = "remove" /\ Head(posted).key = k
    BY <1>1
  <2> HIDE DEF c, k
  <2> QED
    BY <1>1, <1>2, <2>1, AskLess
<1>5. /\ \A q \in Probes, l \in Key : Holding(q, l)' <=> Holding(q, l)
      /\ \A u \in rec.todo : arms'[u[1]].pc = "idle"
  <2>1. CASE p \notin Probes
    <3>1. arms' = arms
      BY <2>1 DEF AnswerRemove
    <3> QED
      BY <1>1, <3>1 DEF Holding, Installed, BreakpointInv, TodoInv
  <2>2. CASE p \in Probes
    <3>1. arms' = [arms EXCEPT ![p] = NoArm] \/ arms' = Wake(p, [arms EXCEPT ![p] = NoArm])
      BY <2>2 DEF AnswerRemove
    <3>2. ArmsWell(arms)
      BY DEF ProbesInv
    <3> HIDE DEF c
    <3>3. MayWake(arms, arms', {p}) /\ arms'[p] = NoArm
      BY <2>2, <3>1, <3>2, NoArmType, ArmGoesOn
    <3>4. ASSUME NEW q \in Probes, NEW l \in Key PROVE Holding(q, l)' <=> Holding(q, l)
      <4>1. CASE q = p
        BY <1>1, <1>3, <2>2, <3>3, <4>1, NoArmType DEF Holding, Installed
      <4>2. CASE q # p
        BY <1>1, <2>2, <3>3, <4>2, WokenHolding
      <4> QED
        BY <4>1, <4>2
    <3>5. \A u \in rec.todo : arms'[u[1]].pc = "idle"
      BY <1>3, <2>2, <3>3, WokenTodo
    <3> QED
      BY <3>4, <3>5
  <2> QED
    BY <2>1, <2>2
<1>6. rec' = rec \/ (rec'.pc = "resumed" /\ rec'.todo = rec.todo)
  <2>1. rec \in Recs
    BY DEF ProbesInv, PlainInv
  <2>2. rec' = rec \/ rec' = [rec EXCEPT !.pc = "resumed"]
    BY DEF AnswerRemove
  <2> QED
    BY <2>1, <2>2 DEF Recs
<1> HIDE DEF c, k
<1>7. ClaimInv' /\ \A l \in Key : Registered(l)' <=> Registered(l)
  BY <1>1, <1>5, SameClaims DEF BreakpointInv
<1>8. LiveInv'
  <2>0. live \subseteq Key
    BY DEF ProbesInv, PlainInv
  <2>1. ASSUME NEW l \in Key, Registered(l)'
        PROVE  l \in live' /\ l \notin dropping' /\ ~Asked(posted', l)
    BY <1>1, <1>4, <1>7, <2>1 DEF BreakpointInv, LiveInv
  <2>2. ASSUME NEW l \in live'
        PROVE  HasCode(l) /\ (Registered(l)' \/ l \in dropping' \/ Asked(posted', l))
    BY <1>1, <1>4, <1>7, <2>0 DEF BreakpointInv, LiveInv
  <2>3. ASSUME ~mode.failed
        PROVE  /\ AskedOnce(posted') /\ dropping' \subseteq live'
               /\ \A l \in Key : (HasCode(l) /\ Asked(posted', l)) => l \in live' /\ l \notin dropping'
    <3>1. AskedOnce(posted) /\ dropping \subseteq live
          /\ \A l \in Key : (HasCode(l) /\ Asked(posted, l)) => l \in live /\ l \notin dropping
      BY <2>3 DEF BreakpointInv, LiveInv
    <3>2. \A l \in live : HasCode(l)
      BY DEF BreakpointInv, LiveInv
    <3>3. k \notin dropping
      BY <1>3, <1>4, <3>1, <3>2
    <3> QED
      BY <1>1, <1>4, <3>1, <3>3
  <2> QED
    BY <1>1, <2>1, <2>2, <2>3 DEF LiveInv
<1>9. TodoInv'
  BY <1>1, <1>5, <1>6 DEF BreakpointInv, TodoInv, Installed
<1>10. FailInv' /\ LineInv'
  BY <1>1 DEF BreakpointInv, FailInv, LineInv, Installed
<1> QED
  BY <1>7, <1>8, <1>9, <1>10 DEF BreakpointInv

LEMMA UninstallBreakpoints ==
    ASSUME ProbesInv, BreakpointInv, NEW next,
           NEW todo \in SUBSET (Probes \X Key), NEW cs \in Seq(Hit),
           \A u \in todo : /\ arms[u[1]].pc = "idle"
                           /\ Installed(u[1]) => installed[u[1]].bp = u[2],
           \A p : Pending(p, cs) = Pending(p, captures),
           cs = captures \/ cs = Stale(captures),
           UninstallThenReplace(next, todo, cs),
           UNCHANGED <<arms, live, dropping, mode>>
    PROVE  BreakpointInv'
<1>0. captures \in Seq(Hit) /\ installed \in [Probes -> Inst]
  BY DEF ProbesInv, HitInv
<1>1. CASE todo # {} /\ Uninstall(next, todo, cs)
  <2>1. PICK u \in todo :
          LET p    == u[1]
              k    == u[2]
              last == LastClaim(k, {p})
          IN
          /\ installed' = [installed EXCEPT ![p] = Absent]
          /\ captures' = Forget({p}, cs)
          /\ Unclaim(k, {p})
          /\ posted' = IF last THEN Append(posted, Command("remove", k, "reconcile"))
                       ELSE posted
          /\ rec' = [pc |-> IF last THEN "awaiting" ELSE "resumed", next |-> next,
                     todo |-> todo \ {u}]
          /\ UNCHANGED <<desired, exhausted>>
    BY <1>1 DEF Uninstall
  <2> DEFINE p == u[1]
             k == u[2]
             P == {p}
  <2>2. p \in Probes /\ k \in Key /\ arms[p].pc = "idle"
        /\ (Installed(p) => installed[p].bp = k)
    OBVIOUS
  <2>3. /\ installed' = [installed EXCEPT ![p] = Absent]
        /\ captures' = Forget(P, cs) /\ Unclaim(k, P)
        /\ posted' = IF LastClaim(k, P) THEN Append(posted, Command("remove", k, "reconcile"))
                     ELSE posted
    BY <2>1
  <2>4. rec'.pc # "idle" /\ rec'.todo \subseteq todo
    BY <2>1
  <2> HIDE DEF p, k
  <2>5. installed' = [q \in Probes |-> IF q \in P THEN Absent ELSE installed[q]]
    BY <1>0, <2>2, <2>3
  <2>6. \A q \in Probes : q \in P => /\ arms[q].pc = "idle"
                                     /\ Installed(q) => installed[q].bp = k
    BY <2>2
  <2> HIDE DEF P
  <2>7. Shrinks(P)
    BY <2>5, AbsentType DEF Shrinks, Installed
  <2>8. \A q \in Probes, l \in Key : Holding(q, l)' <=> (Holding(q, l) /\ ~(l = k /\ q \in P))
    BY <2>6, <2>7, ShrinkHolding
  <2>9. "reconcile" \in Probes \cup Others
    BY DEF Others
  <2>10. ClaimInv' /\ LiveInv'
    BY <2>2, <2>3, <2>8, <2>9, GiveUp DEF BreakpointInv
  <2>11. Thinner(captures', captures, P)
    BY <1>0, <2>3, ThinForget
  <2>12. LineInv'
    BY <1>0, <2>7, <2>11, LineThinner DEF BreakpointInv
  <2>13. FailInv'
    BY <2>7, FailKept DEF BreakpointInv
  <2>14. TodoInv'
    <3>1. ASSUME NEW v \in rec'.todo
          PROVE  arms'[v[1]].pc = "idle" /\ (Installed(v[1])' => installed'[v[1]].bp = v[2])
      <4>1. v[1] \in Probes /\ arms[v[1]].pc = "idle"
            /\ (Installed(v[1]) => installed[v[1]].bp = v[2])
        BY <2>4
      <4> QED
        BY <2>7, <4>1 DEF Shrinks
    <3> QED
      BY <2>4, <3>1 DEF TodoInv, Installed
  <2> QED
    BY <2>10, <2>12, <2>13, <2>14 DEF BreakpointInv
<1>2. CASE todo = {} /\ ReplaceDesired(next) /\ captures' = cs
  <2>1. /\ captures' = cs /\ rec' = NoRec
        /\ UNCHANGED <<installed, holders, byLocation, posted>>
    BY <1>2 DEF ReplaceDesired
  <2>2. \A q \in Probes, l \in Key : Holding(q, l)' <=> Holding(q, l)
    BY <2>1 DEF Holding, Installed
  <2>3. ClaimInv' /\ \A l \in Key : Registered(l)' <=> Registered(l)
    BY <2>1, <2>2, SameClaims DEF BreakpointInv
  <2>4. LiveInv'
    BY <2>1, <2>3, SameLive DEF BreakpointInv, ProbesInv, PlainInv
  <2>5. Shrinks({})
    BY <2>1 DEF Shrinks, Installed
  <2>6. Thinner(captures', captures, {})
    BY <1>0, <2>1, ThinStale
  <2>7. LineInv'
    BY <1>0, <2>5, <2>6, LineThinner DEF BreakpointInv
  <2>8. FailInv'
    BY <2>5, FailKept DEF BreakpointInv
  <2>9. TodoInv'
    BY <2>1 DEF TodoInv, NoRec
  <2> QED
    BY <2>3, <2>4, <2>7, <2>8, <2>9 DEF BreakpointInv
<1> QED
  BY <1>1, <1>2 DEF UninstallThenReplace

LEMMA ReconcileBreakpoints ==
    ASSUME ProbesInv, BreakpointInv, NEW f \in Feeds, Reconcile(f)
    PROVE  BreakpointInv'
<1> DEFINE unwanted == {p \in Probes : Installed(p) /\ installed[p].def # f[p]}
           todo == {<<p, installed[p].bp>> : p \in unwanted}
           cs == IF f # desired THEN Stale(captures) ELSE captures
<1>1. \A p \in unwanted : p \in Probes /\ installed[p].bp \in Key /\ arms[p].pc = "idle"
  BY DEF ProbesInv, HitInv, HitsOf, IdleArms
<1>2. UninstallThenReplace(f, todo, cs) /\ UNCHANGED <<arms, live, dropping, mode>>
  BY DEF Reconcile
<1> HIDE DEF unwanted
<1>3. todo \in SUBSET (Probes \X Key)
  BY <1>1
<1>4. \A u \in todo : arms[u[1]].pc = "idle" /\ (Installed(u[1]) => installed[u[1]].bp = u[2])
  BY <1>1
<1>5. /\ cs \in Seq(Hit) /\ \A p : Pending(p, cs) = Pending(p, captures)
      /\ cs = captures \/ cs = Stale(captures)
  <2>1. captures \in Seq(Hit)
    BY DEF ProbesInv, HitInv
  <2>2. CASE f # desired
    BY <2>1, <2>2, StaleHits
  <2>3. CASE f = desired
    BY <2>1, <2>3
  <2> QED
    BY <2>2, <2>3
<1> HIDE DEF todo, cs
<1> QED
  BY <1>2, <1>3, <1>4, <1>5, UninstallBreakpoints

LEMMA ReconcileResumesBreakpoints ==
    ASSUME ProbesInv, BreakpointInv, ReconcileResumes
    PROVE  BreakpointInv'
<1> DEFINE next == rec.next
           todo == rec.todo
<1>1. todo \in SUBSET (Probes \X Key)
  BY DEF ProbesInv, PlainInv, Recs
<1>2. UninstallThenReplace(next, todo, captures) /\ UNCHANGED <<arms, live, dropping, mode>>
  BY DEF ReconcileResumes
<1>3. captures \in Seq(Hit) /\ \A p : Pending(p, captures) = Pending(p, captures)
  BY DEF ProbesInv, HitInv
<1>4. \A u \in todo : arms[u[1]].pc = "idle" /\ (Installed(u[1]) => installed[u[1]].bp = u[2])
  BY DEF BreakpointInv, TodoInv
<1> HIDE DEF next, todo
<1> QED
  BY <1>1, <1>2, <1>3, <1>4, UninstallBreakpoints

LEMMA DropNextBreakpoints ==
    ASSUME ProbesInv, BreakpointInv, DropNext
    PROVE  BreakpointInv'
<1>1. PICK k \in dropping : /\ posted' = Append(posted, Command("remove", k, "suspend"))
                            /\ dropping' = dropping \ {k}
  BY DEF DropNext
<1>2. UNCHANGED <<installed, arms, holders, byLocation, live, rec, captures, mode>>
  BY DEF DropNext
<1> DEFINE c == Command("remove", k, "suspend")
<1>3. k \in Key /\ "suspend" \in Probes \cup Others /\ posted \in Seq(Cmd) /\ live \subseteq Key
  BY DEF ProbesInv, PlainInv, Others, Awaited
<1>4. c \in Cmd /\ c.op = "remove" /\ c.key = k
  BY <1>3, CommandType
<1>5. posted' = Append(posted, c)
  BY <1>1
<1> HIDE DEF c
<1>6. /\ \A l : Asked(posted', l) <=> (Asked(posted, l) \/ l = k)
      /\ (AskedOnce(posted) /\ ~Asked(posted, k)) => AskedOnce(posted')
  BY <1>3, <1>4, <1>5, AskMore
<1>7. ~Registered(k)
  BY <1>3 DEF BreakpointInv, LiveInv
<1>8. \A q \in Probes, l \in Key : Holding(q, l)' <=> Holding(q, l)
  BY <1>2 DEF Holding, Installed
<1>9. ClaimInv' /\ \A l \in Key : Registered(l)' <=> Registered(l)
  BY <1>2, <1>8, SameClaims DEF BreakpointInv
<1>10. LiveInv'
  <2>1. ~mode.failed => k \in live /\ HasCode(k) /\ ~Asked(posted, k)
    BY <1>3 DEF BreakpointInv, LiveInv
  <2>2. ASSUME NEW l \in Key, Registered(l)'
        PROVE  l \in live' /\ l \notin dropping' /\ ~Asked(posted', l)
    BY <1>1, <1>2, <1>6, <1>7, <1>9, <2>2 DEF BreakpointInv, LiveInv
  <2>3. ASSUME NEW l \in live'
        PROVE  HasCode(l) /\ (Registered(l)' \/ l \in dropping' \/ Asked(posted', l))
    BY <1>1, <1>2, <1>3, <1>6, <1>9 DEF BreakpointInv, LiveInv
  <2>4. ASSUME ~mode.failed
        PROVE  /\ AskedOnce(posted') /\ dropping' \subseteq live'
               /\ \A l \in Key : (HasCode(l) /\ Asked(posted', l)) => l \in live' /\ l \notin dropping'
    BY <1>1, <1>2, <1>6, <2>1, <2>4 DEF BreakpointInv, LiveInv
  <2> QED
    BY <1>2, <2>2, <2>3, <2>4 DEF LiveInv
<1>11. TodoInv' /\ FailInv' /\ LineInv'
  BY <1>2 DEF BreakpointInv, TodoInv, FailInv, LineInv, Installed
<1> QED
  BY <1>9, <1>10, <1>11 DEF BreakpointInv

(* Steps that leave probes, breakpoints and commands alone. *)
LEMMA PlainBreakpoints ==
    ASSUME ProbesInv, BreakpointInv, mode'.failed = mode.failed,
           mode.failed => mode'.suspended,
           UNCHANGED <<installed, arms, holders, byLocation, live, posted, dropping, rec, captures>>
    PROVE  BreakpointInv'
<1>1. \A q \in Probes, l \in Key : Holding(q, l)' <=> Holding(q, l)
  BY DEF Holding, Installed
<1>2. ClaimInv' /\ \A l \in Key : Registered(l)' <=> Registered(l)
  BY <1>1, SameClaims DEF BreakpointInv
<1>3. LiveInv'
  BY <1>2, SameLive DEF BreakpointInv, ProbesInv, PlainInv
<1>4. TodoInv' /\ FailInv' /\ LineInv'
  BY DEF BreakpointInv, TodoInv, FailInv, LineInv, Installed
<1> QED
  BY <1>2, <1>3, <1>4 DEF BreakpointInv

LEMMA PlainStepsBreakpoints ==
    ASSUME ProbesInv, BreakpointInv,
           (\E s \in Scripts : ScriptParsed(s)) \/ Refill \/ Rearm \/ BeginStop \/ UNCHANGED vars
    PROVE  BreakpointInv'
<1>0. mode.failed => mode.suspended
  BY DEF BreakpointInv, FailInv
<1>1. CASE \E s \in Scripts : ScriptParsed(s)
  BY <1>0, <1>1, PlainBreakpoints DEF ScriptParsed
<1>2. CASE Refill
  BY <1>0, <1>2, PlainBreakpoints DEF Refill
<1>3. CASE Rearm
  <2>1. mode \in Modes /\ mode' = [mode EXCEPT !.suspended = FALSE] /\ ~mode.failed
    BY <1>3 DEF Rearm, ProbesInv, PlainInv
  <2>2. mode'.failed = mode.failed
    BY <2>1 DEF Modes
  <2> QED
    BY <1>3, <2>1, <2>2, PlainBreakpoints DEF Rearm
<1>4. CASE BeginStop
  <2>1. mode \in Modes /\ mode' = [mode EXCEPT !.stop = "stopping"]
    BY <1>4 DEF BeginStop, ProbesInv, PlainInv
  <2>2. mode'.failed = mode.failed /\ mode'.suspended = mode.suspended
    BY <2>1 DEF Modes
  <2> QED
    BY <1>0, <1>4, <2>2, PlainBreakpoints DEF BeginStop
<1>5. CASE UNCHANGED vars
  BY <1>0, <1>5, PlainBreakpoints DEF vars
<1> QED
  BY <1>1, <1>2, <1>3, <1>4, <1>5

(* Who is claimed at k and installed is installed at k. *)
LEMMA CandidatesHere ==
    ASSUME ProbesInv, BreakpointInv, NEW k \in Key, NEW p \in Candidates(k)
    PROVE  p \in Probes /\ Installed(p) /\ installed[p].bp = k /\ arms[p].pc = "idle"
<1>1. p \in holders[k].claims /\ Installed(p)
  BY DEF Candidates
<1>2. holders[k].claims \subseteq Probes
  BY DEF ProbesInv, RegInv, Holder
<1>3. p \in Probes /\ arms[p].pc = "idle"
  BY <1>1, <1>2 DEF ProbesInv, IdleArms
<1>4. Holding(p, k)
  BY <1>1, <1>3 DEF BreakpointInv, ClaimInv
<1> QED
  BY <1>1, <1>3, <1>4 DEF Holding

LEMMA PauseCapturedBreakpoints ==
    ASSUME ProbesInv, BreakpointInv, NEW k \in Key, PauseCaptured(k)
    PROVE  BreakpointInv'
<1> DEFINE who == Candidates(k)
           c == [who |-> who, fresh |-> TRUE]
<1>1. /\ UNCHANGED <<arms, holders, byLocation, live, posted, dropping, rec, mode>>
      /\ captures' = Append(captures, c)
  BY DEF PauseCaptured
<1>2. holders[k].claims \subseteq Probes
  BY DEF ProbesInv, RegInv, Holder
<1>3. Shrinks({})
  BY <1>2, PauseCapturedHits DEF ProbesInv
<1>4. \A q \in Probes : (Installed(q)' <=> Installed(q)) /\ installed'[q].bp = installed[q].bp
  BY <1>3 DEF Shrinks
<1>5. \A q \in Probes, l \in Key : Holding(q, l)' <=> Holding(q, l)
  BY <1>1, <1>4 DEF Holding, Installed
<1>6. ClaimInv' /\ \A l \in Key : Registered(l)' <=> Registered(l)
  BY <1>1, <1>5, SameClaims DEF BreakpointInv
<1>7. LiveInv'
  BY <1>1, <1>6, SameLive DEF BreakpointInv, ProbesInv, PlainInv
<1>8. TodoInv'
  BY <1>1, <1>3, TodoKept DEF BreakpointInv
<1>9. FailInv'
  BY <1>1, <1>3, FailKept DEF BreakpointInv
<1>10. LineInv'
  <2>1. captures \in Seq(Hit) /\ c.who = who
    BY DEF ProbesInv, HitInv
  <2>2. \A q \in who : q \in Probes /\ installed[q].bp = k
    BY CandidatesHere
  <2> HIDE DEF who, c
  <2>3. \A i \in DOMAIN captures' : captures'[i] = c \/ (i \in DOMAIN captures /\ captures'[i] = captures[i])
    BY <1>1, <2>1
  <2>4. ASSUME NEW i \in DOMAIN captures PROVE captures[i].who \subseteq Probes
    <3>1. captures[i] \in Hit
      BY <2>1
    <3> QED
      BY <3>1 DEF Hit
  <2>5. ASSUME NEW i \in DOMAIN captures', NEW p \in captures'[i].who, NEW q \in captures'[i].who
        PROVE  installed'[p].bp = installed'[q].bp
    <3>1. p \in Probes /\ q \in Probes /\ installed[p].bp = installed[q].bp
      BY <2>1, <2>2, <2>3, <2>4 DEF BreakpointInv, LineInv
    <3> QED
      BY <1>4, <3>1
  <2> QED
    BY <2>5 DEF LineInv
<1> QED
  BY <1>6, <1>7, <1>8, <1>9, <1>10 DEF BreakpointInv

LEMMA RetiredBreakpoints ==
    ASSUME ProbesInv, BreakpointInv, NEW k \in Key, NEW P, Retired(k, P),
           \A p \in P : arms[p].pc = "idle" /\ installed[p].bp = k,
           Thinner(captures', captures, P),
           UNCHANGED <<arms, live, dropping, rec, mode>>
    PROVE  BreakpointInv'
<1>1. /\ Shrinks(P) /\ Unclaim(k, P)
      /\ posted' = IF P # {} /\ LastClaim(k, P)
                   THEN Append(posted, Command("remove", k, "retire")) ELSE posted
  BY DEF Retired
<1>2. P = {} => ~LastClaim(k, P)
  BY DEF LastClaim, BreakpointInv, ClaimInv
<1>3. posted' = IF LastClaim(k, P) THEN Append(posted, Command("remove", k, "retire")) ELSE posted
  BY <1>1, <1>2
<1>4. \A q \in Probes, l \in Key : Holding(q, l)' <=> (Holding(q, l) /\ ~(l = k /\ q \in P))
  BY <1>1, ShrinkHolding
<1>5. "retire" \in Probes \cup Others
  BY DEF Others
<1>6. ClaimInv' /\ LiveInv'
  BY <1>1, <1>3, <1>4, <1>5, GiveUp DEF BreakpointInv
<1>7. TodoInv'
  BY <1>1, TodoKept DEF BreakpointInv
<1>8. FailInv'
  BY <1>1, FailKept DEF BreakpointInv
<1>9. LineInv'
  BY <1>1, LineThinner DEF BreakpointInv, ProbesInv, HitInv
<1> QED
  BY <1>6, <1>7, <1>8, <1>9 DEF BreakpointInv

LEMMA PauseOverBudgetBreakpoints ==
    ASSUME ProbesInv, BreakpointInv, NEW k \in Key, PauseOverBudget(k)
    PROVE  BreakpointInv'
<1>1. UNCHANGED <<arms, live, dropping, rec, mode>>
  BY DEF PauseOverBudget
<1>2. holders[k].claims \subseteq Probes
  BY DEF ProbesInv, RegInv, Holder
<1>3. exhausted \in [Probes -> Defs \cup {None}] /\ captures \in Seq(Hit)
  BY DEF ProbesInv, PlainInv, HitInv
<1>4. PICK over \in SUBSET Candidates(k) : Retired(k, over) /\ captures' = Forget(over, captures)
  BY <1>2, <1>3, PauseOverBudgetHits DEF ProbesInv
<1>5. \A p \in over : arms[p].pc = "idle" /\ installed[p].bp = k
  BY <1>4, CandidatesHere
<1>6. Thinner(captures', captures, over)
  BY <1>3, <1>4, ThinForget
<1> QED
  BY <1>1, <1>4, <1>5, <1>6, RetiredBreakpoints

(* A probe that a capture counts for is installed. *)
LEMMA CapturedInstalled ==
    ASSUME ProbesInv, captures # <<>>, NEW p \in captures[1].who
    PROVE  p \in Probes /\ Installed(p) /\ installed[p].bp \in Key /\ arms[p].pc = "idle"
<1>1. captures \in Seq(Hit) /\ 1 \in DOMAIN captures /\ captures[1] \in Hit
  BY DEF ProbesInv, HitInv
<1>2. p \in Probes /\ 1 \in Pending(p, captures)
  BY <1>1 DEF Hit, Pending
<1>3. HitsOf(p)
  BY <1>2 DEF ProbesInv, HitInv
<1>4. IsFiniteSet(Pending(p, captures))
  BY <1>1, PendingFinite
<1>5. installed[p].pending # 0
  BY <1>2, <1>3, <1>4, FS_EmptySet DEF HitsOf
<1>6. Installed(p)
  BY <1>3, <1>5, AbsentType DEF HitsOf
<1> QED
  BY <1>2, <1>3, <1>6 DEF HitsOf, ProbesInv, IdleArms

LEMMA ProcessBreakpoints ==
    ASSUME ProbesInv, BreakpointInv, Process
    PROVE  BreakpointInv'
<1>1. captures # <<>> /\ UNCHANGED <<arms, live, dropping, rec, mode>>
  BY DEF Process
<1>2. exhausted \in [Probes -> Defs \cup {None}] /\ captures \in Seq(Hit) /\ 1 \in DOMAIN captures
  BY <1>1 DEF ProbesInv, PlainInv, HitInv
<1>3. PICK over \in SUBSET captures[1].who :
         /\ captures' = Later(Forget(over, captures))
         /\ \/ /\ over = {} /\ Shrinks(over)
               /\ UNCHANGED <<exhausted, holders, byLocation, posted>>
            \/ \E p \in over : Retired(installed[p].bp, over)
  BY <1>2, ProcessHits DEF ProbesInv
<1>4. Thinner(captures', captures, over)
  BY <1>1, <1>2, <1>3, ThinLater
<1>5. CASE /\ over = {} /\ Shrinks(over)
           /\ UNCHANGED <<exhausted, holders, byLocation, posted>>
  <2>1. \A q \in Probes : (Installed(q)' <=> Installed(q)) /\ installed'[q].bp = installed[q].bp
    BY <1>5 DEF Shrinks
  <2>2. \A q \in Probes, l \in Key : Holding(q, l)' <=> Holding(q, l)
    BY <1>1, <2>1 DEF Holding, Installed
  <2>3. ClaimInv' /\ \A l \in Key : Registered(l)' <=> Registered(l)
    BY <1>5, <2>2, SameClaims DEF BreakpointInv
  <2>4. LiveInv'
    BY <1>1, <1>5, <2>3, SameLive DEF BreakpointInv, ProbesInv, PlainInv
  <2>5. TodoInv'
    BY <1>1, <1>5, TodoKept DEF BreakpointInv
  <2>6. FailInv'
    BY <1>1, <1>5, FailKept DEF BreakpointInv
  <2>7. LineInv'
    BY <1>2, <1>4, <1>5, LineThinner DEF BreakpointInv
  <2> QED
    BY <2>3, <2>4, <2>5, <2>6, <2>7 DEF BreakpointInv
<1>6. CASE \E p \in over : Retired(installed[p].bp, over)
  <2>1. PICK p \in over : Retired(installed[p].bp, over)
    BY <1>6
  <2> DEFINE k == installed[p].bp
  <2>2. k \in Key /\ Retired(k, over)
    BY <1>1, <2>1, CapturedInstalled
  <2>3. ASSUME NEW q \in over PROVE arms[q].pc = "idle" /\ installed[q].bp = k
    <3>1. q \in captures[1].who /\ p \in captures[1].who
      BY <2>1
    <3>2. arms[q].pc = "idle"
      BY <1>1, <3>1, CapturedInstalled
    <3> QED
      BY <1>2, <3>1, <3>2 DEF BreakpointInv, LineInv
  <2> HIDE DEF k
  <2> QED
    BY <1>1, <1>4, <2>2, <2>3, RetiredBreakpoints
<1> QED
  BY <1>3, <1>5, <1>6

(* The registry is emptied, and with it everybody's hold. *)
LEMMA ClearedClaims ==
    ASSUME ClearRegistry, \A p \in Probes, l \in Key : ~Holding(p, l)'
    PROVE  ClaimInv' /\ \A l \in Key : ~Registered(l)'
<1>1. Nobody.keys = {} /\ Nobody.claims = {}
  BY DEF Nobody
<1>2. \A l \in Key : holders'[l] = Nobody /\ byLocation'[l] = None
  BY DEF ClearRegistry
<1> QED
  BY <1>1, <1>2 DEF ClaimInv, Registered

(* Nobody is installed and nobody has just claimed anything. *)
LEMMA NobodyHolds ==
    ASSUME Shrinks(Probes), \A p \in Probes : arms'[p].pc # "claimed" \/ mode'.failed
    PROVE  \A p \in Probes, l \in Key : ~Holding(p, l)'
<1>1. \A p \in Probes : ~Installed(p)'
  BY DEF Shrinks
<1> QED
  BY <1>1 DEF Holding, Installed

LEMMA OffLine ==
    ASSUME ProbesInv, Shrinks(Probes), captures' = Stale(Forget(Probes, captures))
    PROVE  LineInv'
<1> DEFINE f == Forget(Probes, captures)
<1>1. captures \in Seq(Hit)
  BY DEF ProbesInv, HitInv
<1>2. f \in Seq(Hit) /\ Thinner(f, captures, Probes)
  BY <1>1, ForgetHits, ThinForget
<1>3. \A i \in DOMAIN captures : captures[i].who \subseteq Probes
  <2>1. \A i \in DOMAIN captures : captures[i] \in Hit
    BY <1>1
  <2> QED
    BY <2>1 DEF Hit
<1> HIDE DEF f
<1>4. \A i \in DOMAIN f : f[i].who = {}
  BY <1>2, <1>3 DEF Thinner
<1>5. Thinner(captures', f, {})
  BY <1>2, ThinStale DEF f
<1>6. \A i \in DOMAIN captures' : captures'[i].who = {}
  BY <1>4, <1>5 DEF Thinner
<1> QED
  BY <1>6 DEF LineInv

LEMMA ResumeFailsBreakpoints ==
    ASSUME ProbesInv, BreakpointInv, NEW k \in Key, ResumeFails(k)
    PROVE  BreakpointInv'
<1>1. /\ mode' = [mode EXCEPT !.failed = TRUE, !.suspended = TRUE]
      /\ installed' = [p \in Probes |-> Absent]
      /\ captures' = Stale(Forget(Probes, captures))
      /\ ClearRegistry
      /\ live' = {}
      /\ UNCHANGED <<arms, posted, dropping, rec>>
  BY DEF ResumeFails
<1>2. mode'.failed /\ mode'.suspended
  BY <1>1 DEF ProbesInv, PlainInv, Modes
<1>3. Shrinks(Probes)
  BY <1>1, AllOff DEF ProbesInv
<1>4. \A p \in Probes, l \in Key : ~Holding(p, l)'
  BY <1>2, <1>3, NobodyHolds
<1>5. ClaimInv' /\ \A l \in Key : ~Registered(l)'
  BY <1>1, <1>4, ClearedClaims
<1>6. LiveInv'
  BY <1>1, <1>2, <1>5 DEF LiveInv
<1>7. FailInv'
  BY <1>1, <1>2, <1>3 DEF FailInv, Shrinks
<1>8. TodoInv'
  BY <1>1, <1>3, TodoKept DEF BreakpointInv
<1>9. LineInv'
  BY <1>1, <1>3, OffLine
<1> QED
  BY <1>5, <1>6, <1>7, <1>8, <1>9 DEF BreakpointInv

LEMMA SuspendAllBreakpoints ==
    ASSUME ProbesInv, BreakpointInv, SuspendAll
    PROVE  BreakpointInv'
<1>1. /\ mode' = [mode EXCEPT !.suspended = TRUE]
      /\ NoJobs /\ ~mode.suspended
      /\ dropping' = dropping \cup {k \in Key : Registered(k)}
      /\ ClearRegistry
      /\ installed' = [p \in Probes |-> Absent]
      /\ captures' = Stale(Forget(Probes, captures))
      /\ UNCHANGED <<arms, live, posted, rec>>
  BY DEF SuspendAll
<1>2. mode'.failed = mode.failed /\ ~mode.failed
  BY <1>1 DEF ProbesInv, PlainInv, Modes, BreakpointInv, FailInv
<1>3. Shrinks(Probes)
  BY <1>1, AllOff DEF ProbesInv
<1>4. \A p \in Probes, l \in Key : ~Holding(p, l)'
  BY <1>1, <1>3, NobodyHolds DEF NoJobs
<1>5. ClaimInv' /\ \A l \in Key : ~Registered(l)'
  BY <1>1, <1>4, ClearedClaims
<1>6. LiveInv'
  <2>1. live \subseteq Key
    BY DEF ProbesInv, PlainInv
  <2>2. \A l \in live' : HasCode(l) /\ (l \in dropping' \/ Asked(posted', l))
    BY <1>1, <2>1 DEF BreakpointInv, LiveInv
  <2>3. /\ AskedOnce(posted') /\ dropping' \subseteq live'
        /\ \A l \in Key : (HasCode(l) /\ Asked(posted', l)) => l \in live' /\ l \notin dropping'
    BY <1>1, <1>2 DEF BreakpointInv, LiveInv
  <2> QED
    BY <1>5, <2>2, <2>3 DEF LiveInv
<1>7. FailInv'
  BY <1>2 DEF FailInv
<1>8. TodoInv'
  BY <1>1, <1>3, TodoKept DEF BreakpointInv
<1>9. LineInv'
  BY <1>1, <1>3, OffLine
<1> QED
  BY <1>5, <1>6, <1>7, <1>8, <1>9 DEF BreakpointInv

LEMMA StopBreakpoints ==
    ASSUME ProbesInv, BreakpointInv, Stop
    PROVE  BreakpointInv'
<1> DEFINE n == Cardinality(InUse)
<1>1. /\ mode' = [mode EXCEPT !.stop = "stopped"]
      /\ NoJobs /\ ClearRegistry
      /\ installed' = [p \in Probes |-> Absent]
      /\ captures' = Stale(Forget(Probes, captures))
      /\ UNCHANGED <<arms, live, dropping, rec>>
  BY DEF Stop
<1>2. PICK ks \in [1..n -> InUse] :
         /\ \A i, j \in DOMAIN ks : ks[i] = ks[j] => i = j
         /\ posted' = posted \o [i \in DOMAIN ks |-> Command("remove", ks[i], "stop")]
  BY DEF Stop, InUse
<1>3. posted' = posted \o Removals(n, ks) /\ \A i, j \in 1..n : ks[i] = ks[j] => i = j
  BY <1>2 DEF Removals
<1>4. n \in Nat /\ IsFiniteSet(InUse)
  BY FS_CardinalityType DEF ProbesInv, RegInv
<1>5. ks \in [1..n -> Key]
  BY <1>2 DEF InUse
<1>6. \A k \in InUse : \E i \in 1..n : ks[i] = k
  <2>1. ks \in Injection(1..n, InUse)
    BY <1>2, <1>3 DEF Injection, IsInjective
  <2>2. Cardinality(1..n) = n
    BY <1>4, FirstPlaces
  <2>3. ks \in Surjection(1..n, InUse)
    <3> HIDE DEF n
    <3>1. Cardinality(1..n) = Cardinality(InUse)
      BY <2>2 DEF n
    <3> QED
      BY <1>4, <2>1, <3>1, FS_Injection
  <2> QED
    BY <2>3 DEF Surjection
<1>7. posted \in Seq(Cmd) /\ live \subseteq Key
  BY DEF ProbesInv, Awaited, PlainInv
<1> HIDE DEF n
<1>8. /\ \A k : Asked(posted', k) <=> (Asked(posted, k) \/ \E i \in 1..n : ks[i] = k)
      /\ (AskedOnce(posted) /\ \A i \in 1..n : ~Asked(posted, ks[i])) => AskedOnce(posted')
  BY <1>3, <1>4, <1>5, <1>7, AskAll
<1>9. \A k : Asked(posted', k) <=> (Asked(posted, k) \/ k \in InUse)
  BY <1>2, <1>6, <1>8
<1>10. \A i \in 1..n : ~Asked(posted, ks[i])
  BY <1>2 DEF InUse, BreakpointInv, LiveInv
<1>11. mode'.failed = mode.failed /\ mode'.suspended = mode.suspended
  BY <1>1 DEF ProbesInv, PlainInv, Modes
<1>12. Shrinks(Probes)
  BY <1>1, AllOff DEF ProbesInv
<1>13. \A p \in Probes, l \in Key : ~Holding(p, l)'
  BY <1>1, <1>12, NobodyHolds DEF NoJobs
<1>14. ClaimInv' /\ \A l \in Key : ~Registered(l)'
  BY <1>1, <1>13, ClearedClaims
<1>15. LiveInv'
  <2>1. \A l \in live' : HasCode(l) /\ (l \in dropping' \/ Asked(posted', l))
    BY <1>1, <1>7, <1>9 DEF BreakpointInv, LiveInv, InUse
  <2>2. ~mode.failed => AskedOnce(posted')
    BY <1>8, <1>10 DEF BreakpointInv, LiveInv
  <2>3. ~mode.failed =>
           /\ dropping' \subseteq live'
           /\ \A l \in Key : (HasCode(l) /\ Asked(posted', l)) => l \in live' /\ l \notin dropping'
    BY <1>1, <1>9 DEF BreakpointInv, LiveInv, InUse
  <2> QED
    BY <1>11, <1>14, <2>1, <2>2, <2>3 DEF LiveInv
<1>16. FailInv'
  BY <1>1, <1>11, <1>12 DEF BreakpointInv, FailInv, Shrinks
<1>17. TodoInv'
  BY <1>1, <1>12, TodoKept DEF BreakpointInv
<1>18. LineInv'
  BY <1>1, <1>12, OffLine
<1> QED
  BY <1>14, <1>15, <1>16, <1>17, <1>18 DEF BreakpointInv

LEMMA BreakpointsInitially ==
    ASSUME Init
    PROVE  BreakpointInv
<1>1. Nobody.keys = {} /\ Nobody.claims = {} /\ NoArm.pc = "idle" /\ Absent.def = None
  BY AbsentType, NoArmType DEF Nobody
<1>2. /\ \A p \in Probes : ~Installed(p) /\ arms[p].pc = "idle"
      /\ \A k \in Key : holders[k] = Nobody /\ byLocation[k] = None
      /\ live = {} /\ posted = <<>> /\ dropping = {} /\ captures = <<>>
      /\ rec = NoRec /\ ~mode.failed
  BY <1>1 DEF Init, Installed
<1>3. ClaimInv
  BY <1>1, <1>2 DEF ClaimInv, Registered, Holding
<1>4. LiveInv
  BY <1>1, <1>2 DEF LiveInv, Registered, Asked, AskedOnce
<1>5. FailInv /\ TodoInv /\ LineInv
  BY <1>2 DEF FailInv, TodoInv, LineInv, NoRec
<1> QED
  BY <1>3, <1>4, <1>5 DEF BreakpointInv

LEMMA BreakpointStep ==
    ASSUME ~ScriptsDuringReconcile, ProbesInv, BreakpointInv, [Next]_vars
    PROVE  BreakpointInv'
<1>1. CASE Next
  BY <1>1, EnsureArmedBreakpoints, WaiterResumesBreakpoints, FinishArmBreakpoints,
     AnswerSetBreakpoints, AnswerRemoveBreakpoints, ReconcileBreakpoints,
     ReconcileResumesBreakpoints, DropNextBreakpoints, PauseCapturedBreakpoints,
     PauseOverBudgetBreakpoints, ResumeFailsBreakpoints, ProcessBreakpoints,
     SuspendAllBreakpoints, PlainStepsBreakpoints, StopBreakpoints DEF Next
<1>2. CASE UNCHANGED vars
  BY <1>2, PlainStepsBreakpoints
<1> QED
  BY <1>1, <1>2

LEMMA BreakpointsServe == ProbesInv /\ BreakpointInv => InstalledHasBreakpoint
<1> SUFFICES ASSUME ProbesInv, BreakpointInv, NEW p \in Probes, Installed(p)
             PROVE  /\ p \in holders[installed[p].bp].claims
                    /\ Registered(installed[p].bp)
                    /\ installed[p].bp \in live
  BY DEF InstalledHasBreakpoint
<1>1. installed[p].bp \in Key
  BY DEF ProbesInv, HitInv, HitsOf
<1>2. p \in holders[installed[p].bp].claims
  BY <1>1 DEF BreakpointInv, ClaimInv, Holding
<1> QED
  BY <1>1, <1>2 DEF BreakpointInv, ClaimInv, LiveInv

LEMMA BreakpointsOwned == ProbesInv /\ BreakpointInv => NoOrphanBreakpoint
<1> SUFFICES ASSUME ProbesInv, BreakpointInv, NEW k \in live
             PROVE  \/ k \in dropping
                    \/ \E i \in DOMAIN posted : posted[i].op = "remove" /\ posted[i].key = k
                    \/ /\ holders[k].claims # {}
                       /\ \A p \in holders[k].claims :
                             installed[p].bp = k \/ (arms[p].pc = "claimed" /\ arms[p].bp = k)
  BY DEF NoOrphanBreakpoint
<1>1. k \in Key
  BY DEF ProbesInv, PlainInv
<1>2. holders[k].claims \subseteq Probes
  BY <1>1 DEF ProbesInv, RegInv, Holder
<1>3. Registered(k) \/ k \in dropping \/ Asked(posted, k)
  BY DEF BreakpointInv, LiveInv
<1>4. CASE Registered(k)
  BY <1>1, <1>2, <1>4 DEF BreakpointInv, ClaimInv, Holding
<1>5. CASE Asked(posted, k)
  BY <1>5 DEF Asked
<1> QED
  BY <1>3, <1>4, <1>5

(* The invariants together, in an agent whose target loads no script while *)
(* a reconciliation awaits the inspector.                                  *)
ManagerInv == ProbesInv /\ (~ScriptsDuringReconcile => BreakpointInv)

LEMMA ManagerInitially == Init => ManagerInv
BY ProbesInitially, BreakpointsInitially DEF ManagerInv

LEMMA ManagerStep == ManagerInv /\ [Next]_vars => ManagerInv'
BY ProbesStep, BreakpointStep DEF ManagerInv

(* A probe that counts as installed has its claim in the registry and its  *)
(* breakpoint in V8, however #acquireBreakpoint(),                         *)
(* #releaseBreakpointFor(), retirement, suspendAll() and stop() of probes  *)
(* that share the line interleave. The hypothesis is the one the run       *)
(* sdk_agent makes of the target: no script is parsed while reconcile()    *)
(* awaits the inspector. Without it the manager arms anew a probe that the *)
(* reconciliation is about to uninstall (sdk_ghost).                       *)
THEOREM ArmedMeansBreakpoint ==
    Spec => [](~ScriptsDuringReconcile => InstalledHasBreakpoint)
<1>1. Init => ManagerInv
  BY ManagerInitially
<1>2. ManagerInv /\ [Next]_vars => ManagerInv'
  BY ManagerStep
<1>3. ManagerInv => (~ScriptsDuringReconcile => InstalledHasBreakpoint)
  BY BreakpointsServe DEF ManagerInv
<1> QED
  BY <1>1, <1>2, <1>3, PTL DEF Spec

(* No breakpoint is left in V8 without an owner: every one of them is      *)
(* claimed by a probe that is installed at it or about to be, or           *)
(* removeBreakpoint() has been posted for it, or suspendAll() still has it *)
(* on its list. The hypothesis is that of ArmedMeansBreakpoint.            *)
THEOREM BreakpointMeansArmed ==
    Spec => [](~ScriptsDuringReconcile => NoOrphanBreakpoint)
<1>1. Init => ManagerInv
  BY ManagerInitially
<1>2. ManagerInv /\ [Next]_vars => ManagerInv'
  BY ManagerStep
<1>3. ManagerInv => (~ScriptsDuringReconcile => NoOrphanBreakpoint)
  BY BreakpointsOwned DEF ManagerInv
<1> QED
  BY <1>1, <1>2, <1>3, PTL DEF Spec

-----------------------------------------------------------------------------
(* Sequences without repetitions *)

Rest(s, n) == SubSeq(s, n + 1, Len(s))

LEMMA CutAt ==
    ASSUME NEW s \in Seq(Event), NEW n \in 0 .. Len(s)
    PROVE  /\ Prefix(s, n) \in Seq(Event) /\ Len(Prefix(s, n)) = n
           /\ \A i \in 1 .. n : Prefix(s, n)[i] = s[i]
           /\ Rest(s, n) \in Seq(Event) /\ Len(Rest(s, n)) = Len(s) - n
           /\ \A i \in 1 .. (Len(s) - n) : Rest(s, n)[i] = s[n + i]
BY DEF Prefix, Rest

LEMMA PartsApart ==
    ASSUME NEW s \in Seq(Event), NEW n \in 0 .. Len(s), IsInjective(s),
           NEW cut \in Seq(Event), Len(cut) = n, \A i \in 1 .. n : cut[i] = s[i],
           NEW rest \in Seq(Event), Len(rest) = Len(s) - n,
           \A i \in 1 .. (Len(s) - n) : rest[i] = s[n + i]
    PROVE  /\ ToSet(cut) \cup ToSet(rest) = ToSet(s) /\ ToSet(cut) \cap ToSet(rest) = {}
           /\ IsInjective(cut) /\ IsInjective(rest)
<1>3. /\ DOMAIN s = 1 .. Len(s) /\ Len(s) \in Nat /\ n \in Nat /\ n <= Len(s)
      /\ DOMAIN cut = 1 .. n /\ DOMAIN rest = 1 .. (Len(s) - n)
  OBVIOUS
<1>4. ASSUME NEW i \in 1 .. Len(s) PROVE s[i] \in ToSet(cut) \cup ToSet(rest)
  <2>1. CASE i <= n
    <3>1. i \in DOMAIN cut /\ cut[i] = s[i]
      BY <1>3, <2>1
    <3> QED
      BY <3>1 DEF ToSet
  <2>2. CASE i > n
    <3>1. i - n \in 1 .. (Len(s) - n) /\ n + (i - n) = i
      BY <1>3, <2>2
    <3>2. i - n \in DOMAIN rest /\ rest[i - n] = s[i]
      BY <1>3, <3>1
    <3> QED
      BY <3>2 DEF ToSet
  <2> QED
    BY <1>3, <2>1, <2>2
<1>5. ToSet(cut) \cup ToSet(rest) \subseteq ToSet(s)
  <2>1. \A i \in DOMAIN cut : i \in DOMAIN s /\ cut[i] = s[i]
    BY <1>3
  <2>2. \A i \in DOMAIN rest : n + i \in DOMAIN s /\ rest[i] = s[n + i]
    BY <1>3
  <2> QED
    BY <2>1, <2>2 DEF ToSet
<1>6. ToSet(cut) \cup ToSet(rest) = ToSet(s)
  BY <1>3, <1>4, <1>5 DEF ToSet
<1>7. IsInjective(cut) /\ IsInjective(rest) /\ ToSet(cut) \cap ToSet(rest) = {}
  <2>1. IsInjective(cut)
    BY <1>3 DEF IsInjective
  <2>2. IsInjective(rest)
    <3>1. ASSUME NEW i \in DOMAIN rest, NEW j \in DOMAIN rest, rest[i] = rest[j]
          PROVE  i = j
      <4>0. rest[i] = s[n + i] /\ rest[j] = s[n + j]
        BY <1>3
      <4>1. n + i \in DOMAIN s /\ n + j \in DOMAIN s /\ i \in Nat /\ j \in Nat
        BY <1>3
      <4>2. n + i = n + j
        BY <3>1, <4>0, <4>1 DEF IsInjective
      <4> QED
        BY <1>3, <4>1, <4>2
    <3> QED
      BY <3>1 DEF IsInjective
  <2>3. ASSUME NEW i \in 1 .. n, NEW j \in 1 .. (Len(s) - n) PROVE cut[i] # rest[j]
    <3>1. i \in DOMAIN s /\ n + j \in DOMAIN s /\ i # n + j
      BY <1>3
    <3>2. s[i] # s[n + j]
      BY <3>1 DEF IsInjective
    <3> QED
      BY <3>2
  <2> QED
    BY <2>1, <2>2, <2>3 DEF ToSet
<1> QED
  BY <1>6, <1>7

LEMMA CutParts ==
    ASSUME NEW s \in Seq(Event), NEW n \in 0 .. Len(s), IsInjective(s)
    PROVE  /\ Prefix(s, n) \in Seq(Event) /\ Len(Prefix(s, n)) = n
           /\ Rest(s, n) \in Seq(Event) /\ Len(Rest(s, n)) = Len(s) - n
           /\ ToSet(Prefix(s, n)) \cup ToSet(Rest(s, n)) = ToSet(s)
           /\ ToSet(Prefix(s, n)) \cap ToSet(Rest(s, n)) = {}
           /\ IsInjective(Prefix(s, n)) /\ IsInjective(Rest(s, n))
<1> DEFINE cut == Prefix(s, n)
           rest == Rest(s, n)
<1>1. /\ cut \in Seq(Event) /\ Len(cut) = n /\ \A i \in 1 .. n : cut[i] = s[i]
      /\ rest \in Seq(Event) /\ Len(rest) = Len(s) - n
      /\ \A i \in 1 .. (Len(s) - n) : rest[i] = s[n + i]
  BY CutAt
<1> HIDE DEF cut, rest
<1>2. /\ ToSet(cut) \cup ToSet(rest) = ToSet(s) /\ ToSet(cut) \cap ToSet(rest) = {}
      /\ IsInjective(cut) /\ IsInjective(rest)
  BY <1>1, PartsApart
<1> QED
  BY <1>1, <1>2 DEF cut, rest

LEMMA JoinParts ==
    ASSUME NEW S, NEW s \in Seq(S), NEW t \in Seq(S)
    PROVE  /\ s \o t \in Seq(S) /\ Len(s \o t) = Len(s) + Len(t)
           /\ ToSet(s \o t) = ToSet(s) \cup ToSet(t)
           /\ (IsInjective(s) /\ IsInjective(t) /\ ToSet(s) \cap ToSet(t) = {})
                 => IsInjective(s \o t)
<1> DEFINE c == s \o t
<1>1. /\ c \in Seq(S) /\ Len(c) = Len(s) + Len(t) /\ DOMAIN c = 1 .. (Len(s) + Len(t))
      /\ DOMAIN s = 1 .. Len(s) /\ DOMAIN t = 1 .. Len(t) /\ Len(s) \in Nat /\ Len(t) \in Nat
  OBVIOUS
<1>2. /\ \A i \in 1 .. Len(s) : c[i] = s[i]
      /\ \A i \in (Len(s) + 1) .. (Len(s) + Len(t)) : c[i] = t[i - Len(s)]
  OBVIOUS
<1>3. \A i \in 1 .. Len(t) : Len(s) + i \in DOMAIN c /\ c[Len(s) + i] = t[i]
  <2> SUFFICES ASSUME NEW i \in 1 .. Len(t)
               PROVE  Len(s) + i \in DOMAIN c /\ c[Len(s) + i] = t[i]
    OBVIOUS
  <2>1. Len(s) + i \in (Len(s) + 1) .. (Len(s) + Len(t)) /\ (Len(s) + i) - Len(s) = i
    BY <1>1
  <2> QED
    BY <1>1, <1>2, <2>1
<1>4. \A i \in DOMAIN c : i \in 1 .. Len(s) \/ i - Len(s) \in 1 .. Len(t)
  BY <1>1
<1> HIDE DEF c
<1>5. ToSet(c) = ToSet(s) \cup ToSet(t)
  <2>1. ToSet(c) \subseteq ToSet(s) \cup ToSet(t)
    <3> SUFFICES ASSUME NEW i \in DOMAIN c PROVE c[i] \in ToSet(s) \cup ToSet(t)
      BY DEF ToSet
    <3>1. CASE i \in 1 .. Len(s)
      BY <1>1, <1>2, <3>1 DEF ToSet
    <3>2. CASE i \in (Len(s) + 1) .. (Len(s) + Len(t))
      <4>1. i - Len(s) \in 1 .. Len(t)
        BY <1>1, <3>2
      <4> QED
        BY <1>1, <1>2, <3>2, <4>1 DEF ToSet
    <3> QED
      BY <1>1, <3>1, <3>2
  <2>2. ToSet(s) \subseteq ToSet(c)
    BY <1>1, <1>2 DEF ToSet
  <2>3. ToSet(t) \subseteq ToSet(c)
    BY <1>1, <1>3 DEF ToSet
  <2> QED
    BY <2>1, <2>2, <2>3
<1>6. ASSUME IsInjective(s), IsInjective(t), ToSet(s) \cap ToSet(t) = {}
      PROVE  IsInjective(c)
  <2> SUFFICES ASSUME NEW i \in DOMAIN c, NEW j \in DOMAIN c, c[i] = c[j]
               PROVE  i = j
    BY DEF IsInjective
  <2>1. i \in Int /\ j \in Int
    BY <1>1
  <2>2. CASE i <= Len(s) /\ j <= Len(s)
    BY <1>1, <1>2, <1>6, <2>2 DEF IsInjective
  <2>3. CASE i > Len(s) /\ j > Len(s)
    <3>1. /\ i - Len(s) \in 1 .. Len(t) /\ j - Len(s) \in 1 .. Len(t)
          /\ c[i] = t[i - Len(s)] /\ c[j] = t[j - Len(s)]
      BY <1>1, <1>2, <2>3
    <3>2. i - Len(s) = j - Len(s)
      BY <1>1, <1>6, <3>1 DEF IsInjective
    <3> QED
      BY <1>1, <2>1, <3>2
  <2>4. ASSUME NEW k \in DOMAIN c, NEW l \in DOMAIN c, k <= Len(s), l > Len(s)
        PROVE  c[k] # c[l]
    <3>1. c[k] \in ToSet(s)
      BY <1>1, <1>2, <2>4 DEF ToSet
    <3>2. l - Len(s) \in 1 .. Len(t) /\ c[l] = t[l - Len(s)]
      BY <1>1, <1>2, <2>4, SMTT(60)
    <3>3. c[l] \in ToSet(t)
      BY <1>1, <3>2 DEF ToSet
    <3> QED
      BY <1>6, <3>1, <3>3
  <2> QED
    BY <1>1, <2>1, <2>2, <2>3, <2>4
<1> QED
  BY <1>1, <1>5, <1>6 DEF c

LEMMA AppendParts ==
    ASSUME NEW S, NEW s \in Seq(S), NEW e \in S
    PROVE  /\ Append(s, e) \in Seq(S)
           /\ ToSet(Append(s, e)) = ToSet(s) \cup {e}
           /\ (IsInjective(s) /\ e \notin ToSet(s)) => IsInjective(Append(s, e))
<1> DEFINE c == Append(s, e)
<1>1. /\ c \in Seq(S) /\ DOMAIN c = 1 .. (Len(s) + 1) /\ Len(s) \in Nat
      /\ DOMAIN s = 1 .. Len(s)
      /\ \A i \in 1 .. Len(s) : c[i] = s[i]
      /\ c[Len(s) + 1] = e
  OBVIOUS
<1>2. Len(s) + 1 \in DOMAIN c /\ \A i \in DOMAIN c : i \in DOMAIN s \/ i = Len(s) + 1
  BY <1>1
<1> HIDE DEF c
<1>3. ToSet(c) = ToSet(s) \cup {e}
  BY <1>1, <1>2 DEF ToSet
<1>4. (IsInjective(s) /\ e \notin ToSet(s)) => IsInjective(c)
  BY <1>1, <1>2 DEF IsInjective, ToSet
<1> QED
  BY <1>1, <1>3, <1>4 DEF c

(* Events that occur once are counted by the length. *)
LEMMA CountOnce ==
    ASSUME NEW S, NEW s \in Seq(S), IsInjective(s)
    PROVE  IsFiniteSet(ToSet(s)) /\ Cardinality(ToSet(s)) = Len(s)
<1>1. DOMAIN s = 1 .. Len(s) /\ Len(s) \in Nat
  OBVIOUS
<1>2. s \in Bijection(1 .. Len(s), ToSet(s))
  BY <1>1 DEF Bijection, Injection, Surjection, ToSet
<1>3. IsFiniteSet(1 .. Len(s)) /\ Cardinality(1 .. Len(s)) = Len(s)
  BY <1>1, FirstPlaces
<1>4. ExistsBijection(1 .. Len(s), ToSet(s))
  BY <1>2 DEF ExistsBijection
<1> QED
  BY <1>3, <1>4, FS_Bijection

(* The batches of w have no event in common. *)
Apart(w) ==
    \A i \in DOMAIN w :
        /\ IsInjective(w[i])
        /\ \A j \in DOMAIN w : i # j => ToSet(w[i]) \cap ToSet(w[j]) = {}

All(w) == UNION {ToSet(w[i]) : i \in DOMAIN w}

(* ingestIsolating takes the leftmost batch off its stack ... *)
LEMMA PopApart ==
    ASSUME NEW w \in Seq(Seq(Event)), w # <<>>, Apart(w)
    PROVE  /\ Tail(w) \in Seq(Seq(Event)) /\ Head(w) \in Seq(Event)
           /\ Apart(Tail(w)) /\ IsInjective(Head(w))
           /\ All(w) = ToSet(Head(w)) \cup All(Tail(w))
           /\ ToSet(Head(w)) \cap All(Tail(w)) = {}
<1> DEFINE t == Tail(w)
<1>1. /\ t \in Seq(Seq(Event)) /\ Head(w) = w[1] /\ w[1] \in Seq(Event)
      /\ DOMAIN w = 1 .. Len(w) /\ Len(w) \in Nat \ {0} /\ DOMAIN t = 1 .. (Len(w) - 1)
      /\ \A i \in 1 .. (Len(w) - 1) : t[i] = w[i + 1]
  OBVIOUS
<1> HIDE DEF t
<1>2. /\ \A i \in DOMAIN t : i + 1 \in DOMAIN w /\ i + 1 # 1 /\ t[i] = w[i + 1]
      /\ \A i \in DOMAIN w : i = 1 \/ (i - 1 \in DOMAIN t /\ t[i - 1] = w[i])
  <2>1. ASSUME NEW i \in DOMAIN w, i # 1 PROVE i - 1 \in DOMAIN t /\ t[i - 1] = w[i]
    <3>1. i - 1 \in 1 .. (Len(w) - 1) /\ (i - 1) + 1 = i
      BY <1>1, <2>1
    <3> QED
      BY <1>1, <3>1
  <2> QED
    BY <1>1, <2>1
<1>3. Apart(t)
  <2> SUFFICES ASSUME NEW i \in DOMAIN t
               PROVE  /\ IsInjective(t[i])
                      /\ \A j \in DOMAIN t : i # j => ToSet(t[i]) \cap ToSet(t[j]) = {}
    BY DEF Apart
  <2>1. IsInjective(t[i])
    BY <1>2 DEF Apart
  <2>2. ASSUME NEW j \in DOMAIN t, i # j PROVE ToSet(t[i]) \cap ToSet(t[j]) = {}
    <3>1. i + 1 # j + 1
      BY <1>1, <2>2
    <3> QED
      BY <1>2, <3>1 DEF Apart
  <2> QED
    BY <2>1, <2>2
<1>4. 1 \in DOMAIN w
  BY <1>1
<1>5. IsInjective(w[1])
  BY <1>4 DEF Apart
<1>6. All(w) = ToSet(w[1]) \cup All(t)
  BY <1>2, <1>4 DEF All
<1>7. ToSet(w[1]) \cap All(t) = {}
  BY <1>2, <1>4 DEF All, Apart
<1> QED
  BY <1>1, <1>3, <1>5, <1>6, <1>7 DEF t

(* ... and puts two in its place. *)
Push(a, b, t) == <<a, b>> \o t

LEMMA PushApart ==
    ASSUME NEW a \in Seq(Event), NEW b \in Seq(Event), NEW t \in Seq(Seq(Event)),
           IsInjective(a), IsInjective(b), Apart(t), ToSet(a) \cap ToSet(b) = {},
           (ToSet(a) \cup ToSet(b)) \cap All(t) = {}
    PROVE  /\ Push(a, b, t) \in Seq(Seq(Event)) /\ Apart(Push(a, b, t))
           /\ All(Push(a, b, t)) = ToSet(a) \cup ToSet(b) \cup All(t)
<1> DEFINE w == Push(a, b, t)
<1>1. /\ w \in Seq(Seq(Event)) /\ DOMAIN w = 1 .. (Len(t) + 2) /\ Len(t) \in Nat
      /\ DOMAIN t = 1 .. Len(t) /\ w[1] = a /\ w[2] = b
      /\ \A i \in 3 .. (Len(t) + 2) : w[i] = t[i - 2]
  BY DEF Push
<1> HIDE DEF w
<1>2. /\ 1 \in DOMAIN w /\ 2 \in DOMAIN w
      /\ \A i \in DOMAIN w : i = 1 \/ i = 2 \/ (i - 2 \in DOMAIN t /\ w[i] = t[i - 2])
      /\ \A i \in DOMAIN t : i + 2 \in DOMAIN w /\ w[i + 2] = t[i]
  <2>1. ASSUME NEW i \in DOMAIN t PROVE i + 2 \in DOMAIN w /\ w[i + 2] = t[i]
    <3>1. i + 2 \in 3 .. (Len(t) + 2) /\ (i + 2) - 2 = i
      BY <1>1, SMTT(60)
    <3> QED
      BY <1>1, <3>1
  <2>2. ASSUME NEW i \in DOMAIN w, i # 1, i # 2 PROVE i - 2 \in DOMAIN t /\ w[i] = t[i - 2]
    BY <1>1, <2>2, SMTT(60)
  <2>3. 1 \in DOMAIN w /\ 2 \in DOMAIN w
    BY <1>1
  <2> QED
    BY <2>1, <2>2, <2>3
<1>3. All(w) = ToSet(a) \cup ToSet(b) \cup All(t)
  <2>0. w[1] = a /\ w[2] = b
    BY <1>1
  <2>1. All(w) \subseteq ToSet(a) \cup ToSet(b) \cup All(t)
    BY <1>2, <2>0 DEF All
  <2>2. \A i \in DOMAIN w : ToSet(w[i]) \subseteq All(w)
    BY DEF All
  <2>3. ToSet(a) \subseteq All(w) /\ ToSet(b) \subseteq All(w)
    BY <1>2, <2>0, <2>2
  <2>4. All(t) \subseteq All(w)
    <3>1. \A i \in DOMAIN t : ToSet(t[i]) \subseteq All(w)
      BY <1>2, <2>2
    <3> QED
      BY <3>1 DEF All
  <2> QED
    BY <2>1, <2>3, <2>4
<1>4. Apart(w)
  <2>1. \A i \in DOMAIN t : /\ ToSet(t[i]) \cap ToSet(a) = {} /\ ToSet(t[i]) \cap ToSet(b) = {}
                            /\ IsInjective(t[i])
    BY DEF All, Apart
  <2>2. ASSUME NEW i \in DOMAIN w PROVE IsInjective(w[i])
    BY <1>1, <1>2, <2>1
  <2>3. ASSUME NEW i \in DOMAIN w, NEW j \in DOMAIN w, i # j
        PROVE  ToSet(w[i]) \cap ToSet(w[j]) = {}
    <3>1. CASE i \in {1, 2} \/ j \in {1, 2}
      BY <1>1, <1>2, <2>1, <2>3, <3>1
    <3>2. CASE i \notin {1, 2} /\ j \notin {1, 2}
      <4>1. i - 2 \in DOMAIN t /\ j - 2 \in DOMAIN t /\ w[i] = t[i - 2] /\ w[j] = t[j - 2]
        BY <1>2, <3>2
      <4>2. i - 2 # j - 2
        BY <1>1, <2>3
      <4> QED
        BY <4>1, <4>2 DEF Apart
    <3> QED
      BY <3>1, <3>2
  <2> QED
    BY <2>2, <2>3 DEF Apart
<1> QED
  BY <1>1, <1>3, <1>4 DEF w

-----------------------------------------------------------------------------
(* Delivery: the account of every event *)

Shape ==
    /\ captured \in 0 .. NumEvents
    /\ buffer \in Seq(Event)
    /\ dropped \in Nat
    /\ flushing \in BOOLEAN
    /\ work \in Seq(Seq(Event))
    /\ rejected \in Seq(Event) /\ deferred \in Seq(Event)
    /\ received \in [Event -> Nat] /\ unanswered \in [Event -> Nat]

(* No event waits in two places. *)
Tidy(d, w, b) ==
    /\ IsInjective(d) /\ Apart(w) /\ IsInjective(b)
    /\ ToSet(d) \cap All(w) = {}
    /\ ToSet(b) \cap (ToSet(d) \cup All(w)) = {}

Places(d, w, b) == ToSet(d) \cup All(w) \cup ToSet(b)

(* Every answer but a lost one counts, and only for what no longer waits. *)
Fresh(e) == received[e] = unanswered[e]

(* The inductive invariant of the delivery. *)
DeliveryInv ==
    /\ Shape
    /\ Tidy(deferred, work, buffer)
    /\ Places(deferred, work, buffer) \subseteq 1 .. captured
    /\ \A e \in Event : received[e] \in {unanswered[e], unanswered[e] + 1}
    /\ \A e \in Event : (e \in Places(deferred, work, buffer) \/ e > captured) => Fresh(e)
    /\ ~flushing => work = <<>> /\ deferred = <<>> /\ rejected = <<>>
    /\ LossesCounted

LEMMA EmptyParts ==
    /\ ToSet(<<>>) = {} /\ All(<<>>) = {} /\ IsInjective(<<>>) /\ Apart(<<>>)
    /\ Len(<<>>) = 0
<1>1. DOMAIN <<>> = {} /\ Len(<<>>) = 0
  OBVIOUS
<1> QED
  BY <1>1 DEF ToSet, All, IsInjective, Apart

LEMMA WaitingPlaces == Waiting = Places(deferred, work, buffer)
<1>1. All(work) = UNION {ToSet(work[i]) : i \in DOMAIN work}
  BY DEF All
<1> QED
  BY <1>1 DEF Waiting, Places

LEMMA WaitingPlacesNext == Waiting' = Places(deferred', work', buffer')
<1>1. All(work') = UNION {ToSet(work'[i]) : i \in DOMAIN work'}
  BY DEF All
<1> QED
  BY <1>1 DEF Waiting, Places

(* What is lost is finite, and n more events make the count n larger. *)
LEMMA LostCount ==
    ASSUME Shape, NEW s \in Seq(Event), IsInjective(s), ToSet(s) \cap Lost = {}
    PROVE  Cardinality(Lost \cup ToSet(s)) = Cardinality(Lost) + Len(s)
           /\ Cardinality(Lost) \in Nat
<1>1. captured \in Nat
  BY DEF Shape
<1>2. IsFiniteSet(1 .. captured)
  BY <1>1, FirstPlaces
<1>3. IsFiniteSet(Lost)
  BY <1>2, FS_Subset DEF Lost
<1>4. IsFiniteSet(ToSet(s)) /\ Cardinality(ToSet(s)) = Len(s)
  BY CountOnce
<1>5. Cardinality(Lost \cap ToSet(s)) = 0
  BY FS_EmptySet
<1>6. Cardinality(Lost) \in Nat /\ Len(s) \in Nat
  BY <1>3, FS_CardinalityType
<1>7. Cardinality(Lost \cup ToSet(s)) =
         Cardinality(Lost) + Cardinality(ToSet(s)) - Cardinality(Lost \cap ToSet(s))
  BY <1>3, <1>4, FS_Union
<1> QED
  BY <1>4, <1>5, <1>6, <1>7

LEMMA DeliveryInitial == DeliveryInit => DeliveryInv
<1> SUFFICES ASSUME DeliveryInit PROVE DeliveryInv
  OBVIOUS
<1>1. Shape
  <2>1. received \in [Event -> Nat] /\ unanswered \in [Event -> Nat]
    BY DEF DeliveryInit
  <2>2. captured \in 0 .. NumEvents
    BY NumEventsType DEF DeliveryInit
  <2>3. <<>> \in Seq(Event) /\ <<>> \in Seq(Seq(Event))
    OBVIOUS
  <2> QED
    BY <2>1, <2>2, <2>3 DEF Shape, DeliveryInit
<1>2. Places(deferred, work, buffer) = {} /\ Tidy(deferred, work, buffer)
  BY EmptyParts DEF DeliveryInit, Places, Tidy
<1>3. \A e \in Event : received[e] = 0 /\ unanswered[e] = 0
  BY DEF DeliveryInit
<1>4. LossesCounted
  <2>1. Lost = {}
    BY NumEventsType DEF Lost, DeliveryInit
  <2>2. Cardinality(Lost) = 0
    BY <2>1, FS_EmptySet
  <2> QED
    BY <2>2, EmptyParts DEF LossesCounted, DeliveryInit
<1> QED
  BY <1>1, <1>2, <1>3, <1>4 DEF DeliveryInv, Fresh, DeliveryInit

(* Nothing that is told moves. *)
LEMMA DeliveryUnmoved ==
    ASSUME DeliveryInv,
           UNCHANGED <<captured, buffer, dropped, flushing, work, rejected, deferred,
                       received, unanswered>>
    PROVE  DeliveryInv'
BY SMTT(60) DEF DeliveryInv, Shape, LossesCounted, Lost, Answered, Waiting, Fresh

(* enqueue, for the next event. *)
LEMMA CaptureKeeps ==
    ASSUME DeliveryInv, Capture
    PROVE  DeliveryInv'
<1> DEFINE e == captured + 1
           P == Places(deferred, work, buffer)
           Q == Places(deferred', work', buffer')
<1>1. /\ UNCHANGED <<flushing, work, rejected, deferred, received, unanswered>>
      /\ captured' = e /\ e \in Event /\ e \in Nat /\ captured \in Nat
      /\ received \in [Event -> Nat] /\ unanswered \in [Event -> Nat]
      /\ buffer \in Seq(Event) /\ deferred \in Seq(Event) /\ work \in Seq(Seq(Event))
      /\ dropped \in Nat /\ rejected \in Seq(Event)
  <2>1. /\ UNCHANGED <<flushing, work, rejected, deferred, received, unanswered>>
        /\ captured' = e /\ captured < NumEvents
    BY DEF Capture, flushVars
  <2>2. /\ captured \in 0 .. NumEvents
        /\ received \in [Event -> Nat] /\ unanswered \in [Event -> Nat]
        /\ buffer \in Seq(Event) /\ deferred \in Seq(Event) /\ work \in Seq(Seq(Event))
        /\ dropped \in Nat /\ rejected \in Seq(Event)
    BY DEF DeliveryInv, Shape
  <2>3. e \in Event /\ e \in Nat /\ captured \in Nat
    BY <2>1, <2>2, NumEventsType DEF Event
  <2> QED
    BY <2>1, <2>2, <2>3
<1>2. /\ Tidy(deferred, work, buffer) /\ P \subseteq 1 .. captured
      /\ \A x \in Event : (x \in P \/ x > captured) => Fresh(x)
  BY DEF DeliveryInv
<1>3. e \notin P /\ Fresh(e) /\ e \notin Answered /\ e \notin 1 .. captured
  <2>1. Fresh(e) /\ e \notin 1 .. captured
    BY <1>1, <1>2
  <2> QED
    BY <1>1, <1>2, <2>1 DEF Fresh, Answered
<1>4. Answered' = Answered /\ 1 .. captured' = (1 .. captured) \cup {e}
  BY <1>1 DEF Answered
<1>5. CASE UNCHANGED buffer /\ dropped' = dropped + 1
  <2>1. Q = P
    BY <1>1, <1>5
  <2>2. Lost' = Lost \cup ToSet(<<e>>)
    <3>1. ToSet(<<e>>) = {e}
      BY DEF ToSet
    <3> QED
      BY <1>3, <1>4, <2>1, <3>1, WaitingPlaces, WaitingPlacesNext DEF Lost
  <2>3. <<e>> \in Seq(Event) /\ IsInjective(<<e>>) /\ Len(<<e>>) = 1
        /\ ToSet(<<e>>) \cap Lost = {}
    BY <1>1, <1>3 DEF IsInjective, ToSet, Lost
  <2>4. Shape
    BY DEF DeliveryInv
  <2>5. Cardinality(Lost') = Cardinality(Lost) + 1 /\ Cardinality(Lost) \in Nat
    BY <2>2, <2>3, <2>4, LostCount
  <2>6. LossesCounted'
    BY <1>1, <1>5, <2>5 DEF LossesCounted, DeliveryInv
  <2>7. Shape'
    BY <1>1, <1>5, NumEventsType, SMTT(60) DEF Shape, DeliveryInv, Event
  <2>8. Q \subseteq 1 .. captured'
    BY <1>2, <1>4, <2>1
  <2>9. \A x \in Event : (x \in Q \/ x > captured') => Fresh(x)'
    BY <1>1, <1>2, <2>1 DEF Fresh, Event
  <2>10. Tidy(deferred', work', buffer')
    BY <1>1, <1>2, <1>5
  <2> QED
    BY <1>1, <2>6, <2>7, <2>8, <2>9, <2>10 DEF DeliveryInv, Event
<1>6. ASSUME NEW n \in 0 .. Len(buffer),
             buffer' = Append(SubSeq(buffer, n + 1, Len(buffer)), e),
             dropped' = dropped + n
      PROVE  DeliveryInv'
  <2> DEFINE a == Prefix(buffer, n)
             b == Rest(buffer, n)
  <2>0. buffer' = Append(b, e)
    BY <1>6 DEF Rest
  <2>1. /\ a \in Seq(Event) /\ b \in Seq(Event) /\ Len(a) = n
        /\ ToSet(a) \cup ToSet(b) = ToSet(buffer)
        /\ IsInjective(a) /\ IsInjective(b) /\ ToSet(a) \cap ToSet(b) = {}
    <3>1. buffer \in Seq(Event) /\ IsInjective(buffer)
      BY <1>1, <1>2 DEF Tidy
    <3> QED
      BY <3>1, CutParts
  <2> HIDE DEF a, b
  <2>2. buffer' = Append(b, e)
    BY <2>0
  <2>3. e \notin ToSet(b) /\ e \notin ToSet(deferred) /\ e \notin All(work)
    BY <1>3, <2>1 DEF Places
  <2>4. buffer' \in Seq(Event) /\ ToSet(buffer') = ToSet(b) \cup {e} /\ IsInjective(buffer')
    BY <1>1, <2>1, <2>2, <2>3, AppendParts
  <2>5. Tidy(deferred', work', buffer')
    BY <1>1, <1>2, <2>1, <2>3, <2>4 DEF Tidy
  <2>6. Q = (P \ ToSet(a)) \cup {e} /\ ToSet(a) \subseteq P /\ e \notin ToSet(a)
    BY <1>1, <1>2, <1>3, <2>1, <2>4 DEF Tidy, Places
  <2>7. ToSet(a) \subseteq 1 .. captured /\ \A x \in ToSet(a) : x \notin Answered
    <3>1. ToSet(a) \subseteq Event
      BY <2>1 DEF ToSet
    <3> QED
      BY <1>1, <1>2, <2>6, <3>1 DEF Fresh, Answered
  <2> HIDE DEF P, Q
  <2>8. Waiting = P /\ Waiting' = Q
    BY WaitingPlaces, WaitingPlacesNext DEF P, Q
  <2>9. Lost' = Lost \cup ToSet(a) /\ ToSet(a) \cap Lost = {}
    BY <1>3, <1>4, <2>6, <2>7, <2>8 DEF Lost
  <2>10. Shape
    BY DEF DeliveryInv
  <2>11. Cardinality(Lost') = Cardinality(Lost) + n /\ Cardinality(Lost) \in Nat
    BY <2>1, <2>9, <2>10, LostCount
  <2>12. LossesCounted'
    BY <1>1, <1>6, <2>11 DEF LossesCounted, DeliveryInv
  <2>13. Shape'
    <3>1. captured' \in 0 .. NumEvents
      BY <1>1, NumEventsType DEF Event
    <3>2. dropped' \in Nat /\ flushing' \in BOOLEAN
      BY <1>1, <1>6 DEF DeliveryInv, Shape
    <3> QED
      BY <1>1, <2>4, <3>1, <3>2 DEF Shape
  <2>14. Q \subseteq 1 .. captured'
    BY <1>2, <1>4, <2>6
  <2>15. \A x \in Event : (x \in Q \/ x > captured') => Fresh(x)'
    <3>1. \A x \in Event : Fresh(x)' = Fresh(x)
      BY <1>1 DEF Fresh
    <3> QED
      BY <1>1, <1>2, <1>3, <2>6, <3>1 DEF Event
  <2> QED
    BY <1>1, <2>5, <2>12, <2>13, <2>14, <2>15 DEF DeliveryInv, Event, Q
<1> QED
  BY <1>5, <1>6 DEF Capture, Enqueue

(* Events move, and those of out are given up; the broker hears nothing.   *)
LEMMA DeliveryMoves ==
    ASSUME DeliveryInv, Shape', Tidy(deferred', work', buffer'),
           UNCHANGED <<captured, received, unanswered>>,
           NEW out \in Seq(Event), IsInjective(out),
           NEW P, P = Places(deferred, work, buffer), ToSet(out) \subseteq P,
           Places(deferred', work', buffer') = P \ ToSet(out),
           dropped' + Len(rejected') = dropped + Len(rejected) + Len(out),
           ~flushing' => work' = <<>> /\ deferred' = <<>> /\ rejected' = <<>>
    PROVE  DeliveryInv'
<1>1. Shape /\ P \subseteq 1 .. captured /\ \A e \in Event : (e \in P \/ e > captured) => Fresh(e)
  BY DEF DeliveryInv
<1>2. Answered' = Answered /\ \A e \in Event : Fresh(e)' = Fresh(e)
  BY DEF Answered, Fresh
<1>3. Waiting = P /\ Waiting' = P \ ToSet(out)
  BY WaitingPlaces, WaitingPlacesNext
<1>4. \A e \in ToSet(out) : e \notin Answered /\ e \in 1 .. captured
  <2>1. ToSet(out) \subseteq Event
    BY DEF ToSet
  <2>2. \A e \in Event : received[e] \in Nat /\ unanswered[e] \in Nat
    BY <1>1 DEF Shape
  <2> QED
    BY <1>1, <2>1, <2>2 DEF Fresh, Answered
<1>5. Lost' = Lost \cup ToSet(out) /\ ToSet(out) \cap Lost = {}
  BY <1>2, <1>3, <1>4 DEF Lost
<1>6. Cardinality(Lost') = Cardinality(Lost) + Len(out) /\ Cardinality(Lost) \in Nat
  BY <1>1, <1>5, LostCount
<1>7. LossesCounted'
  <2>1. Cardinality(Lost) = dropped + Len(rejected)
    BY DEF DeliveryInv, LossesCounted
  <2> QED
    BY <1>6, <2>1 DEF LossesCounted
<1>8. \A e \in Event : (e \in P \ ToSet(out) \/ e > captured') => Fresh(e)'
  BY <1>1, <1>2
<1>9. \A e \in Event : received'[e] \in {unanswered'[e], unanswered'[e] + 1}
  BY DEF DeliveryInv
<1> QED
  BY <1>1, <1>7, <1>8, <1>9 DEF DeliveryInv

LEMMA DeliveryState ==
    ASSUME DeliveryInv
    PROVE  /\ captured \in Nat /\ dropped \in Nat
           /\ buffer \in Seq(Event) /\ deferred \in Seq(Event) /\ rejected \in Seq(Event)
           /\ work \in Seq(Seq(Event))
           /\ received \in [Event -> Nat] /\ unanswered \in [Event -> Nat]
           /\ IsInjective(buffer) /\ IsInjective(deferred) /\ Apart(work)
           /\ ToSet(deferred) \cap All(work) = {}
           /\ ToSet(buffer) \cap (ToSet(deferred) \cup All(work)) = {}
BY DEF DeliveryInv, Shape, Tidy

(* A batch is taken: nothing else was under way. *)
LEMMA StartFlushKeeps ==
    ASSUME DeliveryInv, StartFlush
    PROVE  DeliveryInv'
<1> DEFINE P == Places(deferred, work, buffer)
<1>1. PICK n \in 1 .. Len(buffer) : /\ Takes(n, ByteBudget)
                                    /\ batch' = Prefix(buffer, n)
                                    /\ work' = <<Prefix(buffer, n)>>
                                    /\ buffer' = SubSeq(buffer, n + 1, Len(buffer))
                                    /\ bytes' = bytes - Bytes(Prefix(buffer, n))
  BY DEF StartFlush
<1> DEFINE a == Prefix(buffer, n)
           b == Rest(buffer, n)
<1>2. /\ work' = <<a>> /\ buffer' = b /\ flushing' = TRUE
      /\ rejected' = <<>> /\ deferred' = <<>>
      /\ UNCHANGED <<captured, dropped, received, unanswered>>
  BY <1>1 DEF StartFlush, Rest
<1>3. work = <<>> /\ deferred = <<>> /\ rejected = <<>>
  BY DEF DeliveryInv, StartFlush
<1>4. /\ a \in Seq(Event) /\ b \in Seq(Event)
      /\ ToSet(a) \cup ToSet(b) = ToSet(buffer) /\ ToSet(a) \cap ToSet(b) = {}
      /\ IsInjective(a) /\ IsInjective(b)
  <2>1. buffer \in Seq(Event) /\ IsInjective(buffer) /\ n \in 0 .. Len(buffer)
    BY DeliveryState
  <2> QED
    BY <2>1, CutParts
<1> HIDE DEF a, b
<1>5. <<a>> \in Seq(Seq(Event)) /\ All(<<a>>) = ToSet(a) /\ Apart(<<a>>)
  <2>1. DOMAIN <<a>> = {1} /\ <<a>>[1] = a
    OBVIOUS
  <2> QED
    BY <1>4, <2>1 DEF All, Apart
<1>6. Tidy(deferred', work', buffer')
  BY <1>2, <1>4, <1>5, EmptyParts DEF Tidy
<1>7. Places(deferred', work', buffer') = P \ ToSet(<<>>) /\ ToSet(<<>>) \subseteq P
  BY <1>2, <1>3, <1>4, <1>5, EmptyParts DEF Places
<1>8. Shape'
  <2>1. <<>> \in Seq(Event)
    OBVIOUS
  <2> QED
    BY <1>2, <1>4, <1>5, <2>1 DEF DeliveryInv, Shape
<1>9. dropped' + Len(rejected') = dropped + Len(rejected) + Len(<<>>)
  <2>1. Len(<<>>) = 0 /\ dropped \in Nat
    BY EmptyParts, DeliveryState
  <2> QED
    BY <1>2, <1>3, <2>1
<1>10. <<>> \in Seq(Event) /\ IsInjective(<<>>)
  BY EmptyParts
<1> HIDE DEF P
<1> QED
  BY <1>2, <1>6, <1>7, <1>8, <1>9, <1>10, DeliveryMoves DEF P

(* The leftmost batch of ingestIsolating. *)
LEMMA NextBatch ==
    ASSUME DeliveryInv, work # <<>>
    PROVE  /\ Head(work) \in Seq(Event) /\ Tail(work) \in Seq(Seq(Event))
           /\ IsInjective(Head(work)) /\ Apart(Tail(work))
           /\ All(work) = ToSet(Head(work)) \cup All(Tail(work))
           /\ ToSet(Head(work)) \cap All(Tail(work)) = {}
           /\ ToSet(Head(work)) \subseteq Event /\ flushing
<1>1. work \in Seq(Seq(Event)) /\ Apart(work)
  BY DeliveryState
<1>2. /\ Head(work) \in Seq(Event) /\ Tail(work) \in Seq(Seq(Event))
      /\ IsInjective(Head(work)) /\ Apart(Tail(work))
      /\ All(work) = ToSet(Head(work)) \cup All(Tail(work))
      /\ ToSet(Head(work)) \cap All(Tail(work)) = {}
  BY <1>1, PopApart
<1>3. flushing
  BY DEF DeliveryInv, Shape
<1>4. ToSet(Head(work)) \subseteq Event
  BY <1>2 DEF ToSet
<1> QED
  BY <1>2, <1>3, <1>4

LEMMA OnceMoreType ==
    ASSUME NEW count \in [Event -> Nat], NEW s
    PROVE  /\ OnceMore(count, s) \in [Event -> Nat]
           /\ \A e \in Event : OnceMore(count, s)[e] =
                 IF e \in ToSet(s) THEN count[e] + 1 ELSE count[e]
BY DEF OnceMore

(* The broker stores a batch and says so: its events wait no longer, and   *)
(* none of them had been acknowledged before.                              *)
LEMMA DeliveredKeeps ==
    ASSUME DeliveryInv, Delivered
    PROVE  DeliveryInv'
<1> DEFINE h == Head(work)
           t == Tail(work)
           P == Places(deferred, work, buffer)
           Q == Places(deferred', work', buffer')
<1>1. /\ work # <<>> /\ work' = t /\ received' = OnceMore(received, h)
      /\ UNCHANGED <<captured, buffer, dropped, flushing, rejected, deferred, unanswered>>
  BY DEF Delivered
<1>2. /\ h \in Seq(Event) /\ t \in Seq(Seq(Event)) /\ IsInjective(h) /\ Apart(t)
      /\ All(work) = ToSet(h) \cup All(t) /\ ToSet(h) \cap All(t) = {}
      /\ ToSet(h) \subseteq Event /\ flushing
  BY <1>1, NextBatch
<1>3. /\ received \in [Event -> Nat] /\ unanswered \in [Event -> Nat] /\ captured \in Nat
      /\ IsInjective(buffer) /\ IsInjective(deferred)
      /\ ToSet(deferred) \cap All(work) = {}
      /\ ToSet(buffer) \cap (ToSet(deferred) \cup All(work)) = {}
  BY DeliveryState
<1>4. /\ P \subseteq 1 .. captured
      /\ \A e \in Event : (e \in P \/ e > captured) => Fresh(e)
      /\ \A e \in Event : received[e] \in {unanswered[e], unanswered[e] + 1}
  BY DEF DeliveryInv
<1> HIDE DEF h, t
<1>5. received' \in [Event -> Nat]
      /\ \A e \in Event : received'[e] = IF e \in ToSet(h) THEN received[e] + 1 ELSE received[e]
  BY <1>1, <1>3, OnceMoreType
<1>6. Q = P \ ToSet(h) /\ ToSet(h) \subseteq P
  BY <1>1, <1>2, <1>3 DEF Places
<1>7. Tidy(deferred', work', buffer')
  BY <1>1, <1>2, <1>3 DEF Tidy
<1> HIDE DEF P, Q
<1>8. \A e \in ToSet(h) : e \in Event /\ Fresh(e) /\ e \in 1 .. captured
  BY <1>2, <1>4, <1>6
<1>9. \A e \in Event : received'[e] \in {unanswered'[e], unanswered'[e] + 1}
  BY <1>1, <1>3, <1>4, <1>5, <1>8 DEF Fresh
<1>10. \A e \in Event : (e \in Q \/ e > captured') => Fresh(e)'
  <2>1. \A e \in Event : e \notin ToSet(h) => (Fresh(e)' <=> Fresh(e))
    BY <1>1, <1>5 DEF Fresh
  <2>2. \A e \in Event : e > captured => e \notin ToSet(h)
    BY <1>3, <1>8
  <2> QED
    BY <1>1, <1>4, <1>6, <2>1, <2>2
<1>11. Answered' = Answered \cup ToSet(h)
  <2>1. \A e \in Event : e \in ToSet(h) => received'[e] > unanswered'[e]
    BY <1>1, <1>3, <1>5, <1>8 DEF Fresh
  <2>2. \A e \in Event : e \notin ToSet(h) =>
           (received'[e] > unanswered'[e] <=> received[e] > unanswered[e])
    BY <1>1, <1>5
  <2> QED
    BY <1>2, <2>1, <2>2 DEF Answered
<1>12. Lost' = Lost
  <2>1. Waiting = P /\ Waiting' = Q
    BY WaitingPlaces, WaitingPlacesNext DEF P, Q
  <2> QED
    BY <1>1, <1>6, <1>11, <2>1 DEF Lost
<1>13. LossesCounted'
  BY <1>1, <1>12 DEF DeliveryInv, LossesCounted
<1>14. Shape'
  BY <1>1, <1>2, <1>5 DEF DeliveryInv, Shape
<1>15. Q \subseteq 1 .. captured'
  BY <1>1, <1>4, <1>6
<1> QED
  BY <1>1, <1>2, <1>7, <1>9, <1>10, <1>13, <1>14, <1>15 DEF DeliveryInv, Q

(* A request fails: its batch is put aside, though the broker may have     *)
(* stored it; in that case the answer is lost and it does not count.       *)
LEMMA DeferredKeeps ==
    ASSUME DeliveryInv, Deferred
    PROVE  DeliveryInv'
<1> DEFINE h == Head(work)
           t == Tail(work)
           P == Places(deferred, work, buffer)
<1>1. /\ work # <<>> /\ work' = t /\ deferred' = deferred \o h
      /\ UNCHANGED <<captured, buffer, dropped, flushing, rejected>>
      /\ \/ UNCHANGED <<received, unanswered>>
         \/ received' = OnceMore(received, h) /\ unanswered' = OnceMore(unanswered, h)
  BY DEF Deferred
<1>2. /\ h \in Seq(Event) /\ t \in Seq(Seq(Event)) /\ IsInjective(h) /\ Apart(t)
      /\ All(work) = ToSet(h) \cup All(t) /\ ToSet(h) \cap All(t) = {}
      /\ ToSet(h) \subseteq Event /\ flushing
  BY <1>1, NextBatch
<1>3. /\ received \in [Event -> Nat] /\ unanswered \in [Event -> Nat] /\ captured \in Nat
      /\ deferred \in Seq(Event) /\ IsInjective(buffer) /\ IsInjective(deferred)
      /\ ToSet(deferred) \cap All(work) = {}
      /\ ToSet(buffer) \cap (ToSet(deferred) \cup All(work)) = {}
  BY DeliveryState
<1>4. /\ P \subseteq 1 .. captured
      /\ \A e \in Event : (e \in P \/ e > captured) => Fresh(e)
      /\ \A e \in Event : received[e] \in {unanswered[e], unanswered[e] + 1}
  BY DEF DeliveryInv
<1> HIDE DEF h, t
<1>5. /\ deferred' \in Seq(Event) /\ IsInjective(deferred')
      /\ ToSet(deferred') = ToSet(deferred) \cup ToSet(h)
  <2>1. ToSet(deferred) \cap ToSet(h) = {}
    BY <1>2, <1>3
  <2> QED
    BY <1>1, <1>2, <1>3, <2>1, JoinParts
<1>6. Tidy(deferred', work', buffer')
  BY <1>1, <1>2, <1>3, <1>5 DEF Tidy
<1>7. Places(deferred', work', buffer') = P
  BY <1>1, <1>2, <1>5 DEF Places
<1> HIDE DEF P
<1>8. received' \in [Event -> Nat] /\ unanswered' \in [Event -> Nat]
      /\ \A e \in Event : /\ received'[e] - unanswered'[e] = received[e] - unanswered[e]
                          /\ received'[e] \in Nat /\ unanswered'[e] \in Nat
                          /\ received[e] \in Nat /\ unanswered[e] \in Nat
  <2>1. CASE UNCHANGED <<received, unanswered>>
    BY <1>3, <2>1
  <2>2. CASE received' = OnceMore(received, h) /\ unanswered' = OnceMore(unanswered, h)
    <3>1. /\ received' \in [Event -> Nat] /\ unanswered' \in [Event -> Nat]
          /\ \A e \in Event : received'[e] =
                IF e \in ToSet(h) THEN received[e] + 1 ELSE received[e]
          /\ \A e \in Event : unanswered'[e] =
                IF e \in ToSet(h) THEN unanswered[e] + 1 ELSE unanswered[e]
      BY <1>3, <2>2, OnceMoreType
    <3>2. ASSUME NEW e \in Event
          PROVE  /\ received'[e] - unanswered'[e] = received[e] - unanswered[e]
                 /\ received'[e] \in Nat /\ unanswered'[e] \in Nat
                 /\ received[e] \in Nat /\ unanswered[e] \in Nat
      <4>1. /\ received'[e] \in Nat /\ unanswered'[e] \in Nat
            /\ received[e] \in Nat /\ unanswered[e] \in Nat
        BY <1>3, <3>1
      <4>2. \/ received'[e] = received[e] /\ unanswered'[e] = unanswered[e]
            \/ received'[e] = received[e] + 1 /\ unanswered'[e] = unanswered[e] + 1
        BY <3>1
      <4> QED
        BY <4>1, <4>2
    <3> QED
      BY <3>1, <3>2
  <2> QED
    BY <1>1, <2>1, <2>2
<1>9. \A e \in Event : /\ Fresh(e)' <=> Fresh(e)
                       /\ received'[e] > unanswered'[e] <=> received[e] > unanswered[e]
                       /\ received'[e] \in {unanswered'[e], unanswered'[e] + 1}
  BY <1>4, <1>8 DEF Fresh
<1>10. Answered' = Answered
  BY <1>9 DEF Answered
<1>11. Lost' = Lost
  BY <1>1, <1>7, <1>10, WaitingPlaces, WaitingPlacesNext DEF Lost, P
<1>12. LossesCounted'
  BY <1>1, <1>11 DEF DeliveryInv, LossesCounted
<1>13. Shape'
  BY <1>1, <1>2, <1>5, <1>8 DEF DeliveryInv, Shape
<1> QED
  BY <1>1, <1>2, <1>4, <1>6, <1>7, <1>9, <1>12, <1>13 DEF DeliveryInv

LEMMA HalvesParts ==
    ASSUME NEW s \in Seq(Event), IsInjective(s), Len(s) > 1
    PROVE  \E a, b \in Seq(Event) :
              /\ Halves(s) = <<a, b>> /\ IsInjective(a) /\ IsInjective(b)
              /\ ToSet(a) \cup ToSet(b) = ToSet(s) /\ ToSet(a) \cap ToSet(b) = {}
<1> DEFINE middle == (Len(s) + 1) \div 2
<1>1. middle \in 0 .. Len(s)
  <2>1. Len(s) \in Nat
    OBVIOUS
  <2> QED
    BY <2>1
<1>2. Halves(s) = <<Prefix(s, middle), Rest(s, middle)>>
  BY DEF Halves, Prefix, Rest
<1> HIDE DEF middle
<1>3. /\ Prefix(s, middle) \in Seq(Event) /\ Rest(s, middle) \in Seq(Event)
      /\ ToSet(Prefix(s, middle)) \cup ToSet(Rest(s, middle)) = ToSet(s)
      /\ ToSet(Prefix(s, middle)) \cap ToSet(Rest(s, middle)) = {}
      /\ IsInjective(Prefix(s, middle)) /\ IsInjective(Rest(s, middle))
  BY <1>1, CutParts
<1> QED
  BY <1>2, <1>3

(* The broker refuses a batch: it is given up, or sent again in halves. *)
LEMMA RefusedKeeps ==
    ASSUME DeliveryInv, Refused
    PROVE  DeliveryInv'
<1> DEFINE h == Head(work)
           t == Tail(work)
           P == Places(deferred, work, buffer)
<1>1. /\ work # <<>>
      /\ UNCHANGED <<captured, buffer, dropped, flushing, deferred, received, unanswered>>
      /\ \/ rejected' = rejected \o h /\ work' = t
         \/ Len(h) > 1 /\ work' = Halves(h) \o t /\ UNCHANGED rejected
  BY DEF Refused
<1>2. /\ h \in Seq(Event) /\ t \in Seq(Seq(Event)) /\ IsInjective(h) /\ Apart(t)
      /\ All(work) = ToSet(h) \cup All(t) /\ ToSet(h) \cap All(t) = {}
      /\ ToSet(h) \subseteq Event /\ flushing
  BY <1>1, NextBatch
<1>3. /\ dropped \in Nat /\ rejected \in Seq(Event) /\ Len(rejected) \in Nat
      /\ IsInjective(buffer) /\ IsInjective(deferred)
      /\ ToSet(deferred) \cap All(work) = {}
      /\ ToSet(buffer) \cap (ToSet(deferred) \cup All(work)) = {}
  BY DeliveryState
<1> HIDE DEF h, t
<1>4. Len(h) \in Nat
  BY <1>2
<1>5. CASE rejected' = rejected \o h /\ work' = t
  <2>1. rejected' \in Seq(Event) /\ Len(rejected') = Len(rejected) + Len(h)
    BY <1>2, <1>3, <1>5, JoinParts
  <2>2. Tidy(deferred', work', buffer')
    BY <1>1, <1>2, <1>3, <1>5 DEF Tidy
  <2>3. Places(deferred', work', buffer') = P \ ToSet(h) /\ ToSet(h) \subseteq P
    BY <1>1, <1>2, <1>3, <1>5 DEF Places
  <2>4. Shape'
    BY <1>1, <1>2, <1>5, <2>1 DEF DeliveryInv, Shape
  <2>5. dropped' + Len(rejected') = dropped + Len(rejected) + Len(h)
    BY <1>1, <1>3, <1>4, <2>1
  <2> HIDE DEF P
  <2> QED
    BY <1>1, <1>2, <2>2, <2>3, <2>4, <2>5, DeliveryMoves DEF P
<1>6. CASE Len(h) > 1 /\ work' = Halves(h) \o t /\ UNCHANGED rejected
  <2>1. PICK x, y \in Seq(Event) :
           /\ Halves(h) = <<x, y>> /\ IsInjective(x) /\ IsInjective(y)
           /\ ToSet(x) \cup ToSet(y) = ToSet(h) /\ ToSet(x) \cap ToSet(y) = {}
    BY <1>2, <1>6, HalvesParts
  <2>2. work' = Push(x, y, t)
    BY <1>6, <2>1 DEF Push
  <2>3. (ToSet(x) \cup ToSet(y)) \cap All(t) = {}
    BY <1>2, <2>1
  <2>4. /\ work' \in Seq(Seq(Event)) /\ Apart(work')
        /\ All(work') = ToSet(x) \cup ToSet(y) \cup All(t)
    BY <1>2, <2>1, <2>2, <2>3, PushApart, SMTT(60)
  <2>5. All(work') = All(work)
    BY <1>2, <2>1, <2>4
  <2>6. Tidy(deferred', work', buffer')
    BY <1>1, <1>3, <2>4, <2>5 DEF Tidy
  <2>7. Places(deferred', work', buffer') = P \ ToSet(<<>>) /\ ToSet(<<>>) \subseteq P
    BY <1>1, <2>5, EmptyParts DEF Places
  <2>8. Shape'
    BY <1>1, <1>6, <2>4 DEF DeliveryInv, Shape
  <2>9. dropped' + Len(rejected') = dropped + Len(rejected) + Len(<<>>)
    BY <1>1, <1>3, <1>6, EmptyParts
  <2>10. <<>> \in Seq(Event) /\ IsInjective(<<>>)
    BY EmptyParts
  <2> HIDE DEF P
  <2> QED
    BY <1>1, <1>2, <2>6, <2>7, <2>8, <2>9, <2>10, DeliveryMoves DEF P
<1> QED
  BY <1>1, <1>5, <1>6

(* The flush ends: what was deferred goes back to the front of the buffer, *)
(* the newest events make room, and the refused ones are counted.          *)
LEMMA EndFlushKeeps ==
    ASSUME DeliveryInv, EndFlush
    PROVE  DeliveryInv'
<1> DEFINE P == Places(deferred, work, buffer)
           all == deferred \o buffer
<1>1. /\ work = <<>> /\ ~flushing' /\ rejected' = <<>> /\ deferred' = <<>>
      /\ UNCHANGED <<captured, work, received, unanswered>> /\ flushing' \in BOOLEAN
  BY DEF EndFlush
<1>2. PICK n \in 0 .. Len(all) : /\ Keeps(n, all)
                                 /\ buffer' = Prefix(all, n)
                                 /\ bytes' = Bytes(Prefix(all, n))
                                 /\ dropped' = dropped + Len(rejected) + Len(all) - n
  BY DEF EndFlush, Requeue
<1>3. /\ dropped \in Nat /\ Len(rejected) \in Nat /\ captured \in Nat
      /\ buffer \in Seq(Event) /\ deferred \in Seq(Event)
      /\ IsInjective(buffer) /\ IsInjective(deferred)
      /\ ToSet(buffer) \cap (ToSet(deferred) \cup All(work)) = {}
  BY DeliveryState
<1>4. all \in Seq(Event) /\ IsInjective(all) /\ ToSet(all) = ToSet(deferred) \cup ToSet(buffer)
  <2>1. ToSet(deferred) \cap ToSet(buffer) = {}
    BY <1>3
  <2> QED
    BY <1>3, <2>1, JoinParts
<1> HIDE DEF all
<1> DEFINE a == Prefix(all, n)
           b == Rest(all, n)
<1>5. /\ a \in Seq(Event) /\ b \in Seq(Event) /\ Len(b) = Len(all) - n
      /\ ToSet(a) \cup ToSet(b) = ToSet(all) /\ ToSet(a) \cap ToSet(b) = {}
      /\ IsInjective(a) /\ IsInjective(b)
  BY <1>4, CutParts
<1>6. buffer' = a /\ dropped' = dropped + Len(rejected) + Len(all) - n
  BY <1>2
<1> HIDE DEF a, b
<1>7. All(work) = {} /\ ToSet(<<>>) = {} /\ All(<<>>) = {} /\ Len(<<>>) = 0
  BY <1>1, EmptyParts
<1>8. Tidy(deferred', work', buffer')
  BY <1>1, <1>5, <1>6, EmptyParts DEF Tidy
<1>9. Places(deferred', work', buffer') = P \ ToSet(b) /\ ToSet(b) \subseteq P
  BY <1>1, <1>4, <1>5, <1>6, <1>7 DEF Places
<1>10. Len(all) \in Nat /\ n \in Nat /\ n <= Len(all) /\ Len(b) \in Nat
  <2>1. Len(all) \in Nat
    BY <1>4
  <2> QED
    BY <1>5, <2>1
<1>11. dropped' \in Nat
  BY <1>3, <1>6, <1>10
<1>12. dropped' + Len(rejected') = dropped + Len(rejected) + Len(b)
  BY <1>1, <1>3, <1>5, <1>6, <1>7, <1>10
<1>13. Shape'
  <2>1. <<>> \in Seq(Event)
    OBVIOUS
  <2> QED
    BY <1>1, <1>5, <1>6, <1>11, <2>1 DEF DeliveryInv, Shape
<1> HIDE DEF P
<1> QED
  BY <1>1, <1>5, <1>8, <1>9, <1>12, <1>13, DeliveryMoves DEF P

LEMMA DeliveryNextKeeps ==
    ASSUME DeliveryInv, [DeliveryNext]_deliveryVars
    PROVE  DeliveryInv'
<1>1. CASE UNCHANGED deliveryVars
  BY <1>1, DeliveryUnmoved DEF deliveryVars
<1>2. CASE Flush \/ FinalFlush
  BY <1>2, StartFlushKeeps DEF Flush, FinalFlush
<1>3. CASE StopFlushing
  BY <1>3, DeliveryUnmoved DEF StopFlushing, flushVars
<1>4. ASSUME NEW p \in Probe, RemoveProbe(p)
      PROVE  DeliveryInv'
  BY <1>4, DeliveryUnmoved DEF RemoveProbe, flushVars
<1> QED
  BY <1>1, <1>2, <1>3, <1>4, CaptureKeeps, DeliveredKeeps, DeferredKeeps, RefusedKeeps,
     EndFlushKeeps DEF DeliveryNext

LEMMA DeliveryAlways == DeliverySpec => []DeliveryInv
<1>1. DeliveryInit => DeliveryInv
  BY DeliveryInitial
<1>2. DeliveryInv /\ [DeliveryNext]_deliveryVars => DeliveryInv'
  BY DeliveryNextKeeps
<1> QED
  BY <1>1, <1>2, PTL DEF DeliverySpec

(* Every event the agent captures is waiting, acknowledged by the broker,  *)
(* or counted as lost, exactly once each: evictions, refusals, failed      *)
(* requests and requeueing lose the count of none (event-buffer.ts,        *)
(* ingest-isolation.ts).                                                   *)
THEOREM LossesAreCounted == DeliverySpec => []LossesCounted
<1>1. DeliveryInv => LossesCounted
  BY DEF DeliveryInv
<1> QED
  BY <1>1, DeliveryAlways, PTL

(* However often refused batches are halved and failed ones requeued, an   *)
(* event is stored twice only if an answer got lost, and is never waiting  *)
(* to be sent again once its answer has arrived (ingest-isolation.ts).     *)
THEOREM EventDeliveredOnce == DeliverySpec => []DeliveredOnce
<1>1. ASSUME DeliveryInv PROVE DeliveredOnce
  <2>1. received \in [Event -> Nat] /\ unanswered \in [Event -> Nat]
    BY DeliveryState, <1>1
  <2>2. \A e \in Event : received[e] <= unanswered[e] + 1
    BY <1>1, <2>1 DEF DeliveryInv
  <2>3. Answered \cap Waiting = {}
    BY <1>1, <2>1, WaitingPlaces DEF DeliveryInv, Answered, Fresh
  <2> QED
    BY <2>2, <2>3 DEF DeliveredOnce
<1>2. DeliveryInv => DeliveredOnce
  BY <1>1
<1> QED
  BY <1>2, DeliveryAlways, PTL

-----------------------------------------------------------------------------
(* The powers of two are the sizes of power sets. *)
LEMMA PowerZero == 2 ^ 0 = 1
<1>1. IsFiniteSet({}) /\ Cardinality({}) = 0
  BY FS_EmptySet
<1>2. Cardinality(SUBSET {}) = 2 ^ 0
  BY <1>1, FS_SUBSET
<1>3. SUBSET {} = {{}}
  OBVIOUS
<1>4. Cardinality({{}}) = 1
  BY FS_Singleton
<1> QED
  BY <1>2, <1>3, <1>4

LEMMA PowerNext ==
    ASSUME NEW n \in Nat
    PROVE  2 ^ n \in Nat /\ 2 ^ (n + 1) \in Nat /\ 2 ^ (n + 1) = 2 * 2 ^ n
<1> DEFINE S == 1 .. n
           T == 1 .. (n + 1)
           Without == SUBSET S
           With == {X \in SUBSET T : n + 1 \in X}
<1>1. IsFiniteSet(S) /\ Cardinality(S) = n
  BY FirstPlaces
<1>2. IsFiniteSet(T) /\ Cardinality(T) = n + 1
  BY FirstPlaces
<1>3. T = S \cup {n + 1} /\ n + 1 \notin S
  OBVIOUS
<1> HIDE DEF S, T
<1>4. IsFiniteSet(Without) /\ Cardinality(Without) = 2 ^ n /\ Cardinality(Without) \in Nat
  BY <1>1, FS_SUBSET, FS_CardinalityType
<1>5. IsFiniteSet(SUBSET T) /\ Cardinality(SUBSET T) = 2 ^ (n + 1) /\ Cardinality(SUBSET T) \in Nat
  BY <1>2, FS_SUBSET, FS_CardinalityType
<1>6. SUBSET T = Without \cup With /\ Without \cap With = {}
  BY <1>3
<1>7. ExistsBijection(Without, With)
  <2> DEFINE f == [X \in Without |-> X \cup {n + 1}]
  <2>1. \A X \in Without : X \cup {n + 1} \in With /\ n + 1 \notin X
    BY <1>3
  <2>2. \A X, Y \in Without : X \cup {n + 1} = Y \cup {n + 1} => X = Y
    BY <2>1
  <2>3. \A Z \in With : Z \ {n + 1} \in Without /\ (Z \ {n + 1}) \cup {n + 1} = Z
    BY <1>3
  <2> HIDE DEF Without, With
  <2>0. \A X \in Without : f[X] = X \cup {n + 1}
    OBVIOUS
  <2>6. f \in [Without -> With]
    BY <2>1
  <2> HIDE DEF f
  <2>7. \A X, Y \in Without : f[X] = f[Y] => X = Y
    BY <2>0, <2>2
  <2>4. f \in Injection(Without, With)
    BY <2>6, <2>7 DEF Injection, IsInjective
  <2>5. f \in Surjection(Without, With)
    BY <2>0, <2>3, <2>6 DEF Surjection
  <2> QED
    BY <2>4, <2>5 DEF Bijection, ExistsBijection
<1> HIDE DEF Without, With
<1>8. IsFiniteSet(With) /\ Cardinality(With) = Cardinality(Without)
  BY <1>4, <1>7, FS_Bijection
<1>9. Cardinality(Without \cup With) =
         Cardinality(Without) + Cardinality(With) - Cardinality(Without \cap With)
  BY <1>4, <1>8, FS_Union
<1>10. Cardinality(Without \cap With) = 0
  BY <1>6, FS_EmptySet
<1>11. Cardinality(SUBSET T) = 2 * Cardinality(Without)
  <2> DEFINE c == Cardinality(Without)
  <2>1. c \in Nat /\ Cardinality(SUBSET T) = c + c - 0
    BY <1>4, <1>6, <1>8, <1>9, <1>10
  <2> HIDE DEF c
  <2>2. Cardinality(SUBSET T) = 2 * c
    BY <2>1
  <2> QED
    BY <2>2 DEF c
<1> QED
  BY <1>4, <1>5, <1>11

-----------------------------------------------------------------------------
(* Isolation of the event the broker refuses *)

Offends(e) == ProbeOf[e] \in gone

(* The hypotheses of OffenderIsolated. *)
OneOffender == \A e, f \in ToSet(batch) : Offends(e) /\ Offends(f) => e = f
Mild == OneOffender /\ Len(batch) <= 2 ^ MaxSplits /\ ~blamed

(* Only the batch is sent and given up, and it only gets smaller. *)
PartsOf ==
    /\ All(work) \cup ToSet(rejected) \subseteq ToSet(batch)
    /\ \A s \in ToSet(work) : Len(s) <= Len(batch)

(* Only offenders were given up, a split had an offender for its cause,    *)
(* and the part with the offender is small enough for the splits left.     *)
Isolating ==
    /\ \A e \in ToSet(rejected) : Offends(e)
    /\ flushing /\ splits < MaxSplits => \E e \in ToSet(batch) : Offends(e)
    /\ \A s \in ToSet(work) : Refusable(s) => Len(s) <= 2 ^ splits

IsolationInv ==
    /\ batch \in Seq(Event) /\ splits \in 0 .. MaxSplits /\ blamed \in BOOLEAN
    /\ PartsOf
    /\ Mild => Isolating

LEMMA RefusableOffends ==
    ASSUME NEW s \in Seq(Event)
    PROVE  Refusable(s) <=> \E e \in ToSet(s) : Offends(e)
<1>1. ToSet(s) \subseteq Event
  BY DEF ToSet
<1> QED
  BY <1>1 DEF Refusable, Offends

LEMMA TailParts ==
    ASSUME NEW w \in Seq(Seq(Event)), w # <<>>
    PROVE  /\ Head(w) \in ToSet(w) /\ ToSet(Tail(w)) \subseteq ToSet(w)
           /\ \A s \in ToSet(w) : s \in Seq(Event) /\ ToSet(s) \subseteq All(w)
<1> DEFINE t == Tail(w)
<1>1. /\ Head(w) = w[1] /\ DOMAIN w = 1 .. Len(w) /\ Len(w) \in Nat \ {0}
      /\ DOMAIN t = 1 .. (Len(w) - 1) /\ \A i \in 1 .. (Len(w) - 1) : t[i] = w[i + 1]
  OBVIOUS
<1> HIDE DEF t
<1>2. w[1] \in ToSet(w)
  <2>1. 1 \in DOMAIN w
    BY <1>1
  <2> QED
    BY <2>1 DEF ToSet
<1>3. ASSUME NEW i \in DOMAIN t PROVE t[i] \in ToSet(w)
  <2>1. i + 1 \in DOMAIN w /\ t[i] = w[i + 1]
    BY <1>1
  <2> QED
    BY <2>1 DEF ToSet
<1>4. ToSet(t) \subseteq ToSet(w)
  BY <1>3 DEF ToSet
<1>5. ASSUME NEW i \in DOMAIN w PROVE w[i] \in Seq(Event) /\ ToSet(w[i]) \subseteq All(w)
  <2>1. w[i] \in Seq(Event)
    OBVIOUS
  <2> QED
    BY <2>1 DEF All
<1>6. \A s \in ToSet(w) : s \in Seq(Event) /\ ToSet(s) \subseteq All(w)
  BY <1>5 DEF ToSet
<1> QED
  BY <1>1, <1>2, <1>4, <1>6 DEF t

LEMMA PushedParts ==
    ASSUME NEW a \in Seq(Event), NEW b \in Seq(Event), NEW t \in Seq(Seq(Event))
    PROVE  ToSet(Push(a, b, t)) = {a, b} \cup ToSet(t)
<1>1. <<a, b>> \in Seq(Seq(Event)) /\ DOMAIN <<a, b>> = {1, 2}
  OBVIOUS
<1>2. ToSet(<<a, b>>) = {a, b}
  BY <1>1 DEF ToSet
<1> DEFINE c == <<a, b>>
<1> HIDE DEF c
<1>3. ToSet(c \o t) = ToSet(c) \cup ToSet(t)
  <2>1. c \in Seq(Seq(Event))
    BY <1>1 DEF c
  <2> QED
    BY <2>1, JoinParts
<1> QED
  BY <1>2, <1>3 DEF Push, c

LEMMA HalvesSmaller ==
    ASSUME NEW s \in Seq(Event), IsInjective(s), Len(s) > 1
    PROVE  \E a, b \in Seq(Event) :
              /\ Halves(s) = <<a, b>>
              /\ ToSet(a) \cup ToSet(b) = ToSet(s)
              /\ 2 * Len(a) <= Len(s) + 1 /\ 2 * Len(b) <= Len(s) + 1
<1> DEFINE middle == (Len(s) + 1) \div 2
<1>0. Len(s) \in Nat
  OBVIOUS
<1>1. /\ middle \in 0 .. Len(s) /\ 2 * middle <= Len(s) + 1
      /\ 2 * (Len(s) - middle) <= Len(s) + 1
  BY <1>0
<1>2. Halves(s) = <<Prefix(s, middle), Rest(s, middle)>>
  BY DEF Halves, Prefix, Rest
<1> HIDE DEF middle
<1>3. /\ Prefix(s, middle) \in Seq(Event) /\ Rest(s, middle) \in Seq(Event)
      /\ Len(Prefix(s, middle)) = middle /\ Len(Rest(s, middle)) = Len(s) - middle
      /\ ToSet(Prefix(s, middle)) \cup ToSet(Rest(s, middle)) = ToSet(s)
  BY <1>1, CutParts
<1> QED
  BY <1>1, <1>2, <1>3

LEMMA IsolationState ==
    ASSUME DeliveryInv, IsolationInv
    PROVE  /\ batch \in Seq(Event) /\ Len(batch) \in Nat
           /\ work \in Seq(Seq(Event)) /\ rejected \in Seq(Event)
           /\ splits \in 0 .. MaxSplits /\ MaxSplits \in Nat /\ Apart(work)
           /\ ~flushing => work = <<>> /\ rejected = <<>>
           /\ \A n \in Nat : 2 ^ n \in Nat
<1>1. \A n \in Nat : 2 ^ n \in Nat
  BY PowerNext
<1>2. work \in Seq(Seq(Event)) /\ rejected \in Seq(Event) /\ Apart(work)
  BY DeliveryState
<1>3. batch \in Seq(Event) /\ splits \in 0 .. MaxSplits
  BY DEF IsolationInv
<1>4. ~flushing => work = <<>> /\ rejected = <<>>
  BY DEF DeliveryInv
<1>5. Len(batch) \in Nat
  BY <1>3
<1> QED
  BY <1>1, <1>2, <1>3, <1>4, <1>5, LimitsType

(* Parts that leave the stack, with the rest of the flush as it was. *)
LEMMA IsolationShrinks ==
    ASSUME IsolationInv, UNCHANGED <<batch, splits, blamed, rejected, flushing, gone>>,
           ToSet(work') \subseteq ToSet(work), All(work') \subseteq All(work)
    PROVE  IsolationInv'
<1>1. Mild' <=> Mild
  BY DEF Mild, OneOffender, Offends
<1>2. PartsOf'
  BY DEF IsolationInv, PartsOf
<1>3. \A s : Refusable(s)' <=> Refusable(s)
  BY DEF Refusable
<1>4. Isolating => Isolating'
  BY <1>3 DEF Isolating, Offends
<1> QED
  BY <1>1, <1>2, <1>4 DEF IsolationInv

LEMMA IsolationUnmoved ==
    ASSUME IsolationInv, UNCHANGED <<batch, splits, blamed, rejected, flushing, gone, work>>
    PROVE  IsolationInv'
BY IsolationShrinks

LEMMA IsolationStarts ==
    ASSUME DeliveryInv, IsolationInv, StartFlush
    PROVE  IsolationInv'
<1>1. PICK n \in 1 .. Len(buffer) : /\ Takes(n, ByteBudget)
                                    /\ batch' = Prefix(buffer, n)
                                    /\ work' = <<Prefix(buffer, n)>>
                                    /\ buffer' = SubSeq(buffer, n + 1, Len(buffer))
                                    /\ bytes' = bytes - Bytes(Prefix(buffer, n))
  BY DEF StartFlush
<1>2. /\ work' = <<batch'>> /\ rejected' = <<>> /\ splits' = MaxSplits /\ ~blamed'
      /\ blamed' \in BOOLEAN
  BY <1>1 DEF StartFlush
<1>3. batch' \in Seq(Event)
  <2>1. buffer \in Seq(Event)
    BY DeliveryState
  <2>2. n \in 0 .. Len(buffer)
    BY <2>1
  <2> QED
    BY <1>1, <2>1, <2>2, CutAt
<1>4. ToSet(work') = {batch'} /\ All(work') = ToSet(batch')
  <2>1. DOMAIN <<batch'>> = {1} /\ <<batch'>>[1] = batch'
    OBVIOUS
  <2> QED
    BY <1>2, <2>1 DEF ToSet, All
<1>5. ToSet(rejected') = {}
  BY <1>2, EmptyParts
<1>6. Len(batch') \in Nat
  BY <1>3
<1>7. PartsOf'
  BY <1>4, <1>5, <1>6 DEF PartsOf
<1>8. ASSUME Mild' PROVE Isolating'
  <2>1. Len(batch') <= 2 ^ splits'
    BY <1>2, <1>8 DEF Mild
  <2>2. ~(splits' < MaxSplits)
    BY <1>2, LimitsType
  <2> QED
    BY <1>4, <1>5, <2>1, <2>2 DEF Isolating
<1>9. splits' \in 0 .. MaxSplits
  BY <1>2, LimitsType
<1> QED
  BY <1>2, <1>3, <1>7, <1>8, <1>9 DEF IsolationInv

LEMMA IsolationPops ==
    ASSUME DeliveryInv, IsolationInv, work # <<>>, work' = Tail(work),
           UNCHANGED <<batch, splits, blamed, rejected, flushing, gone>>
    PROVE  IsolationInv'
<1>1. work \in Seq(Seq(Event))
  BY DeliveryState
<1>2. ToSet(work') \subseteq ToSet(work)
  BY <1>1, TailParts
<1>3. All(work') \subseteq All(work)
  BY NextBatch
<1> QED
  BY <1>2, <1>3, IsolationShrinks

LEMMA IsolationEnds ==
    ASSUME DeliveryInv, IsolationInv, EndFlush
    PROVE  IsolationInv'
<1>1. /\ work' = <<>> /\ rejected' = <<>> /\ batch' = <<>> /\ ~flushing'
      /\ UNCHANGED <<splits, blamed>>
  BY DEF EndFlush
<1>2. ToSet(work') = {} /\ ToSet(rejected') = {} /\ All(work') = {}
  BY <1>1, EmptyParts
<1>3. <<>> \in Seq(Event)
  OBVIOUS
<1>4. PartsOf' /\ Isolating'
  BY <1>1, <1>2 DEF PartsOf, Isolating
<1> QED
  BY <1>1, <1>3, <1>4 DEF IsolationInv

(* The broker loses a probe: a part that becomes refusable now is the      *)
(* whole batch or a part of one that had no offender and was never split.  *)
LEMMA IsolationRemoves ==
    ASSUME DeliveryInv, IsolationInv, NEW p \in Probe, RemoveProbe(p)
    PROVE  IsolationInv'
<1>1. /\ gone' = gone \cup {p} /\ UNCHANGED <<batch, splits, blamed, rejected, flushing, work>>
  BY DEF RemoveProbe, flushVars
<1>2. PartsOf'
  BY <1>1 DEF IsolationInv, PartsOf
<1>3. \A e : Offends(e) => Offends(e)'
  BY <1>1 DEF Offends
<1>4. Mild' => Mild
  BY <1>1, <1>3 DEF Mild, OneOffender
<1>5. ASSUME Mild', Isolating PROVE Isolating'
  <2>1. \A e \in ToSet(rejected') : Offends(e)'
    BY <1>1, <1>3, <1>5 DEF Isolating
  <2>2. flushing' /\ splits' < MaxSplits => \E e \in ToSet(batch') : Offends(e)'
    BY <1>1, <1>3, <1>5 DEF Isolating
  <2>3. ASSUME NEW s \in ToSet(work'), Refusable(s)' PROVE Len(s) <= 2 ^ splits'
    <3>0. work # <<>> /\ s \in ToSet(work)
      BY <1>1, <2>3, EmptyParts
    <3>1. s \in Seq(Event) /\ ToSet(s) \subseteq ToSet(batch) /\ Len(s) <= Len(batch)
      <4>1. s \in Seq(Event) /\ ToSet(s) \subseteq All(work)
        BY <3>0, IsolationState, TailParts
      <4> QED
        BY <3>0, <4>1 DEF IsolationInv, PartsOf
    <3>2. CASE Refusable(s)
      BY <1>1, <1>5, <3>0, <3>2 DEF Isolating
    <3>3. CASE ~Refusable(s)
      <4>1. PICK e \in ToSet(s) : Offends(e)' /\ ~Offends(e)
        <5>1. ToSet(s) \subseteq Event
          BY <3>1 DEF ToSet
        <5> QED
          BY <2>3, <3>3, <5>1 DEF Refusable, Offends
      <4>2. \A f \in ToSet(batch) : ~Offends(f)
        <5>1. SUFFICES ASSUME NEW f \in ToSet(batch), Offends(f) PROVE FALSE
          OBVIOUS
        <5>2. e = f
          BY <1>1, <1>3, <1>5, <3>1, <4>1, <5>1 DEF Mild, OneOffender
        <5> QED
          BY <4>1, <5>1, <5>2
      <4>3. splits = MaxSplits
        BY <1>5, <3>0, <4>2, IsolationState DEF Isolating
      <4>4. Len(batch) <= 2 ^ MaxSplits
        BY <1>1, <1>5 DEF Mild
      <4>5. Len(s) \in Nat /\ Len(batch) \in Nat /\ 2 ^ MaxSplits \in Nat
        BY <3>1, IsolationState
      <4> QED
        BY <1>1, <3>1, <4>3, <4>4, <4>5
    <3> QED
      BY <3>2, <3>3
  <2> QED
    BY <2>1, <2>2, <2>3 DEF Isolating
<1> QED
  BY <1>1, <1>2, <1>4, <1>5 DEF IsolationInv

(* A batch is refused for its offender: halved, it is left with a power of *)
(* two less, and no other part has an offender; given up, it is one event. *)
LEMMA IsolationRefuses ==
    ASSUME DeliveryInv, IsolationInv, Refused
    PROVE  IsolationInv'
<1> DEFINE h == Head(work)
           t == Tail(work)
<1>1. /\ work # <<>> /\ blamed' = (blamed \/ ~Refusable(h))
      /\ UNCHANGED <<batch, gone, flushing>>
      /\ \/ /\ Len(h) <= 1 \/ splits = 0
            /\ rejected' = rejected \o h /\ work' = t /\ UNCHANGED splits
         \/ /\ Len(h) > 1 /\ splits > 0 /\ splits' = splits - 1
            /\ work' = Halves(h) \o t /\ UNCHANGED rejected
  BY DEF Refused
<1>2. /\ h \in Seq(Event) /\ t \in Seq(Seq(Event)) /\ IsInjective(h) /\ flushing
      /\ All(work) = ToSet(h) \cup All(t) /\ ToSet(h) \cap All(t) = {}
  BY <1>1, NextBatch
<1>3. /\ batch \in Seq(Event) /\ Len(batch) \in Nat
      /\ work \in Seq(Seq(Event)) /\ rejected \in Seq(Event)
      /\ splits \in 0 .. MaxSplits /\ MaxSplits \in Nat
      /\ \A n \in Nat : 2 ^ n \in Nat
  BY IsolationState
<1>4. /\ h \in ToSet(work) /\ ToSet(t) \subseteq ToSet(work)
      /\ \A s \in ToSet(work) : s \in Seq(Event) /\ ToSet(s) \subseteq All(work)
  BY <1>1, <1>3, TailParts
<1>5. \A s \in ToSet(t) : s \in Seq(Event) /\ ToSet(s) \subseteq All(t)
  <2>1. CASE t = <<>>
    BY <2>1, EmptyParts
  <2>2. CASE t # <<>>
    BY <1>2, <2>2, TailParts
  <2> QED
    BY <2>1, <2>2
<1> HIDE DEF h, t
<1>6. Len(h) \in Nat /\ splits \in Nat /\ blamed' \in BOOLEAN /\ 2 ^ splits \in Nat
  BY <1>1, <1>2, <1>3 DEF IsolationInv
<1>7. PartsOf
  BY DEF IsolationInv
<1>8. Mild' => Mild /\ Refusable(h)
  BY <1>1 DEF Mild, OneOffender, Offends, IsolationInv
<1>9. /\ \A e : Offends(e)' <=> Offends(e)
      /\ \A s : Refusable(s)' <=> Refusable(s)
  BY <1>1 DEF Offends, Refusable
<1>10. ASSUME Mild'
       PROVE  /\ Isolating /\ Refusable(h) /\ Len(h) <= 2 ^ splits /\ OneOffender
              /\ \E e \in ToSet(h) : Offends(e)
  <2>1. Isolating /\ Refusable(h) /\ OneOffender
    BY <1>8, <1>10 DEF IsolationInv, Mild
  <2>2. Len(h) <= 2 ^ splits
    BY <1>4, <2>1 DEF Isolating
  <2>3. \E e \in ToSet(h) : Offends(e)
    BY <1>2, <2>1, RefusableOffends
  <2> QED
    BY <2>1, <2>2, <2>3
<1>11. ToSet(h) \subseteq ToSet(batch) /\ All(t) \subseteq ToSet(batch)
       /\ ToSet(rejected) \subseteq ToSet(batch)
  BY <1>2, <1>7 DEF PartsOf
<1>12. CASE /\ Len(h) <= 1 \/ splits = 0
            /\ rejected' = rejected \o h /\ work' = t /\ UNCHANGED splits
  <2>1. ToSet(rejected') = ToSet(rejected) \cup ToSet(h)
    BY <1>2, <1>3, <1>12, JoinParts
  <2>2. PartsOf'
    BY <1>1, <1>4, <1>7, <1>11, <1>12, <2>1 DEF PartsOf
  <2>3. ASSUME Mild' PROVE Isolating'
    <3>1. Len(h) <= 1
      BY <1>6, <1>10, <1>12, <2>3, PowerZero
    <3>2. \A e, f \in ToSet(h) : e = f
      <4>1. DOMAIN h = 1 .. Len(h)
        BY <1>2
      <4>2. \A i, j \in DOMAIN h : i = j
        BY <1>6, <3>1, <4>1
      <4> QED
        BY <4>2 DEF ToSet
    <3>3. \A e \in ToSet(rejected') : Offends(e)'
      BY <1>9, <1>10, <2>1, <2>3, <3>2 DEF Isolating
    <3>4. \E e \in ToSet(batch') : Offends(e)'
      BY <1>1, <1>9, <1>10, <1>11, <2>3
    <3>5. \A s \in ToSet(work') : Refusable(s)' => Len(s) <= 2 ^ splits'
      BY <1>4, <1>9, <1>10, <1>12, <2>3 DEF Isolating
    <3> QED
      BY <3>3, <3>4, <3>5 DEF Isolating
  <2> QED
    BY <1>1, <1>3, <1>6, <1>12, <2>2, <2>3 DEF IsolationInv
<1>13. CASE /\ Len(h) > 1 /\ splits > 0 /\ splits' = splits - 1
            /\ work' = Halves(h) \o t /\ UNCHANGED rejected
  <2>1. PICK x, y \in Seq(Event) :
           /\ Halves(h) = <<x, y>>
           /\ ToSet(x) \cup ToSet(y) = ToSet(h)
           /\ 2 * Len(x) <= Len(h) + 1 /\ 2 * Len(y) <= Len(h) + 1
    BY <1>2, <1>13, HalvesSmaller
  <2>2. work' = Push(x, y, t)
    BY <1>13, <2>1 DEF Push
  <2>3. ToSet(work') = {x, y} \cup ToSet(t)
    BY <1>2, <2>1, <2>2, PushedParts
  <2>4. Len(x) \in Nat /\ Len(y) \in Nat
    BY <2>1
  <2>5. PartsOf'
    <3>1. Len(h) <= Len(batch)
      BY <1>4, <1>7 DEF PartsOf
    <3>2. Len(x) <= Len(batch) /\ Len(y) <= Len(batch)
      BY <1>3, <1>6, <1>13, <2>1, <2>4, <3>1
    <3>3. All(work') \subseteq ToSet(batch)
      <4>1. \A s \in ToSet(work') : ToSet(s) \subseteq ToSet(batch)
        BY <1>5, <1>11, <2>1, <2>3
      <4> QED
        BY <4>1 DEF All, ToSet
    <3>4. \A s \in ToSet(work') : Len(s) <= Len(batch')
      BY <1>1, <1>4, <1>7, <2>3, <3>2 DEF PartsOf
    <3> QED
      BY <1>1, <1>11, <1>13, <3>3, <3>4 DEF PartsOf
  <2>6. ASSUME Mild' PROVE Isolating'
    <3>1. \A e \in ToSet(rejected') : Offends(e)'
      BY <1>9, <1>10, <1>13, <2>6 DEF Isolating
    <3>2. \E e \in ToSet(batch') : Offends(e)'
      BY <1>1, <1>9, <1>10, <1>11, <2>6
    <3>3. Len(x) <= 2 ^ splits' /\ Len(y) <= 2 ^ splits'
      <4> DEFINE c == 2 ^ splits'
      <4>1. splits' \in Nat /\ splits' + 1 = splits
        BY <1>6, <1>13
      <4>2. c \in Nat /\ 2 ^ splits = 2 * c
        BY <4>1, PowerNext
      <4>3. Len(h) <= 2 * c
        BY <1>10, <2>6, <4>2
      <4> HIDE DEF c
      <4>4. Len(x) <= c /\ Len(y) <= c
        BY <1>6, <2>1, <2>4, <4>2, <4>3
      <4> QED
        BY <4>4 DEF c
    <3>4. ASSUME NEW s \in ToSet(t) PROVE ~Refusable(s)
      <4>1. PICK e \in ToSet(h) : Offends(e)
        BY <1>10, <2>6
      <4>2. SUFFICES ASSUME NEW f \in ToSet(s), Offends(f) PROVE FALSE
        BY <1>5, RefusableOffends
      <4>3. f \in All(t) /\ e \in ToSet(h)
        BY <1>5
      <4>4. e = f
        BY <1>10, <1>11, <2>6, <4>1, <4>2, <4>3 DEF OneOffender
      <4> QED
        BY <1>2, <4>3, <4>4
    <3>5. \A s \in ToSet(work') : Refusable(s)' => Len(s) <= 2 ^ splits'
      BY <1>9, <2>3, <3>3, <3>4
    <3> QED
      BY <3>1, <3>2, <3>5 DEF Isolating
  <2>7. splits' \in 0 .. MaxSplits
    BY <1>3, <1>13
  <2> QED
    BY <1>1, <1>3, <1>6, <2>5, <2>6, <2>7 DEF IsolationInv
<1> QED
  BY <1>1, <1>12, <1>13

LEMMA IsolationInitial == DeliveryInit => IsolationInv
<1> SUFFICES ASSUME DeliveryInit PROVE IsolationInv
  OBVIOUS
<1>1. /\ work = <<>> /\ rejected = <<>> /\ batch = <<>> /\ ~flushing /\ splits = MaxSplits
      /\ blamed = FALSE
  BY DEF DeliveryInit
<1>2. ToSet(work) = {} /\ ToSet(rejected) = {} /\ All(work) = {}
  BY <1>1, EmptyParts
<1>3. <<>> \in Seq(Event) /\ MaxSplits \in 0 .. MaxSplits
  BY LimitsType
<1>4. PartsOf /\ Isolating
  BY <1>1, <1>2 DEF PartsOf, Isolating
<1> QED
  BY <1>1, <1>3, <1>4 DEF IsolationInv

LEMMA IsolationStep ==
    ASSUME DeliveryInv, IsolationInv, [DeliveryNext]_deliveryVars
    PROVE  IsolationInv'
<1>1. CASE UNCHANGED deliveryVars
  BY <1>1, IsolationUnmoved DEF deliveryVars
<1>2. CASE Flush \/ FinalFlush
  BY <1>2, IsolationStarts DEF Flush, FinalFlush
<1>3. CASE StopFlushing \/ Capture
  BY <1>3, IsolationUnmoved DEF StopFlushing, Capture, flushVars
<1>4. CASE Delivered
  BY <1>4, IsolationPops DEF Delivered
<1>5. CASE Deferred
  BY <1>5, IsolationPops DEF Deferred
<1> QED
  BY <1>1, <1>2, <1>3, <1>4, <1>5, IsolationRefuses, IsolationEnds, IsolationRemoves
     DEF DeliveryNext

(* The hypothesis of OffenderIsolated counts places of the batch. *)
LEMMA CountedOffender ==
    ASSUME batch \in Seq(Event),
           Cardinality({i \in DOMAIN batch : ProbeOf[batch[i]] \in gone}) <= 1
    PROVE  OneOffender
<1> DEFINE I == {i \in DOMAIN batch : ProbeOf[batch[i]] \in gone}
<1>1. DOMAIN batch = 1 .. Len(batch) /\ Len(batch) \in Nat
  OBVIOUS
<1>2. IsFiniteSet(1 .. Len(batch))
  BY <1>1, FirstPlaces
<1>3. IsFiniteSet(I) /\ Cardinality(I) \in Nat
  <2>1. I \subseteq 1 .. Len(batch)
    BY <1>1
  <2> HIDE DEF I
  <2> QED
    BY <1>2, <2>1, FS_Subset, FS_CardinalityType
<1>4. ASSUME NEW i \in I, NEW j \in I, i # j PROVE FALSE
  <2>1. IsFiniteSet({i}) /\ Cardinality({i}) = 1
    BY FS_Singleton
  <2>0. j \notin {i}
    BY <1>4
  <2>2. Cardinality({i} \cup {j}) = 2
    <3> DEFINE D == {i}
               U == {i} \cup {j}
    <3>1. Cardinality(U) = Cardinality(D) + 1
      BY <2>0, <2>1, FS_AddElement, Zenon
    <3>2. Cardinality(D) = 1
      BY <2>1
    <3> HIDE DEF D, U
    <3>3. Cardinality(U) = 2
      BY <3>1, <3>2
    <3> QED
      BY <3>3 DEF U
  <2>3. {i} \cup {j} \subseteq I
    OBVIOUS
  <2>5. Cardinality(I) <= 1
    OBVIOUS
  <2> HIDE DEF I
  <2>4. Cardinality({i} \cup {j}) <= Cardinality(I)
    BY <1>3, <2>3, FS_Subset
  <2> DEFINE c == Cardinality(I)
             d == Cardinality({i} \cup {j})
  <2>6. d = 2 /\ d <= c /\ c <= 1 /\ c \in Nat
    BY <1>3, <2>2, <2>4, <2>5
  <2> HIDE DEF c, d
  <2> QED
    BY <2>6
<1>5. ASSUME NEW e \in ToSet(batch), NEW f \in ToSet(batch), Offends(e), Offends(f)
      PROVE  e = f
  <2>1. PICK i \in DOMAIN batch : e = batch[i]
    BY DEF ToSet
  <2>2. PICK j \in DOMAIN batch : f = batch[j]
    BY DEF ToSet
  <2>3. i \in I /\ j \in I
    BY <1>5, <2>1, <2>2 DEF Offends
  <2> QED
    BY <1>4, <2>1, <2>2, <2>3
<1> QED
  BY <1>5 DEF OneOffender

(* Halving a refused batch finds the event the broker refuses              *)
(* (ingest-isolation.ts): with one such event among at most 2^MaxSplits,   *)
(* and no refusal for another field, no other event of the flush is given  *)
(* up, whatever fails and whichever probes are removed meanwhile.          *)
THEOREM HalvingIsolates == DeliverySpec => []OffenderIsolated
<1>1. DeliveryInit => IsolationInv
  BY IsolationInitial
<1>2. DeliveryInv /\ IsolationInv /\ [DeliveryNext]_deliveryVars => IsolationInv'
  BY IsolationStep
<1>3. ASSUME DeliveryInv, IsolationInv PROVE OffenderIsolated
  <2> SUFFICES ASSUME Cardinality({i \in DOMAIN batch : ProbeOf[batch[i]] \in gone}) <= 1,
                      Len(batch) <= 2 ^ MaxSplits, ~blamed,
                      NEW i \in DOMAIN rejected
               PROVE  ProbeOf[rejected[i]] \in gone
    BY DEF OffenderIsolated
  <2>1. batch \in Seq(Event)
    BY <1>3 DEF IsolationInv
  <2>2. OneOffender
    BY <2>1, CountedOffender
  <2>3. Isolating
    BY <1>3, <2>2 DEF IsolationInv, Mild
  <2>4. rejected[i] \in ToSet(rejected)
    BY DEF ToSet
  <2> QED
    BY <2>3, <2>4 DEF Isolating, Offends
<1>4. DeliveryInv /\ IsolationInv => OffenderIsolated
  BY <1>3
<1> QED
  BY <1>1, <1>2, <1>4, DeliveryAlways, PTL DEF DeliverySpec

-----------------------------------------------------------------------------
(* Sums over a finite set *)

(* A non-empty set of naturals has a least element. *)
LEMMA LeastNatural ==
    ASSUME NEW S, S \subseteq Nat, S # {}
    PROVE  \E x \in S : \A y \in S : x <= y
<1>1. PICK x \in S : \A y \in S : ~(<<y, x>> \in OpToRel(<, Nat))
  BY NatLessThanWellFounded, WFMin
<1>2. \A y \in S : ~(y < x)
  BY <1>1 DEF OpToRel
<1> QED
  BY <1>2

(* The sums SumFunction computes, one element chosen after the other. *)
Member(s) == CHOOSE x \in s : TRUE

Sums(g, f, C) ==
    \A s \in C : g[s] = IF s = {} THEN 0 ELSE f[Member(s)] + g[s \ {Member(s)}]

LEMMA MemberIn == ASSUME NEW s, s # {} PROVE Member(s) \in s
BY DEF Member

LEMMA Smaller ==
    ASSUME NEW s, IsFiniteSet(s), NEW x \in s
    PROVE  /\ IsFiniteSet(s \ {x}) /\ Cardinality(s \ {x}) \in Nat
           /\ Cardinality(s) \in Nat /\ Cardinality(s) = Cardinality(s \ {x}) + 1
<1>1. IsFiniteSet(s \ {x}) /\ Cardinality(s \ {x}) = Cardinality(s) - 1
  BY FS_RemoveElement
<1>2. Cardinality(s) \in Nat /\ Cardinality(s \ {x}) \in Nat
  BY <1>1, FS_CardinalityType
<1> QED
  BY <1>1, <1>2

SumTable(g, f, S) == g \in [SUBSET S -> Nat] /\ Sums(g, f, SUBSET S)

LEMMA SumsExist ==
    ASSUME NEW S, NEW f, IsFiniteSet(S), f \in [S -> Nat]
    PROVE  \E g : SumTable(g, f, S)
<1> DEFINE UpTo(n) == {s \in SUBSET S : Cardinality(s) <= n}
           Has(n) == \E g \in [UpTo(n) -> Nat] : Sums(g, f, UpTo(n))
           Bad == {n \in Nat : ~Has(n)}
<1>1. \A s \in SUBSET S : IsFiniteSet(s) /\ Cardinality(s) \in Nat
  BY FS_Subset, FS_CardinalityType
<1>2. Has(0)
  <2> DEFINE g == [s \in UpTo(0) |-> 0]
  <2>1. \A s \in UpTo(0) : s = {}
    BY <1>1, FS_EmptySet
  <2>2. g \in [UpTo(0) -> Nat]
    OBVIOUS
  <2>3. \A s \in UpTo(0) : g[s] = 0
    OBVIOUS
  <2> HIDE DEF g, UpTo
  <2>4. Sums(g, f, UpTo(0))
    BY <2>1, <2>3 DEF Sums
  <2> QED
    BY <2>2, <2>4
<1>3. ASSUME NEW n \in Nat, Has(n) PROVE Has(n + 1)
  <2>1. PICK g \in [UpTo(n) -> Nat] : Sums(g, f, UpTo(n))
    BY <1>3
  <2> DEFINE h == [s \in UpTo(n + 1) |-> IF s = {} THEN 0
                                         ELSE f[Member(s)] + g[s \ {Member(s)}]]
  <2>2. ASSUME NEW s \in UpTo(n + 1), s # {}
        PROVE  Member(s) \in S /\ s \ {Member(s)} \in UpTo(n) /\ s \ {Member(s)} \in UpTo(n + 1)
    <3>1. Member(s) \in s /\ s \in SUBSET S /\ Cardinality(s) <= n + 1 /\ IsFiniteSet(s)
      BY <1>1, <2>2, MemberIn
    <3>2. /\ Cardinality(s \ {Member(s)}) \in Nat
          /\ Cardinality(s) \in Nat /\ Cardinality(s) = Cardinality(s \ {Member(s)}) + 1
      BY <3>1, Smaller
    <3>3. Cardinality(s \ {Member(s)}) <= n /\ Cardinality(s \ {Member(s)}) <= n + 1
      BY <3>1, <3>2
    <3> QED
      BY <3>1, <3>3
  <2>3. {} \in UpTo(n)
    BY FS_EmptySet
  <2>4. ASSUME NEW s \in UpTo(n) PROVE s \in UpTo(n + 1)
    BY <1>1
  <2> HIDE DEF UpTo
  <2>5. h \in [UpTo(n + 1) -> Nat]
    <3> SUFFICES ASSUME NEW s \in UpTo(n + 1), s # {}
                 PROVE  f[Member(s)] + g[s \ {Member(s)}] \in Nat
      OBVIOUS
    <3>1. f[Member(s)] \in Nat /\ g[s \ {Member(s)}] \in Nat
      BY <2>1, <2>2
    <3> QED
      BY <3>1
  <2>6. \A s \in UpTo(n) : h[s] = g[s]
    BY <2>1, <2>4 DEF Sums
  <2>7. ASSUME NEW s \in UpTo(n + 1)
        PROVE  h[s] = IF s = {} THEN 0 ELSE f[Member(s)] + h[s \ {Member(s)}]
    BY <2>2, <2>6
  <2> HIDE DEF h
  <2>8. Sums(h, f, UpTo(n + 1))
    BY <2>7 DEF Sums
  <2> QED
    BY <2>5, <2>8
<1> HIDE DEF Has
<1>4. Bad = {}
  <2> SUFFICES ASSUME Bad # {} PROVE FALSE
    OBVIOUS
  <2>1. PICK n \in Bad : \A m \in Bad : n <= m
    BY LeastNatural
  <2>2. n \in Nat /\ n # 0 /\ ~Has(n)
    BY <1>2
  <2>3. n - 1 \in Nat /\ ~(n <= n - 1) /\ (n - 1) + 1 = n
    BY <2>2
  <2>4. Has(n - 1)
    BY <2>1, <2>3
  <2> QED
    BY <1>3, <2>2, <2>3, <2>4
<1>5. Has(Cardinality(S))
  BY <1>1, <1>4
<1>6. UpTo(Cardinality(S)) = SUBSET S
  <2>1. \A s \in SUBSET S : Cardinality(s) <= Cardinality(S)
    BY FS_Subset
  <2> QED
    BY <2>1
<1> QED
  BY <1>5, <1>6 DEF Has, SumTable

(* Sums over the same values are the same. *)
Same(e, f, T) == \A x \in T : e[x] = f[x]

LEMMA SumsAgree ==
    ASSUME NEW S, IsFiniteSet(S), NEW f, NEW g, Sums(g, f, SUBSET S),
           NEW T, T \subseteq S, NEW e, NEW h, Sums(h, e, SUBSET T),
           Same(e, f, T)
    PROVE  Same(h, g, SUBSET T)
<1> DEFINE Bad == {s \in SUBSET T : h[s] # g[s]}
           Sizes == {Cardinality(s) : s \in Bad}
<1>1. \A s \in SUBSET S : IsFiniteSet(s) /\ Cardinality(s) \in Nat
  BY FS_Subset, FS_CardinalityType
<1> SUFFICES ASSUME Bad # {} PROVE FALSE
  BY DEF Same
<1>2. Sizes \subseteq Nat /\ Sizes # {}
  BY <1>1
<1>3. PICK n \in Sizes : \A m \in Sizes : n <= m
  BY <1>2, LeastNatural
<1>4. PICK s \in Bad : \A t \in Bad : Cardinality(s) <= Cardinality(t)
  BY <1>3
<1>5. s # {} /\ s \in SUBSET T /\ s \in SUBSET S /\ h[s] # g[s]
  <2>1. s \in SUBSET T /\ s \in SUBSET S /\ h[s] # g[s]
    OBVIOUS
  <2> QED
    BY <2>1 DEF Sums
<1> DEFINE x == Member(s)
<1>6. x \in s
  BY <1>5, MemberIn
<1>7. h[s] = e[x] + h[s \ {x}] /\ g[s] = f[x] + g[s \ {x}] /\ e[x] = f[x]
  BY <1>5, <1>6 DEF Sums, Same
<1>8. s \ {x} \in SUBSET T /\ s \ {x} \in SUBSET S
  BY <1>5
<1>9. Cardinality(s \ {x}) \in Nat /\ Cardinality(s) = Cardinality(s \ {x}) + 1
  BY <1>1, <1>5, <1>6, Smaller
<1>10. h[s \ {x}] = g[s \ {x}]
  <2>1. ~(Cardinality(s) <= Cardinality(s \ {x}))
    BY <1>9
  <2> QED
    BY <1>4, <1>8, <2>1
<1> QED
  BY <1>5, <1>7, <1>10

(* The order in which the elements are chosen does not matter. *)
OneLess(g, f, S) == \A s \in SUBSET S : \A x \in s : g[s] = f[x] + g[s \ {x}]

LEMMA SumsOneLess ==
    ASSUME NEW S, NEW f, NEW g, IsFiniteSet(S), f \in [S -> Nat], SumTable(g, f, S)
    PROVE  OneLess(g, f, S)
<1>0. g \in [SUBSET S -> Nat] /\ Sums(g, f, SUBSET S)
  BY DEF SumTable
<1> DEFINE Good(s) == \A x \in s : g[s] = f[x] + g[s \ {x}]
           Bad == {s \in SUBSET S : ~Good(s)}
           Sizes == {Cardinality(s) : s \in Bad}
<1>1. \A s \in SUBSET S : IsFiniteSet(s) /\ Cardinality(s) \in Nat
  BY FS_Subset, FS_CardinalityType
<1> SUFFICES ASSUME Bad # {} PROVE FALSE
  BY DEF OneLess
<1> HIDE DEF Good
<1>2. Sizes \subseteq Nat /\ Sizes # {}
  BY <1>1
<1>3. PICK n \in Sizes : \A m \in Sizes : n <= m
  BY <1>2, LeastNatural
<1>4. PICK s \in Bad : \A t \in Bad : Cardinality(s) <= Cardinality(t)
  BY <1>3
<1>5. s \in SUBSET S /\ ~Good(s)
  OBVIOUS
<1>6. PICK x \in s : ~(g[s] = f[x] + g[s \ {x}])
  BY <1>5 DEF Good
<1> DEFINE y == Member(s)
<1>7. y \in s /\ g[s] = f[y] + g[s \ {y}]
  <2>1. s # {}
    BY <1>6
  <2>2. y \in s
    BY <2>1, MemberIn
  <2> QED
    BY <1>0, <1>5, <2>1, <2>2 DEF Sums
<1> HIDE DEF y
<1>8. x # y
  BY <1>6, <1>7
<1>9. ASSUME NEW z \in s PROVE Good(s \ {z}) /\ s \ {z} \in SUBSET S
  <2>1. s \ {z} \in SUBSET S
    BY <1>5
  <2>2. Cardinality(s \ {z}) \in Nat /\ Cardinality(s) = Cardinality(s \ {z}) + 1
    BY <1>1, <1>5, Smaller
  <2>3. ~(Cardinality(s) <= Cardinality(s \ {z}))
    BY <2>2
  <2> QED
    BY <1>4, <2>1, <2>3
<1>10. x \in s \ {y} /\ y \in s \ {x}
  BY <1>6, <1>7, <1>8
<1>11. g[s \ {y}] = f[x] + g[(s \ {y}) \ {x}]
  BY <1>7, <1>9, <1>10 DEF Good
<1>12. g[s \ {x}] = f[y] + g[(s \ {x}) \ {y}]
  BY <1>6, <1>9, <1>10 DEF Good
<1>13. (s \ {y}) \ {x} = (s \ {x}) \ {y}
  OBVIOUS
<1>14. /\ f[x] \in Nat /\ f[y] \in Nat
       /\ g[(s \ {x}) \ {y}] \in Nat
  BY <1>0, <1>5, <1>6, <1>7
<1>15. g[s] = f[x] + g[s \ {x}]
  <2> DEFINE u == (s \ {x}) \ {y}
             v == s \ {x}
             w == s \ {y}
  <2>1. g[s] = f[y] + g[w] /\ g[w] = f[x] + g[u] /\ g[v] = f[y] + g[u]
    BY <1>7, <1>11, <1>12, <1>13
  <2>2. f[x] \in Nat /\ f[y] \in Nat /\ g[u] \in Nat
    BY <1>14
  <2> HIDE DEF u, v, w
  <2>3. g[s] = f[x] + g[v]
    BY <2>1, <2>2
  <2> QED
    BY <2>3 DEF v
<1> QED
  BY <1>6, <1>15

(* What SumFunction gives for a part of the values. *)
LEMMA SumOfPart ==
    ASSUME NEW S, NEW f, NEW g, IsFiniteSet(S), f \in [S -> Nat], SumTable(g, f, S),
           NEW T, NEW e, T \subseteq S, e \in [T -> Nat], Same(e, f, T)
    PROVE  SumFunction(e) = g[T]
<1> DEFINE Iter(h) == h = [s \in SUBSET (DOMAIN e) |->
                              IF s = {} THEN 0 ELSE e[Member(s)] + h[s \ {Member(s)}]]
           it == CHOOSE h : Iter(h)
<1>1. SumFunction(e) = it[DOMAIN e]
  BY DEF SumFunction, SumFunctionOnSet, FoldFunctionOnSet, MapThenFoldSet, Member
<1>2. DOMAIN e = T /\ IsFiniteSet(T)
  BY FS_Subset
<1>3. PICK h : SumTable(h, e, T)
  BY <1>2, SumsExist
<1>8. Sums(g, f, SUBSET S)
  BY DEF SumTable
<1>4. Iter(h)
  <2>1. \A s \in SUBSET T : h[s] = IF s = {} THEN 0 ELSE e[Member(s)] + h[s \ {Member(s)}]
    BY <1>3 DEF Sums, SumTable
  <2> QED
    BY <1>2, <1>3, <2>1 DEF SumTable
<1>5. Iter(it)
  BY <1>4
<1> HIDE DEF it
<1>6. Sums(it, e, SUBSET T)
  <2>1. it = [s \in SUBSET T |-> IF s = {} THEN 0 ELSE e[Member(s)] + it[s \ {Member(s)}]]
    BY <1>2, <1>5
  <2>2. \A s \in SUBSET T : it[s] = IF s = {} THEN 0 ELSE e[Member(s)] + it[s \ {Member(s)}]
    BY <2>1, Zenon
  <2> QED
    BY <2>2 DEF Sums
<1>7. Same(it, g, SUBSET T)
  BY <1>2, <1>6, <1>8, SumsAgree
<1> QED
  BY <1>1, <1>2, <1>7 DEF Same

(* The bytes of the first n + 1 events are those of the first n and the    *)
(* size of the next.                                                       *)
LEMMA BytesGrow ==
    ASSUME NEW s \in Seq(Event)
    PROVE  /\ \A n \in 0 .. Len(s) : Bytes(Prefix(s, n)) \in Nat
           /\ Bytes(Prefix(s, 0)) = 0
           /\ \A n \in 0 .. (Len(s) - 1) :
                 Bytes(Prefix(s, n + 1)) = Bytes(Prefix(s, n)) + Size[s[n + 1]]
<1> DEFINE S == 1 .. Len(s)
           f == [i \in S |-> Size[s[i]]]
<1>1. Len(s) \in Nat /\ \A i \in S : s[i] \in Event /\ Size[s[i]] \in Nat
  BY SizeType
<1>2. IsFiniteSet(S)
  BY <1>1, FirstPlaces
<1>3. f \in [S -> Nat] /\ \A i \in S : f[i] = Size[s[i]]
  BY <1>1
<1> HIDE DEF f
<1>4. PICK g : SumTable(g, f, S)
  BY <1>2, <1>3, SumsExist
<1>5. ASSUME NEW n \in 0 .. Len(s) PROVE Bytes(Prefix(s, n)) = g[1 .. n]
  <2> DEFINE t == Prefix(s, n)
             e == [i \in DOMAIN t |-> Size[t[i]]]
  <2>1. t \in Seq(Event) /\ Len(t) = n /\ \A i \in 1 .. n : t[i] = s[i]
    BY CutAt
  <2>2. DOMAIN t = 1 .. n /\ 1 .. n \subseteq S
    BY <1>1, <2>1
  <2> HIDE DEF t
  <2>3. e \in [1 .. n -> Nat] /\ Same(e, f, 1 .. n)
    BY <1>1, <1>3, <2>1, <2>2 DEF Same
  <2>4. Bytes(t) = SumFunction(e)
    BY DEF Bytes
  <2>5. SumFunction(e) = g[1 .. n]
    <3> DEFINE T == 1 .. n
    <3>1. T \subseteq S /\ e \in [T -> Nat] /\ Same(e, f, T)
      BY <2>2, <2>3
    <3> HIDE DEF e, S, T
    <3>2. SumFunction(e) = g[T]
      BY <1>2, <1>3, <1>4, <3>1, SumOfPart
    <3> QED
      BY <3>2 DEF T
  <2> QED
    BY <2>4, <2>5 DEF t
<1>6. g[{}] = 0 /\ 1 .. 0 = {}
  <2>1. 1 .. 0 = {}
    OBVIOUS
  <2>2. {} \in SUBSET S
    OBVIOUS
  <2>3. g[{}] = 0
    BY <1>4, <2>2, Zenon DEF Sums, SumTable
  <2> QED
    BY <2>1, <2>3
<1>7. \A n \in 0 .. Len(s) : g[1 .. n] \in Nat
  BY <1>1, <1>4 DEF SumTable
<1>8. ASSUME NEW n \in 0 .. (Len(s) - 1)
      PROVE  Bytes(Prefix(s, n + 1)) = Bytes(Prefix(s, n)) + Size[s[n + 1]]
  <2>1. n + 1 \in S /\ n \in 0 .. Len(s) /\ n + 1 \in 0 .. Len(s)
        /\ n + 1 \in 1 .. (n + 1) /\ 1 .. (n + 1) \subseteq S
        /\ (1 .. (n + 1)) \ {n + 1} = 1 .. n
    BY <1>1
  <2> HIDE DEF S
  <2>2. g[1 .. (n + 1)] = f[n + 1] + g[(1 .. (n + 1)) \ {n + 1}]
    <3>1. OneLess(g, f, S)
      BY <1>2, <1>3, <1>4, SumsOneLess
    <3> QED
      BY <2>1, <3>1 DEF OneLess
  <2>3. g[1 .. (n + 1)] = Size[s[n + 1]] + g[1 .. n]
    BY <1>3, <2>1, <2>2
  <2>4. Size[s[n + 1]] \in Nat /\ g[1 .. n] \in Nat
    BY <1>1, <1>7, <2>1
  <2>5. Bytes(Prefix(s, n + 1)) = g[1 .. (n + 1)] /\ Bytes(Prefix(s, n)) = g[1 .. n]
    BY <1>5, <2>1
  <2> QED
    BY <2>3, <2>4, <2>5
<1>9. Len(s) \in Nat /\ 0 \in 0 .. Len(s)
  BY <1>1
<1> HIDE DEF S
<1>10. \A n \in 0 .. Len(s) : Bytes(Prefix(s, n)) \in Nat
  BY <1>5, <1>7
<1>11. Bytes(Prefix(s, 0)) = 0
  BY <1>5, <1>6, <1>9
<1> QED
  BY <1>8, <1>10, <1>11

(* Two sequences with the same elements are the same. *)
LEMMA SameElements ==
    ASSUME NEW S, NEW s \in Seq(S), NEW t \in Seq(S), Len(s) = Len(t),
           \A i \in 1 .. Len(s) : s[i] = t[i]
    PROVE  s = t
OBVIOUS

LEMMA WholePrefix ==
    ASSUME NEW s \in Seq(Event)
    PROVE  Prefix(s, Len(s)) = s
<1>1. Len(s) \in 0 .. Len(s)
  OBVIOUS
<1>2. /\ Prefix(s, Len(s)) \in Seq(Event) /\ Len(Prefix(s, Len(s))) = Len(s)
      /\ \A i \in 1 .. Len(s) : Prefix(s, Len(s))[i] = s[i]
  BY <1>1, CutAt
<1> DEFINE t == Prefix(s, Len(s))
<1>3. t \in Seq(Event) /\ Len(t) = Len(s) /\ \A i \in 1 .. Len(t) : t[i] = s[i]
  BY <1>2
<1> HIDE DEF t
<1>4. t = s
  BY <1>3, SameElements
<1> QED
  BY <1>4 DEF t

(* What is taken from the front and what stays add up. *)
LEMMA BytesAddUp ==
    ASSUME NEW s \in Seq(Event), NEW n \in 0 .. Len(s)
    PROVE  /\ Bytes(s) = Bytes(Prefix(s, n)) + Bytes(Rest(s, n))
           /\ Bytes(s) \in Nat /\ Bytes(Prefix(s, n)) \in Nat /\ Bytes(Rest(s, n)) \in Nat
<1> DEFINE r == Rest(s, n)
           Adds(k) == Bytes(Prefix(s, n + k)) = Bytes(Prefix(s, n)) + Bytes(Prefix(r, k))
           Bad == {k \in 0 .. Len(r) : ~Adds(k)}
<1>1. /\ Len(s) \in Nat /\ n \in Nat /\ n <= Len(s) /\ r \in Seq(Event)
      /\ Len(r) \in Nat /\ Len(s) = n + Len(r)
      /\ \A i \in 1 .. Len(r) : r[i] = s[n + i]
  <2>1. r \in Seq(Event) /\ Len(r) = Len(s) - n /\ \A i \in 1 .. (Len(s) - n) : r[i] = s[n + i]
    BY CutAt
  <2>2. Len(s) \in Nat
    OBVIOUS
  <2> QED
    BY <2>1, <2>2
<1> HIDE DEF r
<1>2. /\ \A k \in 0 .. Len(s) : Bytes(Prefix(s, k)) \in Nat
      /\ \A k \in 0 .. (Len(s) - 1) : Bytes(Prefix(s, k + 1)) = Bytes(Prefix(s, k)) + Size[s[k + 1]]
  BY BytesGrow
<1>3. /\ \A k \in 0 .. Len(r) : Bytes(Prefix(r, k)) \in Nat
      /\ Bytes(Prefix(r, 0)) = 0
      /\ \A k \in 0 .. (Len(r) - 1) : Bytes(Prefix(r, k + 1)) = Bytes(Prefix(r, k)) + Size[r[k + 1]]
  BY <1>1, BytesGrow
<1>4. Adds(0)
  <2>1. n + 0 = n /\ Bytes(Prefix(s, n)) \in Nat
    BY <1>1, <1>2
  <2> QED
    BY <1>3, <2>1
<1>5. ASSUME NEW k \in 0 .. (Len(r) - 1), Adds(k) PROVE Adds(k + 1)
  <2>1. /\ n + k \in 0 .. (Len(s) - 1) /\ (n + k) + 1 = n + (k + 1)
        /\ k + 1 \in 1 .. Len(r) /\ k \in 0 .. Len(r) /\ n + k \in 0 .. Len(s)
        /\ n + (k + 1) \in 1 .. Len(s)
    BY <1>1
  <2>2. r[k + 1] = s[n + (k + 1)]
    BY <1>1, <2>1
  <2>3. Bytes(Prefix(s, n + (k + 1))) = Bytes(Prefix(s, n + k)) + Size[s[n + (k + 1)]]
    BY <1>2, <2>1
  <2>4. Bytes(Prefix(r, k + 1)) = Bytes(Prefix(r, k)) + Size[r[k + 1]]
    BY <1>3
  <2>5. Size[r[k + 1]] \in Nat
    BY <1>1, <2>1, SizeType
  <2>6. Bytes(Prefix(s, n)) \in Nat /\ Bytes(Prefix(r, k)) \in Nat
    BY <1>1, <1>2, <1>3, <2>1
  <2>7. Bytes(Prefix(s, n + k)) = Bytes(Prefix(s, n)) + Bytes(Prefix(r, k))
    BY <1>5
  <2> QED
    BY <2>2, <2>3, <2>4, <2>5, <2>6, <2>7
<1> HIDE DEF Adds
<1>6. Bad = {}
  <2> SUFFICES ASSUME Bad # {} PROVE FALSE
    OBVIOUS
  <2>1. Bad \subseteq Nat
    BY <1>1
  <2>2. PICK k \in Bad : \A j \in Bad : k <= j
    BY <2>1, LeastNatural
  <2>3. k \in Nat /\ k <= Len(r) /\ k # 0 /\ ~Adds(k)
    BY <1>1, <1>4
  <2>4. k - 1 \in 0 .. (Len(r) - 1) /\ k - 1 \in 0 .. Len(r) /\ ~(k <= k - 1) /\ (k - 1) + 1 = k
    BY <1>1, <2>3
  <2>5. Adds(k - 1)
    BY <2>2, <2>4
  <2> QED
    BY <1>5, <2>3, <2>4, <2>5
<1>7. Adds(Len(r))
  BY <1>1, <1>6
<1>8. Prefix(s, Len(s)) = s /\ Prefix(r, Len(r)) = r
  BY <1>1, WholePrefix
<1>9. Bytes(s) = Bytes(Prefix(s, n)) + Bytes(r)
  BY <1>1, <1>7, <1>8 DEF Adds
<1>10. Bytes(Prefix(s, n)) \in Nat /\ Bytes(r) \in Nat /\ Bytes(s) \in Nat
  <2>1. Len(r) \in 0 .. Len(r) /\ Len(s) \in 0 .. Len(s)
    BY <1>1
  <2> QED
    BY <1>2, <1>3, <1>8, <2>1
<1> QED
  BY <1>9, <1>10 DEF r

LEMMA BytesAppend ==
    ASSUME NEW s \in Seq(Event), NEW e \in Event
    PROVE  Bytes(Append(s, e)) = Bytes(s) + Size[e]
<1> DEFINE t == Append(s, e)
<1>1. /\ t \in Seq(Event) /\ Len(t) = Len(s) + 1 /\ Len(s) \in Nat /\ t[Len(s) + 1] = e
      /\ \A i \in 1 .. Len(s) : t[i] = s[i]
  OBVIOUS
<1> HIDE DEF t
<1>2. Len(s) \in 0 .. (Len(t) - 1) /\ Len(s) \in 0 .. Len(t)
  BY <1>1
<1>3. Bytes(Prefix(t, Len(s) + 1)) = Bytes(Prefix(t, Len(s))) + Size[t[Len(s) + 1]]
  BY <1>1, <1>2, BytesGrow
<1>4. Prefix(t, Len(s) + 1) = t
  BY <1>1, WholePrefix
<1>5. Prefix(t, Len(s)) = s
  <2> DEFINE u == Prefix(t, Len(s))
  <2>1. u \in Seq(Event) /\ Len(u) = Len(s) /\ \A i \in 1 .. Len(u) : u[i] = s[i]
    BY <1>1, <1>2, CutAt
  <2> HIDE DEF u
  <2>2. u = s
    BY <2>1, SameElements
  <2> QED
    BY <2>2 DEF u
<1> QED
  BY <1>1, <1>3, <1>4, <1>5 DEF t

LEMMA NoBytes == Bytes(<<>>) = 0
<1>1. <<>> \in Seq(Event) /\ Len(<<>>) = 0
  OBVIOUS
<1>2. Prefix(<<>>, 0) = <<>>
  BY <1>1, WholePrefix
<1> QED
  BY <1>1, <1>2, BytesGrow

-----------------------------------------------------------------------------
(* The account of the buffer *)

(* An event is enqueued: the oldest make room for it. *)
LEMMA CaptureAccount ==
    ASSUME DeliveryInv, BytesExact, Capture
    PROVE  BytesExact'
<1> DEFINE e == captured + 1
<1>1. buffer \in Seq(Event) /\ captured \in Nat /\ captured < NumEvents /\ Enqueue(e)
  BY DeliveryState DEF Capture
<1>2. e \in Event /\ Size[e] \in Nat /\ MaxBytes \in Nat
  BY <1>1, NumEventsType, SizeType, LimitsType DEF Event
<1>3. bytes = Bytes(buffer) /\ bytes <= MaxBytes
  BY DEF BytesExact
<1> HIDE DEF e
<1>4. CASE UNCHANGED <<buffer, bytes>>
  BY <1>3, <1>4 DEF BytesExact
<1>5. CASE /\ Size[e] <= MaxBytes
           /\ \E n \in 0 .. Len(buffer) :
                /\ Evicts(n, Size[e])
                /\ buffer' = Append(SubSeq(buffer, n + 1, Len(buffer)), e)
                /\ bytes' = bytes - Bytes(Prefix(buffer, n)) + Size[e]
                /\ dropped' = dropped + n
  <2>1. PICK n \in 0 .. Len(buffer) :
           /\ Evicts(n, Size[e])
           /\ buffer' = Append(Rest(buffer, n), e)
           /\ bytes' = bytes - Bytes(Prefix(buffer, n)) + Size[e]
    BY <1>5 DEF Rest
  <2>2. /\ Bytes(buffer) = Bytes(Prefix(buffer, n)) + Bytes(Rest(buffer, n))
        /\ Bytes(Prefix(buffer, n)) \in Nat /\ Bytes(Rest(buffer, n)) \in Nat
    BY <1>1, BytesAddUp
  <2>3. Bytes(buffer') = Bytes(Rest(buffer, n)) + Size[e]
    BY <1>1, <1>2, <2>1, CutAt, BytesAppend
  <2>4. bytes' = Bytes(buffer')
    BY <1>2, <1>3, <2>1, <2>2, <2>3
  <2>5. bytes - Bytes(Prefix(buffer, n)) + Size[e] <= MaxBytes \/ ~(n < Len(buffer))
    BY <1>1, <1>2, <1>3, <2>1, <2>2 DEF Evicts
  <2>6. CASE ~(n < Len(buffer))
    <3>1. n = Len(buffer)
      BY <1>1, <2>6
    <3>2. Bytes(Prefix(buffer, n)) = Bytes(buffer)
      BY <1>1, <3>1, WholePrefix
    <3>3. Size[e] <= MaxBytes
      BY <1>5
    <3>4. bytes' = Size[e]
      <4> DEFINE b == Bytes(buffer)
                 c == Size[e]
      <4>1. bytes' = b - b + c /\ b \in Nat /\ c \in Nat
        BY <1>2, <1>3, <2>1, <2>2, <3>2
      <4> HIDE DEF b, c
      <4>2. bytes' = c
        BY <4>1
      <4> QED
        BY <4>2 DEF c
    <3> QED
      BY <2>4, <3>3, <3>4 DEF BytesExact
  <2> QED
    BY <2>1, <2>4, <2>5, <2>6 DEF BytesExact
<1> QED
  BY <1>1, <1>4, <1>5 DEF Enqueue

LEMMA StartFlushAccount ==
    ASSUME DeliveryInv, BytesExact, StartFlush
    PROVE  BytesExact'
<1>1. PICK n \in 1 .. Len(buffer) : /\ Takes(n, ByteBudget)
                                    /\ batch' = Prefix(buffer, n)
                                    /\ work' = <<Prefix(buffer, n)>>
                                    /\ buffer' = SubSeq(buffer, n + 1, Len(buffer))
                                    /\ bytes' = bytes - Bytes(Prefix(buffer, n))
  BY DEF StartFlush
<1>2. buffer \in Seq(Event) /\ n \in 0 .. Len(buffer)
  BY DeliveryState
<1>3. /\ Bytes(buffer) = Bytes(Prefix(buffer, n)) + Bytes(Rest(buffer, n))
      /\ Bytes(Prefix(buffer, n)) \in Nat /\ Bytes(Rest(buffer, n)) \in Nat
  BY <1>2, BytesAddUp
<1>4. bytes = Bytes(buffer) /\ bytes <= MaxBytes /\ MaxBytes \in Nat
  BY LimitsType DEF BytesExact
<1>5. bytes' = Bytes(buffer') /\ bytes' <= MaxBytes
  BY <1>1, <1>3, <1>4 DEF Rest
<1> QED
  BY <1>5 DEF BytesExact

LEMMA EndFlushAccount ==
    ASSUME DeliveryInv, EndFlush
    PROVE  BytesExact'
<1> DEFINE all == deferred \o buffer
<1>1. all \in Seq(Event) /\ MaxBytes \in Nat
  BY DeliveryState, LimitsType
<1>2. PICK n \in 0 .. Len(all) : /\ Keeps(n, all)
                                 /\ buffer' = Prefix(all, n)
                                 /\ bytes' = Bytes(Prefix(all, n))
                                 /\ dropped' = dropped + Len(rejected) + Len(all) - n
  BY DEF EndFlush, Requeue
<1> HIDE DEF all
<1>3. Bytes(Prefix(all, n)) \in Nat /\ Bytes(Prefix(all, 0)) = 0
  BY <1>1, BytesGrow
<1>4. ~(Bytes(Prefix(all, n)) > MaxBytes /\ n > 0)
  BY <1>2 DEF Keeps
<1>5. Bytes(Prefix(all, n)) <= MaxBytes
  BY <1>1, <1>2, <1>3, <1>4
<1> QED
  BY <1>2, <1>5 DEF BytesExact

LEMMA AccountStep ==
    ASSUME DeliveryInv, BytesExact, [DeliveryNext]_deliveryVars
    PROVE  BytesExact'
<1>1. CASE UNCHANGED deliveryVars
  BY <1>1 DEF deliveryVars, BytesExact
<1>2. CASE Flush \/ FinalFlush
  BY <1>2, StartFlushAccount DEF Flush, FinalFlush
<1>3. CASE StopFlushing \/ Delivered \/ Deferred \/ Refused \/ \E p \in Probe : RemoveProbe(p)
  BY <1>3 DEF StopFlushing, Delivered, Deferred, Refused, RemoveProbe, BytesExact
<1> QED
  BY <1>1, <1>2, <1>3, CaptureAccount, EndFlushAccount DEF DeliveryNext

(* The buffer's own account of its bytes is what its events really take,   *)
(* and within the limit, whatever was evicted by enqueue, taken by         *)
(* takeBatch or put back by requeueFront (event-buffer.ts).                *)
THEOREM BufferAccountExact == DeliverySpec => []BytesExact
<1>1. DeliveryInit => BytesExact
  BY NoBytes, LimitsType DEF DeliveryInit, BytesExact
<1>2. DeliveryInv /\ BytesExact /\ [DeliveryNext]_deliveryVars => BytesExact'
  BY AccountStep
<1> QED
  BY <1>1, <1>2, DeliveryAlways, PTL DEF DeliverySpec

==============================================================================
