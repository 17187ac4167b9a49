---------------------------- MODULE CaptureProofs ----------------------------
(***************************************************************************)
(* Proofs about SdkCapture, for every program, any limits and any path.    *)
(* The invariant CaptureInv says of every container that has been read     *)
(* that it holds what the program holds, and of the queue that it is read  *)
(* breadth first, which is why no path of the probe ends in a container    *)
(* that was not read.                                                      *)
(***************************************************************************)
EXTENDS SdkCapture, WellFoundedInduction, TLAPS

-----------------------------------------------------------------------------
(* Induction over the places of a sequence, and what FoldLeft computes.  A *)
(* step of a fold is given as a function, which a lemma can speak of.      *)

(* A non-empty set of naturals has a least element. *)
LEMMA LeastNatural ==
    ASSUME NEW S, S \subseteq Nat, S # {}
    PROVE  \E x \in S : \A y \in S : x <= y
<1>1. PICK x \in S : \A y \in S : ~(<<y, x>> \in OpToRel(<, Nat))
  BY NatLessThanWellFounded, WFMin
<1>2. \A y \in S : ~(y < x)
  BY <1>1 DEF OpToRel
<1> QED
  BY <1>2

Inductive(G, n) == 0 \in G /\ \A k \in 0 .. (n - 1) : k \in G => k + 1 \in G

LEMMA Induction ==
    ASSUME NEW n, n \in Nat, NEW G, Inductive(G, n)
    PROVE  0 .. n \subseteq G
<1> DEFINE Bad == {k \in 0 .. n : k \notin G}
<1> SUFFICES ASSUME Bad # {} PROVE FALSE
  OBVIOUS
<1>0. Bad \subseteq Nat /\ Bad # {}
  OBVIOUS
<1>1. PICK k \in Bad : \A j \in Bad : k <= j
  BY <1>0, LeastNatural
<1>2. k \in 0 .. n /\ k \notin G /\ k # 0
  BY DEF Inductive
<1>3. k - 1 \in 0 .. (n - 1) /\ k - 1 \in 0 .. n /\ ~(k <= k - 1) /\ (k - 1) + 1 = k
  BY <1>2
<1>4. k - 1 \in G
  BY <1>1, <1>3
<1> QED
  BY <1>2, <1>3, <1>4 DEF Inductive

LEMMA LastPlace ==
    ASSUME NEW n, n \in Nat, NEW s, s \in SUBSET (1 .. n), s # {}
    PROVE  Max(s) \in s /\ \A x \in s : x <= Max(s)
<1> DEFINE Gaps == {n - x : x \in s}
<1>1. Gaps \subseteq Nat /\ Gaps # {}
  <2>1. \A x \in s : n - x \in Nat
    OBVIOUS
  <2> QED
    BY <2>1
<1>2. PICK g \in Gaps : \A h \in Gaps : g <= h
  BY <1>1, LeastNatural
<1>3. PICK x \in s : g = n - x
  BY <1>2
<1>4. \A y \in s : n - x <= n - y
  BY <1>2, <1>3
<1>5. \A y \in s : x >= y
  BY <1>4
<1> QED
  BY <1>5 DEF Max

LEMMA LastOf ==
    ASSUME NEW m, m \in Nat, NEW s, s \in SUBSET (1 .. (m + 1)), m + 1 \in s
    PROVE  Max(s) = m + 1
<1>1. m + 1 \in Nat /\ s # {}
  OBVIOUS
<1>2. Max(s) \in s /\ m + 1 <= Max(s)
  BY <1>1, LastPlace
<1>3. \A x \in s : x \in 1 .. (m + 1)
  OBVIOUS
<1> DEFINE M == Max(s)
<1>4. M \in 1 .. (m + 1) /\ m + 1 <= M
  BY <1>2, <1>3
<1> HIDE DEF M
<1>5. M = m + 1
  BY <1>4
<1> QED
  BY <1>5 DEF M

FoldBy(it, F, b, n) ==
    \A s \in SUBSET (1 .. n) :
        it[s] = IF s = {} THEN b ELSE F[<<Max(s), it[s \ {Max(s)}]>>]

FoldTable(it, F, b, n, S) == it \in [SUBSET (1 .. n) -> S] /\ FoldBy(it, F, b, n)

StepOf(F, n, S) == F \in [(1 .. n) \X S -> S]

LEMMA FoldExists ==
    ASSUME NEW n, n \in Nat, NEW S, NEW b, b \in S, NEW F, StepOf(F, n, S)
    PROVE  \E it : FoldTable(it, F, b, n, S)
<1> DEFINE G == {m \in 0 .. n : \E it : FoldTable(it, F, b, m, S)}
<1>1. 0 \in G
  <2> DEFINE it == [s \in SUBSET (1 .. 0) |-> b]
  <2>1. \A s \in SUBSET (1 .. 0) : s = {} /\ it[s] = b
    OBVIOUS
  <2>2. it \in [SUBSET (1 .. 0) -> S]
    OBVIOUS
  <2> HIDE DEF it
  <2>3. FoldTable(it, F, b, 0, S)
    BY <2>1, <2>2 DEF FoldTable, FoldBy
  <2> QED
    BY <2>3
<1>2. ASSUME NEW m \in 0 .. (n - 1), m \in G PROVE m + 1 \in G
  <2>1. PICK it : FoldTable(it, F, b, m, S)
    BY <1>2
  <2> DEFINE h == [s \in SUBSET (1 .. (m + 1)) |->
                      IF m + 1 \in s THEN F[<<m + 1, it[s \ {m + 1}]>>] ELSE it[s]]
  <2>2. m \in Nat /\ m + 1 \in 1 .. n /\ m + 1 \in 0 .. n
    BY <1>2
  <2>3. ASSUME NEW s \in SUBSET (1 .. (m + 1)), m + 1 \in s
        PROVE  /\ s \ {m + 1} \in SUBSET (1 .. m) /\ s \ {m + 1} \in SUBSET (1 .. (m + 1))
               /\ Max(s) = m + 1 /\ s # {}
    <3>1. Max(s) = m + 1
      BY <2>2, <2>3, LastOf
    <3> QED
      BY <2>2, <2>3, <3>1
  <2>4. ASSUME NEW s \in SUBSET (1 .. (m + 1)), m + 1 \notin s
        PROVE  /\ s \in SUBSET (1 .. m)
               /\ s # {} => /\ Max(s) \in s
                            /\ s \ {Max(s)} \in SUBSET (1 .. m)
                            /\ s \ {Max(s)} \in SUBSET (1 .. (m + 1))
    <3>1. s \in SUBSET (1 .. m)
      BY <2>2, <2>4
    <3>2. s # {} => Max(s) \in s
      BY <2>2, <3>1, LastPlace
    <3> QED
      BY <2>2, <3>1, <3>2
  <2>5. h \in [SUBSET (1 .. (m + 1)) -> S]
    <3>1. ASSUME NEW s \in SUBSET (1 .. (m + 1)), m + 1 \in s
          PROVE  F[<<m + 1, it[s \ {m + 1}]>>] \in S
      <4>1. it[s \ {m + 1}] \in S
        BY <2>1, <2>3, <3>1 DEF FoldTable
      <4> QED
        BY <2>2, <4>1 DEF StepOf
    <3>2. ASSUME NEW s \in SUBSET (1 .. (m + 1)), m + 1 \notin s PROVE it[s] \in S
      BY <2>1, <2>4, <3>2 DEF FoldTable
    <3> QED
      BY <3>1, <3>2
  <2>6. \A s \in SUBSET (1 .. (m + 1)) :
           h[s] = IF m + 1 \in s THEN F[<<m + 1, it[s \ {m + 1}]>>] ELSE it[s]
    OBVIOUS
  <2> HIDE DEF h
  <2>7. ASSUME NEW s \in SUBSET (1 .. (m + 1))
        PROVE  h[s] = IF s = {} THEN b ELSE F[<<Max(s), h[s \ {Max(s)}]>>]
    <3>1. CASE m + 1 \in s
      <4>1. h[s \ {m + 1}] = it[s \ {m + 1}]
        BY <2>3, <2>6, <3>1
      <4> QED
        BY <2>3, <2>6, <3>1, <4>1
    <3>2. CASE m + 1 \notin s
      <4>1. h[s] = it[s] /\ s \in SUBSET (1 .. m)
        BY <2>4, <2>6, <3>2
      <4>2. CASE s = {}
        BY <2>1, <4>1, <4>2 DEF FoldTable, FoldBy
      <4>3. CASE s # {}
        <5>1. h[s \ {Max(s)}] = it[s \ {Max(s)}]
          BY <2>4, <2>6, <3>2, <4>3
        <5> QED
          BY <2>1, <4>1, <4>3, <5>1 DEF FoldTable, FoldBy
      <4> QED
        BY <4>2, <4>3
    <3> QED
      BY <3>1, <3>2
  <2>8. FoldTable(h, F, b, m + 1, S)
    BY <2>5, <2>7 DEF FoldTable, FoldBy
  <2> QED
    BY <2>2, <2>8
<1>3. Inductive(G, n)
  BY <1>1, <1>2 DEF Inductive
<1>4. n \in G
  BY <1>3, Induction
<1> QED
  BY <1>4

(* The prefixes a fold goes through. *)
LEMMA OneMore ==
    ASSUME NEW n, n \in Nat, NEW k, k \in 0 .. (n - 1)
    PROVE  /\ 1 .. (k + 1) \in SUBSET (1 .. n) /\ 1 .. (k + 1) # {}
           /\ Max(1 .. (k + 1)) = k + 1 /\ (1 .. (k + 1)) \ {k + 1} = 1 .. k
<1>1. k \in Nat /\ k + 1 \in 1 .. (k + 1)
  OBVIOUS
<1>2. Max(1 .. (k + 1)) = k + 1
  <2> DEFINE s == 1 .. (k + 1)
  <2>1. s \in SUBSET (1 .. (k + 1)) /\ k + 1 \in s
    BY <1>1
  <2> HIDE DEF s
  <2>2. Max(s) = k + 1
    BY <1>1, <2>1, LastOf
  <2> QED
    BY <2>2 DEF s
<1>3. 1 .. (k + 1) \in SUBSET (1 .. n) /\ 1 .. (k + 1) # {}
  BY <1>1
<1>4. (1 .. (k + 1)) \ {k + 1} = 1 .. k
  BY <1>1
<1> QED
  BY <1>2, <1>3, <1>4

-----------------------------------------------------------------------------
(* Sequences of properties: what counts is which properties they have. *)

(* The entries of a longer sequence. *)
LEMMA OneEntryMore ==
    ASSUME NEW S, NEW s, s \in Seq(S), NEW p, p \in S
    PROVE  Append(s, p) \in Seq(S) /\ ToSet(Append(s, p)) = ToSet(s) \cup {p}
<1> DEFINE t == Append(s, p)
<1>1. t \in Seq(S) /\ DOMAIN t = DOMAIN s \cup {Len(s) + 1} /\ t[Len(s) + 1] = p
  OBVIOUS
<1>2. \A i \in DOMAIN s : t[i] = s[i]
  OBVIOUS
<1> HIDE DEF t
<1>3. ToSet(t) = ToSet(s) \cup {p}
  BY <1>1, <1>2 DEF ToSet
<1> QED
  BY <1>1, <1>3 DEF t

(* The filter keeps the properties with the given keys. *)
LEMMA OnlyPicks ==
    ASSUME NEW S, NEW props \in Seq(S), NEW keys
    PROVE  /\ Only(props, keys) \in Seq(S)
           /\ ToSet(Only(props, keys)) = {e \in ToSet(props) : e.key \in keys}
<1> DEFINE n == Len(props)
           Add(s, p) == IF p.key \in keys THEN Append(s, p) ELSE s
           F == [c \in (1 .. n) \X Seq(S) |-> Add(c[2], props[c[1]])]
           Iter(h) == h = [s \in SUBSET (DOMAIN props) |->
                              IF s = {} THEN <<>> ELSE Add(h[s \ {Max(s)}], props[Max(s)])]
           it == CHOOSE h : Iter(h)
<1>1. n \in Nat /\ DOMAIN props = 1 .. n /\ \A k \in 1 .. n : props[k] \in S
  OBVIOUS
<1>2. \A s \in Seq(S), p \in S : Add(s, p) \in Seq(S)
  OBVIOUS
<1> HIDE DEF Add
<1>3. Only(props, keys) = it[DOMAIN props]
  BY DEF Only, FoldLeft, MapThenFoldSet, Add
<1>4. StepOf(F, n, Seq(S)) /\ \A k \in 1 .. n, s \in Seq(S) : F[<<k, s>>] = Add(s, props[k])
  BY <1>1, <1>2 DEF StepOf
<1> HIDE DEF F
<1>5. PICK h : FoldTable(h, F, <<>>, n, Seq(S))
  <2>1. <<>> \in Seq(S)
    OBVIOUS
  <2> QED
    BY <1>1, <1>4, <2>1, FoldExists
<1>6. Iter(h)
  <2>1. ASSUME NEW s \in SUBSET (1 .. n)
        PROVE  h[s] = IF s = {} THEN <<>> ELSE Add(h[s \ {Max(s)}], props[Max(s)])
    <3>1. CASE s = {}
      BY <1>5, <3>1 DEF FoldTable, FoldBy
    <3>2. CASE s # {}
      <4>1. Max(s) \in 1 .. n /\ s \ {Max(s)} \in SUBSET (1 .. n)
        BY <1>1, <3>2, LastPlace
      <4>2. h[s \ {Max(s)}] \in Seq(S)
        BY <1>5, <4>1 DEF FoldTable
      <4>3. h[s] = F[<<Max(s), h[s \ {Max(s)}]>>]
        BY <1>5, <3>2 DEF FoldTable, FoldBy
      <4> QED
        BY <1>4, <3>2, <4>1, <4>2, <4>3
    <3> QED
      BY <3>1, <3>2
  <2>2. h \in [SUBSET (1 .. n) -> Seq(S)]
    BY <1>5 DEF FoldTable
  <2> HIDE DEF n
  <2> QED
    BY <1>1, <2>1, <2>2
<1>7. Iter(it)
  BY <1>6
<1> HIDE DEF it
<1>8. \A s \in SUBSET (1 .. n) :
         it[s] = IF s = {} THEN <<>> ELSE Add(it[s \ {Max(s)}], props[Max(s)])
  BY <1>1, <1>7, Zenon
<1>9. it[1 .. 0] = <<>>
  <2>1. 1 .. 0 = {} /\ {} \in SUBSET (1 .. n)
    OBVIOUS
  <2> QED
    BY <1>8, <2>1, Zenon
<1>10. ASSUME NEW k \in 0 .. (n - 1) PROVE it[1 .. (k + 1)] = Add(it[1 .. k], props[k + 1])
  <2>1. /\ 1 .. (k + 1) \in SUBSET (1 .. n) /\ 1 .. (k + 1) # {}
        /\ Max(1 .. (k + 1)) = k + 1 /\ (1 .. (k + 1)) \ {k + 1} = 1 .. k
    BY <1>1, OneMore
  <2> DEFINE s == 1 .. (k + 1)
  <2>2. it[s] = Add(it[s \ {Max(s)}], props[Max(s)])
    <3>1. s \in SUBSET (1 .. n) /\ s # {}
      BY <2>1
    <3> HIDE DEF s
    <3> QED
      BY <1>8, <3>1, Zenon
  <2> QED
    BY <2>1, <2>2
<1> DEFINE Good(k) == /\ it[1 .. k] \in Seq(S)
                      /\ ToSet(it[1 .. k]) = {e \in {props[i] : i \in 1 .. k} : e.key \in keys}
           G == {k \in 0 .. n : Good(k)}
<1>11. Good(0)
  BY <1>9 DEF ToSet
<1>12. ASSUME NEW k \in 0 .. (n - 1), Good(k) PROVE Good(k + 1)
  <2>1. k \in Nat /\ k + 1 \in 1 .. n /\ props[k + 1] \in S
    BY <1>1
  <2> DEFINE s == it[1 .. k]
             t == it[1 .. (k + 1)]
             p == props[k + 1]
  <2>2. t = Add(s, p) /\ s \in Seq(S) /\ p \in S
    BY <1>10, <1>12, <2>1
  <2>3. ToSet(s) = {e \in {props[i] : i \in 1 .. k} : e.key \in keys}
    BY <1>12
  <2>4. {props[i] : i \in 1 .. (k + 1)} = {props[i] : i \in 1 .. k} \cup {p}
    <3>1. 1 .. (k + 1) = (1 .. k) \cup {k + 1}
      BY <2>1
    <3> QED
      BY <3>1
  <2> HIDE DEF s, t, p
  <2>5. CASE p.key \in keys
    <3>1. t = Append(s, p)
      BY <2>2, <2>5 DEF Add
    <3>2. t \in Seq(S) /\ ToSet(t) = ToSet(s) \cup {p}
      BY <2>2, <3>1, OneEntryMore
    <3> QED
      BY <2>3, <2>4, <2>5, <3>2 DEF t
  <2>6. CASE p.key \notin keys
    <3>1. t = s
      BY <2>2, <2>6 DEF Add
    <3> QED
      BY <2>2, <2>3, <2>4, <2>6, <3>1 DEF t
  <2> QED
    BY <2>5, <2>6
<1>13. Inductive(G, n)
  <2>1. \A k \in 0 .. (n - 1) : k \in 0 .. n /\ k + 1 \in 0 .. n
    BY <1>1
  <2>2. 0 \in 0 .. n
    BY <1>1
  <2> HIDE DEF Good, n
  <2> QED
    BY <1>11, <1>12, <2>1, <2>2 DEF Inductive
<1>14. Good(n)
  <2> HIDE DEF Good
  <2>1. n \in G
    BY <1>1, <1>13, Induction
  <2> QED
    BY <2>1
<1> QED
  BY <1>1, <1>3, <1>14 DEF ToSet

(* A fold as a function of the number of steps. *)
Chain(g, F, b, n, S) ==
    /\ g \in [0 .. n -> S] /\ g[0] = b
    /\ \A k \in 0 .. (n - 1) : g[k + 1] = F[<<k + 1, g[k]>>]

LEMMA ChainExists ==
    ASSUME NEW n, n \in Nat, NEW S, NEW b, b \in S, NEW F, StepOf(F, n, S)
    PROVE  \E g : Chain(g, F, b, n, S)
<1>1. PICK it : FoldTable(it, F, b, n, S)
  BY FoldExists
<1> DEFINE g == [k \in 0 .. n |-> it[1 .. k]]
<1>2. g \in [0 .. n -> S]
  <2>1. \A k \in 0 .. n : 1 .. k \in SUBSET (1 .. n)
    OBVIOUS
  <2> QED
    BY <1>1, <2>1 DEF FoldTable
<1>3. g[0] = b
  <2>1. 1 .. 0 = {} /\ {} \in SUBSET (1 .. n) /\ 0 \in 0 .. n
    OBVIOUS
  <2>2. it[{}] = b
    BY <1>1, <2>1, Zenon DEF FoldTable, FoldBy
  <2> QED
    BY <2>1, <2>2
<1>4. ASSUME NEW k \in 0 .. (n - 1) PROVE g[k + 1] = F[<<k + 1, g[k]>>]
  <2>1. /\ 1 .. (k + 1) \in SUBSET (1 .. n) /\ 1 .. (k + 1) # {}
        /\ Max(1 .. (k + 1)) = k + 1 /\ (1 .. (k + 1)) \ {k + 1} = 1 .. k
    BY OneMore
  <2>2. g[k + 1] = it[1 .. (k + 1)] /\ g[k] = it[1 .. k]
    OBVIOUS
  <2> DEFINE s == 1 .. (k + 1)
  <2>3. it[s] = F[<<Max(s), it[s \ {Max(s)}]>>]
    <3>1. s \in SUBSET (1 .. n) /\ s # {}
      BY <2>1
    <3> HIDE DEF s
    <3> QED
      BY <1>1, <3>1, Zenon DEF FoldTable, FoldBy
  <2> HIDE DEF g
  <2> QED
    BY <2>1, <2>2, <2>3
<1> HIDE DEF g
<1>5. Chain(g, F, b, n, S)
  BY <1>2, <1>3, <1>4 DEF Chain
<1> QED
  BY <1>5

(* A sequence after another. *)
LEMMA Joined ==
    ASSUME NEW S, NEW s, s \in Seq(S), NEW t, t \in Seq(S)
    PROVE  /\ s \o t \in Seq(S) /\ Len(s \o t) = Len(s) + Len(t)
           /\ \A i \in 1 .. Len(s) : (s \o t)[i] = s[i]
           /\ \A i \in (Len(s) + 1) .. Len(s \o t) : (s \o t)[i] \in ToSet(t)
           /\ ToSet(s \o t) = ToSet(s) \cup ToSet(t)
<1> DEFINE u == s \o t
<1>1. /\ u \in Seq(S) /\ Len(u) = Len(s) + Len(t) /\ DOMAIN u = 1 .. (Len(s) + Len(t))
      /\ \A i \in 1 .. Len(s) : u[i] = s[i]
      /\ \A i \in 1 .. Len(t) : u[Len(s) + i] = t[i]
  OBVIOUS
<1>2. Len(s) \in Nat /\ Len(t) \in Nat /\ DOMAIN s = 1 .. Len(s) /\ DOMAIN t = 1 .. Len(t)
  OBVIOUS
<1> HIDE DEF u
<1>3. ASSUME NEW i \in (Len(s) + 1) .. Len(u) PROVE u[i] \in ToSet(t)
  <2>1. i - Len(s) \in 1 .. Len(t) /\ Len(s) + (i - Len(s)) = i
    BY <1>1, <1>2
  <2>2. u[i] = t[i - Len(s)]
    BY <1>1, <2>1
  <2> QED
    BY <1>2, <2>1, <2>2 DEF ToSet
<1>4. ToSet(u) \subseteq ToSet(s) \cup ToSet(t)
  <2> SUFFICES ASSUME NEW i \in 1 .. (Len(s) + Len(t)) PROVE u[i] \in ToSet(s) \cup ToSet(t)
    BY <1>1 DEF ToSet
  <2>1. CASE i \in 1 .. Len(s)
    BY <1>1, <1>2, <2>1 DEF ToSet
  <2>2. CASE i \in (Len(s) + 1) .. Len(u)
    BY <1>3, <2>2
  <2> QED
    BY <1>1, <1>2, <2>1, <2>2
<1>5. ToSet(s) \subseteq ToSet(u)
  <2>1. ASSUME NEW i \in 1 .. Len(s) PROVE s[i] \in ToSet(u)
    <3>1. i \in DOMAIN u /\ u[i] = s[i]
      BY <1>1, <1>2
    <3> QED
      BY <3>1 DEF ToSet
  <2> QED
    BY <1>2, <2>1 DEF ToSet
<1>6. ToSet(t) \subseteq ToSet(u)
  <2>1. ASSUME NEW i \in 1 .. Len(t) PROVE t[i] \in ToSet(u)
    <3>1. Len(s) + i \in DOMAIN u /\ u[Len(s) + i] = t[i]
      BY <1>1, <1>2
    <3> QED
      BY <3>1 DEF ToSet
  <2> QED
    BY <1>2, <2>1 DEF ToSet
<1> QED
  BY <1>1, <1>3, <1>4, <1>5, <1>6 DEF u

(* FlattenSeq keeps the entries, those of the first sequence in place. *)
FlatOf(u, ss, k, S) ==
    /\ u \in Seq(S)
    /\ ToSet(u) = UNION {ToSet(ss[i]) : i \in 1 .. k}
    /\ Len(ss[1]) <= Len(u) /\ \A i \in 1 .. Len(ss[1]) : u[i] = ss[1][i]
    /\ \A i \in (Len(ss[1]) + 1) .. Len(u) : u[i] \in UNION {ToSet(ss[j]) : j \in 2 .. k}

LEMMA Flattened ==
    ASSUME NEW S, NEW ss, ss \in Seq(Seq(S)), ss # <<>>
    PROVE  FlatOf(FlattenSeq(ss), ss, Len(ss), S)
<1> DEFINE n == Len(ss)
           Add(k, s) == IF k = 1 THEN ss[1] ELSE s \o ss[k]
           F == [c \in (1 .. n) \X Seq(S) |-> Add(c[1], c[2])]
           Iter(h) == h = [i \in 1 .. n |-> IF i = 1 THEN ss[i] ELSE h[i - 1] \o ss[i]]
           it == CHOOSE h : Iter(h)
<1>1. n \in Nat /\ n >= 1 /\ DOMAIN ss = 1 .. n /\ \A k \in 1 .. n : ss[k] \in Seq(S)
  OBVIOUS
<1>2. FlattenSeq(ss) = it[n]
  BY <1>1 DEF FlattenSeq
<1>12. \A k \in 1 .. n, s \in Seq(S) : Add(k, s) \in Seq(S)
  BY <1>1
<1> HIDE DEF Add
<1>3. StepOf(F, n, Seq(S)) /\ \A k \in 1 .. n, s \in Seq(S) : F[<<k, s>>] = Add(k, s)
  BY <1>1, <1>12 DEF StepOf
<1> HIDE DEF F
<1>4. PICK g : Chain(g, F, <<>>, n, Seq(S))
  <2>1. <<>> \in Seq(S)
    OBVIOUS
  <2> QED
    BY <1>1, <1>3, <2>1, ChainExists
<1> DEFINE h == [k \in 1 .. n |-> g[k]]
<1>5. ASSUME NEW k \in 1 .. n
      PROVE  h[k] \in Seq(S) /\ h[k] = IF k = 1 THEN ss[k] ELSE h[k - 1] \o ss[k]
  <2>1. k - 1 \in 0 .. (n - 1) /\ k - 1 \in 0 .. n /\ k \in 0 .. n /\ (k - 1) + 1 = k
    BY <1>1
  <2>2. g[k] = F[<<k, g[k - 1]>>] /\ g[k - 1] \in Seq(S) /\ g[k] \in Seq(S)
    BY <1>4, <2>1 DEF Chain
  <2>3. g[k] = Add(k, g[k - 1])
    BY <1>3, <2>2
  <2>4. k # 1 => k - 1 \in 1 .. n
    BY <1>1
  <2> QED
    BY <2>2, <2>3, <2>4 DEF Add
<1>6. Iter(h)
  <2> HIDE DEF n
  <2>1. DOMAIN h = 1 .. n
    OBVIOUS
  <2> QED
    BY <1>5, <2>1
<1> HIDE DEF h
<1>7. Iter(it)
  BY <1>6
<1> HIDE DEF it
<1>8. ASSUME NEW k \in 1 .. n PROVE it[k] = IF k = 1 THEN ss[k] ELSE it[k - 1] \o ss[k]
  BY <1>7, Zenon
<1> DEFINE Good(k) == k = 0 \/ FlatOf(it[k], ss, k, S)
           G == {k \in 0 .. n : Good(k)}
<1>9. ASSUME NEW k \in 0 .. (n - 1), Good(k) PROVE Good(k + 1)
  <2>1. k \in Nat /\ k + 1 \in 1 .. n /\ k + 1 \in 0 .. n /\ (k + 1) - 1 = k
    BY <1>1
  <2>2. CASE k = 0
    <3>1. it[1] = ss[1] /\ ss[1] \in Seq(S)
      BY <1>1, <1>8
    <3>2. UNION {ToSet(ss[i]) : i \in 1 .. 1} = ToSet(ss[1])
      OBVIOUS
    <3>3. FlatOf(it[1], ss, 1, S)
      <4>1. \A i \in (Len(ss[1]) + 1) .. Len(ss[1]) : FALSE
        BY <3>1
      <4> QED
        BY <3>1, <3>2, <4>1 DEF FlatOf
    <3> QED
      BY <2>2, <3>3
  <2>3. CASE k # 0
    <3> DEFINE s == it[k]
               t == ss[k + 1]
               u == it[k + 1]
               m == Len(ss[1])
    <3>1. FlatOf(s, ss, k, S)
      BY <1>9, <2>3
    <3>2. u = s \o t /\ t \in Seq(S) /\ s \in Seq(S) /\ ss[1] \in Seq(S) /\ m \in Nat
      <4>1. u = s \o t
        <5>1. it[k + 1] = IF k + 1 = 1 THEN ss[k + 1] ELSE it[(k + 1) - 1] \o ss[k + 1]
          BY <1>8, <2>1
        <5>2. k + 1 # 1
          BY <2>1, <2>3
        <5> QED
          BY <2>1, <5>1, <5>2
      <4>2. s \in Seq(S)
        BY <3>1 DEF FlatOf
      <4> QED
        BY <1>1, <2>1, <4>1, <4>2
    <3>3. /\ 1 .. (k + 1) = (1 .. k) \cup {k + 1}
          /\ 2 .. (k + 1) = (2 .. k) \cup {k + 1}
      BY <2>1, <2>3
    <3>4. UNION {ToSet(ss[i]) : i \in 1 .. (k + 1)} = (UNION {ToSet(ss[i]) : i \in 1 .. k}) \cup ToSet(t)
      BY <3>3
    <3>5. UNION {ToSet(ss[i]) : i \in 2 .. (k + 1)} = (UNION {ToSet(ss[i]) : i \in 2 .. k}) \cup ToSet(t)
      BY <3>3
    <3> DEFINE first == ss[1]
               All(j) == UNION {ToSet(ss[i]) : i \in 1 .. j}
               Rest(j) == UNION {ToSet(ss[i]) : i \in 2 .. j}
    <3>6. /\ ToSet(s) = All(k)
          /\ m <= Len(s) /\ \A i \in 1 .. m : s[i] = first[i]
          /\ \A i \in (m + 1) .. Len(s) : s[i] \in Rest(k)
      BY <3>1 DEF FlatOf
    <3>7. /\ u \in Seq(S) /\ Len(u) = Len(s) + Len(t)
          /\ \A i \in 1 .. Len(s) : u[i] = s[i]
          /\ \A i \in (Len(s) + 1) .. Len(u) : u[i] \in ToSet(t)
          /\ ToSet(u) = ToSet(s) \cup ToSet(t)
      <4> HIDE DEF s, t, u
      <4> QED
        BY <3>2, Joined
    <3>8. All(k + 1) = All(k) \cup ToSet(t) /\ Rest(k + 1) = Rest(k) \cup ToSet(t)
      BY <3>4, <3>5
    <3>9. Len(s) \in Nat /\ Len(t) \in Nat
      BY <3>2
    <3> HIDE DEF s, t, u, first, All, Rest, m
    <3>10. m <= Len(u) /\ \A i \in 1 .. m : u[i] = first[i]
      BY <3>2, <3>6, <3>7, <3>9
    <3>11. ASSUME NEW i \in (m + 1) .. Len(u) PROVE u[i] \in Rest(k + 1)
      <4>1. CASE i \in (m + 1) .. Len(s)
        <5>1. i \in 1 .. Len(s)
          BY <3>2, <3>9, <4>1
        <5> QED
          BY <3>6, <3>7, <3>8, <4>1, <5>1
      <4>2. CASE i \in (Len(s) + 1) .. Len(u)
        BY <3>7, <3>8, <4>2
      <4> QED
        BY <3>2, <3>7, <3>9, <4>1, <4>2
    <3>12. ToSet(u) = All(k + 1)
      BY <3>6, <3>7, <3>8
    <3>13. FlatOf(u, ss, k + 1, S)
      BY <3>7, <3>10, <3>11, <3>12 DEF FlatOf, first, m, All, Rest
    <3> QED
      BY <3>13 DEF u
  <2> QED
    BY <2>2, <2>3
<1>10. Inductive(G, n)
  <2>1. \A k \in 0 .. (n - 1) : k \in 0 .. n /\ k + 1 \in 0 .. n
    BY <1>1
  <2>2. 0 \in 0 .. n /\ Good(0)
    BY <1>1
  <2> HIDE DEF Good, n
  <2> QED
    BY <1>9, <2>1, <2>2 DEF Inductive
<1>11. Good(n)
  <2> HIDE DEF Good
  <2>1. n \in G
    BY <1>1, <1>10, Induction
  <2> QED
    BY <2>1
<1> QED
  BY <1>1, <1>2, <1>11

-----------------------------------------------------------------------------
(* What the paused program holds *)

Ids == Object \cup Scope
Prop == [key : Key, val : Object \cup {Scalar}]
Programs == [heap : Heaps, redacted : Redactions, watch : WatchPaths,
             depth : Depths, budget : Budgets]

Held == {Truncated, Undefined}
        \cup {Value("scalar", <<id, key>>) : id \in Ids, key \in Key}
        \cup {Value("object", o) : o \in Object} \cup {Value("empty", o) : o \in Object}
Entry == [key : Key, val : Held]

(* The properties of object or scope id that are read, and what the copy   *)
(* of an object should have: elements with a redacted key are left out.    *)
Kept(id) == Selected(id, Props(id))
Skips(id, p) == id \in Array /\ Redacted(p.key)
Reals(o) == {Really(o, p) : p \in {q \in ToSet(Kept(o)) : ~Skips(o, q)}}

(* The scopes of the innermost frame, and what scope j contributes to it. *)
Innermost == FrameScopes[1]
Bound(j) == {Really(Innermost[j], p) :
                p \in {q \in ToSet(Kept(Innermost[j])) : q.key \notin Hidden(1, j)}}

(* A key has one value. *)
Functional(entries) == \A e, f \in entries : e.key = f.key => e = f

LEMMA Elements ==
    ASSUME NEW S, NEW s, s \in Seq(S)
    PROVE  /\ ToSet(s) \subseteq S /\ DOMAIN s = 1 .. Len(s) /\ Len(s) \in Nat
           /\ \A i \in DOMAIN s : s[i] \in ToSet(s)
BY DEF ToSet

LEMMA SequenceOf ==
    ASSUME NEW S, NEW n, n \in Nat, NEW s, s \in [1 .. n -> S]
    PROVE  s \in Seq(S) /\ Len(s) = n
OBVIOUS

LEMMA SomeFrame ==
    /\ 1 \in Frame /\ Frame \subseteq Nat /\ Frame \cap Object = {}
    /\ \A f \in Frame : FrameScopes[f] \in Seq(Scope)
BY ProgramShape DEF Frame

LEMMA PropsType ==
    ASSUME program \in Programs, NEW id, id \in Ids
    PROVE  /\ Props(id) \in Seq(Prop)
           /\ \A i, j \in DOMAIN Props(id) : Props(id)[i].key = Props(id)[j].key => i = j
           /\ Functional(ToSet(Props(id)))
<1> DEFINE heap == program.heap
<1>1. heap \in Heaps /\ heap \in [Ids -> Seq(Prop)]
  BY ProgramShape DEF Programs, Ids, Prop
<1>2. \A i, j \in DOMAIN heap[id] : heap[id][i].key = heap[id][j].key => i = j
  BY <1>1, ProgramShape DEF Ids
<1>3. Functional(ToSet(heap[id]))
  BY <1>2 DEF Functional, ToSet
<1> QED
  BY <1>1, <1>2, <1>3 DEF Props

(* The first m elements of a sequence. *)
LEMMA FirstOnes ==
    ASSUME NEW S, NEW s, s \in Seq(S), NEW m, m \in 0 .. Len(s)
    PROVE  /\ SubSeq(s, 1, m) \in Seq(S) /\ Len(SubSeq(s, 1, m)) = m
           /\ \A i \in 1 .. m : SubSeq(s, 1, m)[i] = s[i]
OBVIOUS

LEMMA KeptType ==
    ASSUME program \in Programs, NEW id, id \in Ids
    PROVE  /\ Kept(id) \in Seq(Prop)
           /\ ToSet(Kept(id)) \subseteq ToSet(Props(id))
           /\ Functional(ToSet(Kept(id)))
<1> DEFINE props == Props(id)
<1>1. props \in Seq(Prop) /\ Functional(ToSet(props))
  BY PropsType
<1>2. Kept(id) \in Seq(Prop) /\ ToSet(Kept(id)) \subseteq ToSet(props)
  <2>1. CASE id \in Array
    <3>1. Kept(id) = Only(props, 1 .. MaxArray)
      BY <2>1 DEF Kept, Selected
    <3> HIDE DEF props
    <3> QED
      BY <1>1, <3>1, OnlyPicks
  <2>2. CASE id \notin Array
    <3> DEFINE m == IF Len(props) <= MaxProps THEN Len(props) ELSE MaxProps + 1
               s == SubSeq(props, 1, m)
    <3>1. Kept(id) = s
      BY <2>2 DEF Kept, Selected
    <3>2. m \in 0 .. Len(props)
      BY <1>1, CaptureLimits
    <3> HIDE DEF m, props
    <3>3. s \in Seq(Prop) /\ Len(s) = m /\ \A i \in 1 .. m : s[i] = props[i]
      BY <1>1, <3>2, FirstOnes
    <3>4. DOMAIN s = 1 .. m /\ 1 .. m \subseteq DOMAIN props
      BY <1>1, <3>2, <3>3
    <3> HIDE DEF s
    <3> QED
      BY <3>1, <3>3, <3>4 DEF ToSet
  <2> QED
    BY <2>1, <2>2
<1>3. Functional(ToSet(Kept(id)))
  BY <1>1, <1>2 DEF Functional
<1> QED
  BY <1>2, <1>3

(* A scope is no array: its properties are cut, and none of them twice. *)
LEMMA ScopeKept ==
    ASSUME program \in Programs, NEW id, id \in Scope
    PROVE  /\ id \notin Array /\ id \in Ids
           /\ \A i, j \in DOMAIN Kept(id) : Kept(id)[i].key = Kept(id)[j].key => i = j
<1> DEFINE props == Props(id)
           m == IF Len(props) <= MaxProps THEN Len(props) ELSE MaxProps + 1
           s == SubSeq(props, 1, m)
<1>0. id \notin Array /\ id \in Ids
  BY ProgramShape DEF Ids
<1>1. props \in Seq(Prop) /\ \A i, j \in DOMAIN props : props[i].key = props[j].key => i = j
  BY <1>0, PropsType
<1>2. Kept(id) = s
  BY <1>0 DEF Kept, Selected
<1>3. m \in 0 .. Len(props)
  BY <1>1, CaptureLimits
<1> HIDE DEF m, props
<1>4. s \in Seq(Prop) /\ Len(s) = m /\ \A i \in 1 .. m : s[i] = props[i]
  BY <1>1, <1>3, FirstOnes
<1>5. DOMAIN s = 1 .. m /\ 1 .. m \subseteq DOMAIN props
  BY <1>1, <1>3, <1>4
<1> HIDE DEF s
<1> QED
  BY <1>0, <1>1, <1>2, <1>4, <1>5

LEMMA ReallyType ==
    ASSUME program \in Programs, NEW id, id \in Ids, NEW p, p \in Prop
    PROVE  Really(id, p) \in Entry /\ Really(id, p).key = p.key
BY DEF Really, Entry, Prop, Held

LEMMA RealEntries ==
    ASSUME program \in Programs, NEW id, id \in Ids, NEW props, props \in Seq(Prop)
    PROVE  /\ Real(id, props) \in Seq(Entry)
           /\ ToSet(Real(id, props)) = {Really(id, p) : p \in {q \in ToSet(props) : ~Skips(id, q)}}
<1> DEFINE keys == Keys(props) \ IF id \in Array THEN program.redacted ELSE {}
           kept == Only(props, keys)
<1>1. kept \in Seq(Prop) /\ ToSet(kept) = {e \in ToSet(props) : e.key \in keys}
  BY OnlyPicks
<1>2. \A e \in ToSet(props) : e.key \in keys <=> ~Skips(id, e)
  BY DEF Keys, Skips, Redacted, ToSet
<1>3. Real(id, props) = [i \in DOMAIN kept |-> Really(id, kept[i])]
  BY DEF Real
<1> HIDE DEF kept, keys
<1>4. \A i \in DOMAIN kept : kept[i] \in Prop
  BY <1>1
<1>5. Real(id, props) \in Seq(Entry)
  <2>1. DOMAIN kept = 1 .. Len(kept) /\ Len(kept) \in Nat
    BY <1>1
  <2> QED
    BY <1>3, <1>4, <2>1, ReallyType
<1>6. ToSet(Real(id, props)) = {Really(id, p) : p \in ToSet(kept)}
  BY <1>3 DEF ToSet
<1> QED
  BY <1>1, <1>2, <1>5, <1>6

LEMMA BindingsEntries ==
    ASSUME program \in Programs, NEW f, f \in Frame, NEW j, j \in DOMAIN FrameScopes[f],
           NEW holds, holds = [id \in Object \cup Scope |-> Kept(id)]
    PROVE  /\ Bindings(f, j, holds) \in Seq(Entry)
           /\ f = 1 => ToSet(Bindings(f, j, holds)) = Bound(j)
<1> DEFINE id == FrameScopes[f][j]
           open == Key \ Hidden(f, j)
           part == Only(Kept(id), open)
<1>1. id \in Scope
  BY SomeFrame
<1>2. id \in Ids /\ id \notin Array
  BY <1>1, ScopeKept
<1>3. Bindings(f, j, holds) = Real(id, part)
  BY <1>1 DEF Bindings
<1>4. Kept(id) \in Seq(Prop)
  BY <1>2, KeptType
<1>5. part \in Seq(Prop) /\ ToSet(part) = {e \in ToSet(Kept(id)) : e.key \in open}
  BY <1>4, OnlyPicks
<1>6. \A e \in ToSet(Kept(id)) : e.key \in Key
  <2>1. ToSet(Kept(id)) \subseteq Prop
    BY <1>4, Elements
  <2>2. \A p \in Prop : p.key \in Key
    BY DEF Prop
  <2> QED
    BY <2>1, <2>2
<1> HIDE DEF part, id
<1>7. /\ Real(id, part) \in Seq(Entry)
      /\ ToSet(Real(id, part)) = {Really(id, p) : p \in {q \in ToSet(part) : ~Skips(id, q)}}
  BY <1>2, <1>5, RealEntries
<1>8. ToSet(Real(id, part)) = {Really(id, p) : p \in {q \in ToSet(Kept(id)) : q.key \notin Hidden(f, j)}}
  BY <1>2, <1>5, <1>6, <1>7 DEF Skips
<1>9. f = 1 => Bound(j) = {Really(id, p) : p \in {q \in ToSet(Kept(id)) : q.key \notin Hidden(1, j)}}
  BY DEF Bound, Innermost, id
<1> QED
  BY <1>3, <1>7, <1>8, <1>9

Owned == [Frame \cup Object -> Seq(Entry)]

LEMMA ReadableEntries ==
    ASSUME program \in Programs
    PROVE  /\ ReadableOwn \in Owned
           /\ \A o \in Object : ToSet(ReadableOwn[o]) = Reals(o)
           /\ ToSet(ReadableOwn[1]) = UNION {Bound(j) : j \in DOMAIN Innermost}
<1> DEFINE holds == [id \in Object \cup Scope |-> Kept(id)]
           of(f) == [j \in DOMAIN FrameScopes[f] |-> Bindings(f, j, holds)]
<1>1. ReadableOwn = [c \in Frame \cup Object |-> IF c \in Object THEN Real(c, holds[c])
                                                 ELSE FlattenSeq(of(c))]
  BY DEF ReadableOwn, OwnOf, Kept
<1>2. ASSUME NEW o \in Object
      PROVE  ReadableOwn[o] \in Seq(Entry) /\ ToSet(ReadableOwn[o]) = Reals(o)
  <2>1. o \in Ids /\ Kept(o) \in Seq(Prop)
    BY KeptType DEF Ids
  <2>2. ReadableOwn[o] = Real(o, Kept(o))
    BY <1>1
  <2> QED
    BY <2>1, <2>2, RealEntries DEF Reals
<1>3. ASSUME NEW f \in Frame
      PROVE  /\ ReadableOwn[f] \in Seq(Entry)
             /\ f = 1 => ToSet(ReadableOwn[f]) = UNION {Bound(j) : j \in DOMAIN Innermost}
  <2> DEFINE ss == of(f)
             n == Len(FrameScopes[f])
  <2>1. FrameScopes[f] \in Seq(Scope) /\ DOMAIN FrameScopes[f] = 1 .. n /\ n \in Nat
    BY SomeFrame
  <2>2. ReadableOwn[f] = FlattenSeq(ss)
    BY <1>1, SomeFrame
  <2>3. \A j \in 1 .. n : /\ ss[j] = Bindings(f, j, holds) /\ ss[j] \in Seq(Entry)
                          /\ f = 1 => ToSet(ss[j]) = Bound(j)
    BY <2>1, BindingsEntries
  <2>4. ss \in Seq(Seq(Entry)) /\ Len(ss) = n
    <3>1. ss \in [1 .. n -> Seq(Entry)]
      BY <2>1, <2>3
    <3> HIDE DEF ss, n
    <3> QED
      BY <2>1, <3>1, SequenceOf
  <2> HIDE DEF ss, n
  <2>5. CASE n = 0
    <3>1. FlattenSeq(ss) = <<>>
      BY <2>4, <2>5 DEF FlattenSeq
    <3>2. ToSet(<<>>) = {} /\ 1 .. n = {}
      BY <2>5 DEF ToSet
    <3>3. f = 1 => DOMAIN Innermost = 1 .. n
      BY <2>1 DEF Innermost
    <3>4. f = 1 => UNION {Bound(j) : j \in DOMAIN Innermost} = {}
      BY <3>2, <3>3
    <3>5. ReadableOwn[f] = <<>> /\ <<>> \in Seq(Entry)
      BY <2>2, <3>1
    <3> QED
      BY <3>2, <3>4, <3>5
  <2>6. CASE n # 0
    <3>1. ss # <<>>
      BY <2>4, <2>6
    <3>2. FlatOf(FlattenSeq(ss), ss, n, Entry)
      BY <2>4, <3>1, Flattened
    <3>3. f = 1 => DOMAIN Innermost = 1 .. n
      BY <2>1 DEF Innermost
    <3>4. f = 1 => UNION {ToSet(ss[i]) : i \in 1 .. n} = UNION {Bound(j) : j \in 1 .. n}
      BY <2>3
    <3> QED
      BY <2>2, <3>2, <3>3, <3>4 DEF FlatOf
  <2> QED
    BY <2>5, <2>6
<1>4. ReadableOwn \in Owned
  BY <1>1, <1>2, <1>3 DEF Owned
<1> QED
  BY <1>2, <1>3, <1>4, SomeFrame

-----------------------------------------------------------------------------
(* The invariant of a capture *)

Task == [depth : Nat, id : Ids, into : Frame \cup Object, outer : BOOLEAN]
Captures == [tasks : Seq(Task), made : SUBSET Object, visited : Nat, failed : BOOLEAN,
             own : Owned, done : BOOLEAN]

NumScopes == Len(Innermost)
ScopeTask(j) == [depth |-> 0, id |-> Innermost[j], into |-> 1, outer |-> j > 1]

(* What the innermost m scopes contribute to the innermost frame. *)
LocalsTo(m) == UNION {Bound(j) : j \in {i \in DOMAIN Innermost : i <= m}}

(* A value of the copy, in a container at depth d, says what the program's *)
(* value says: the same, and an object is read at most one level below; or *)
(* that the budget is used up; or nothing, at the depth nobody asks for.   *)
(* D is the depth every object is read at.                                 *)
Match(c, D, d, got, want) ==
    \/ got = want /\ (want.t = "object" => want.of \in c.made /\ D[want.of] <= d + 1)
    \/ got = Truncated /\ Budget <= c.visited + Len(c.tasks)
    \/ got.t = "empty" /\ CaptureDepth <= d

Covers(c, D, d, props, reals) ==
    /\ Keys(props) = {r.key : r \in reals}
    /\ \A e \in ToSet(props), r \in reals : e.key = r.key => Match(c, D, d, e.val, r.val)

(* Breadth first: the depths of the queue rise by one at most, and nothing *)
(* is read deeper than that.  An object is queued once.                    *)
Level(c, D, d) ==
    /\ \A i \in DOMAIN c.tasks : d <= c.tasks[i].depth /\ c.tasks[i].depth <= d + 1
    /\ \A i, j \in DOMAIN c.tasks : i < j => c.tasks[i].depth <= c.tasks[j].depth
    /\ \A o \in c.made : D[o] <= d + 1

ForObject(t, c, D) == ~t.outer /\ t.id = t.into /\ t.into \in c.made /\ t.depth = D[t.into]

Awaited(c, o) == \E i \in DOMAIN c.tasks : c.tasks[i].into = o

Queued(c, D) ==
    /\ \A i \in DOMAIN c.tasks : c.tasks[i].into \in Object => ForObject(c.tasks[i], c, D)
    /\ \A i, j \in DOMAIN c.tasks :
          c.tasks[i].into \in Object /\ c.tasks[i].into = c.tasks[j].into => i = j
    /\ \A o \in Object : o \notin c.made \/ Awaited(c, o) => c.own[o] = <<>>

(* The scopes of the innermost frame come first, in their order. *)
ScopesFirst(c) ==
    /\ NumScopes <= c.visited + Len(c.tasks)
    /\ \A i \in DOMAIN c.tasks :
          IF c.visited + i <= NumScopes THEN c.tasks[i] = ScopeTask(c.visited + i)
          ELSE c.tasks[i].into # 1

(* What has been read, apart from container busy, is the program's. *)
ObjectsRead(c, D, busy) ==
    \A o \in c.made : ~Awaited(c, o) /\ o \notin busy => Covers(c, D, D[o], c.own[o], Reals(o))

LocalsRead(c, D) == Covers(c, D, 0, c.own[1], LocalsTo(c.visited))

Sound(c, D, d) == Level(c, D, d) /\ Queued(c, D) /\ ScopesFirst(c)

CaptureInv ==
    /\ program \in Programs /\ capture \in Captures
    /\ capture.done => capture.tasks = <<>>
    /\ ~capture.failed =>
         \E D \in [Object -> Nat], d \in Nat :
            Sound(capture, D, d) /\ ObjectsRead(capture, D, {}) /\ LocalsRead(capture, D)


-----------------------------------------------------------------------------
(* One property is read *)

(* A later state c1, depths D1, of a capture c, depths D. *)
Later(c, D, c1, D1) ==
    /\ c.visited + Len(c.tasks) <= c1.visited + Len(c1.tasks)
    /\ c.made \subseteq c1.made /\ \A o \in c.made : D1[o] = D[o]

(* The same while container into was filled. *)
Grows(c, D, c1, D1, into) ==
    /\ c1.visited = c.visited /\ c1.failed = c.failed /\ c1.done = c.done
    /\ c.made \subseteq c1.made /\ Len(c.tasks) <= Len(c1.tasks)
    /\ \A o \in c.made : D1[o] = D[o]
    /\ \A x \in Frame \cup Object : x # into => c1.own[x] = c.own[x]

Put(c, into, e) == [c EXCEPT !.own[into] = Append(@, e)]
Enqueue(c, v, new) == [c EXCEPT !.made = @ \cup {v}, !.tasks = Append(@, new)]

LEMMA PutFields ==
    ASSUME NEW c, c \in Captures, NEW into, into \in Frame \cup Object, NEW e, e \in Entry,
           NEW c1, c1 = Put(c, into, e)
    PROVE  /\ c1 \in Captures
           /\ c1.tasks = c.tasks /\ c1.made = c.made /\ c1.visited = c.visited
           /\ c1.failed = c.failed /\ c1.done = c.done
           /\ c1.own[into] = Append(c.own[into], e)
           /\ \A x \in Frame \cup Object : x # into => c1.own[x] = c.own[x]
<1>1. c.own \in Owned /\ c.own[into] \in Seq(Entry)
  BY DEF Captures, Owned
<1>2. Append(c.own[into], e) \in Seq(Entry)
  BY <1>1
<1> DEFINE s == Append(c.own[into], e)
           own1 == [c.own EXCEPT ![into] = s]
<1>3. c1 = [c EXCEPT !.own = own1]
  BY DEF Put
<1> HIDE DEF s
<1>4. own1 \in Owned /\ own1[into] = s /\ \A x \in Frame \cup Object : x # into => own1[x] = c.own[x]
  BY <1>1, <1>2 DEF Owned, s
<1> HIDE DEF own1
<1>5. c1 \in Captures /\ c1.own = own1
  BY <1>3, <1>4 DEF Captures
<1>6. /\ c1.tasks = c.tasks /\ c1.made = c.made /\ c1.visited = c.visited
      /\ c1.failed = c.failed /\ c1.done = c.done
  BY <1>3 DEF Captures
<1> QED
  BY <1>4, <1>5, <1>6 DEF s

LEMMA QueueFields ==
    ASSUME NEW c, c \in Captures, NEW v, v \in Object, NEW new, new \in Task,
           NEW c1, c1 = Enqueue(c, v, new)
    PROVE  /\ c1 \in Captures
           /\ c1.made = c.made \cup {v} /\ c1.tasks = Append(c.tasks, new)
           /\ c1.visited = c.visited /\ c1.failed = c.failed /\ c1.done = c.done /\ c1.own = c.own
<1>1. Append(c.tasks, new) \in Seq(Task) /\ c.made \cup {v} \in SUBSET Object
  BY DEF Captures
<1> QED
  BY <1>1 DEF Captures, Enqueue

(* The tasks of a longer queue. *)
LEMMA OneTaskMore ==
    ASSUME NEW s, s \in Seq(Task), NEW new, new \in Task,
           NEW s1, s1 = Append(s, new)
    PROVE  /\ Len(s1) = Len(s) + 1 /\ DOMAIN s = 1 .. Len(s) /\ Len(s) \in Nat
           /\ DOMAIN s1 = DOMAIN s \cup {Len(s) + 1}
           /\ s1[Len(s) + 1] = new /\ \A i \in DOMAIN s : s1[i] = s[i]
OBVIOUS

LEMMA LaterMatch ==
    ASSUME program \in Programs, NEW c, c \in Captures, NEW c1, c1 \in Captures,
           NEW D, NEW D1, Later(c, D, c1, D1),
           NEW d, NEW got, NEW want, Match(c, D, d, got, want)
    PROVE  Match(c1, D1, d, got, want)
<1>1. Budget \in Int
  <2>1. program.budget \in Budgets
    BY DEF Programs
  <2>2. program.budget \in Nat
    BY <2>1, CaptureLimits
  <2> QED
    BY <2>2 DEF Budget
<1>2. /\ c.visited + Len(c.tasks) \in Nat /\ c1.visited + Len(c1.tasks) \in Nat
      /\ c.visited + Len(c.tasks) <= c1.visited + Len(c1.tasks)
  BY DEF Captures, Later
<1>3. Budget <= c.visited + Len(c.tasks) => Budget <= c1.visited + Len(c1.tasks)
  BY <1>1, <1>2
<1> QED
  BY <1>3 DEF Match, Later

LEMMA LaterCovers ==
    ASSUME program \in Programs, NEW c, c \in Captures, NEW c1, c1 \in Captures,
           NEW D, NEW D1, Later(c, D, c1, D1),
           NEW d, NEW props, NEW reals, Covers(c, D, d, props, reals)
    PROVE  Covers(c1, D1, d, props, reals)
<1>1. ASSUME NEW e \in ToSet(props), NEW r \in reals, e.key = r.key
      PROVE  Match(c1, D1, d, e.val, r.val)
  <2>1. Match(c, D, d, e.val, r.val)
    BY <1>1 DEF Covers
  <2> QED
    BY <2>1, LaterMatch
<1> QED
  BY <1>1 DEF Covers

LEMMA GrowsLater ==
    ASSUME NEW c, c \in Captures, NEW c1, c1 \in Captures,
           NEW D, NEW D1, NEW into, Grows(c, D, c1, D1, into)
    PROVE  Later(c, D, c1, D1)
BY DEF Grows, Later, Captures

LEMMA MatchStays ==
    ASSUME program \in Programs, NEW c, c \in Captures, NEW c1, c1 \in Captures,
           NEW D, NEW D1, NEW into, Grows(c, D, c1, D1, into),
           NEW d, NEW got, NEW want, Match(c, D, d, got, want)
    PROVE  Match(c1, D1, d, got, want)
BY GrowsLater, LaterMatch

LEMMA CoversStays ==
    ASSUME program \in Programs, NEW c, c \in Captures, NEW c1, c1 \in Captures,
           NEW D, NEW D1, NEW into, Grows(c, D, c1, D1, into),
           NEW d, NEW props, NEW reals, Covers(c, D, d, props, reals)
    PROVE  Covers(c1, D1, d, props, reals)
BY GrowsLater, LaterCovers

SameKey(R, r) == \A q \in R : q.key = r.key => q = r

(* A container with one property more. *)
LEMMA CoversMore ==
    ASSUME NEW c, NEW D, NEW d, NEW props, props \in Seq(Entry), NEW reals,
           Covers(c, D, d, props, reals),
           NEW e, e \in Entry, NEW r, e.key = r.key, SameKey(reals, r), Match(c, D, d, e.val, r.val)
    PROVE  Covers(c, D, d, Append(props, e), reals \cup {r})
<1> DEFINE props1 == Append(props, e)
           reals1 == reals \cup {r}
<1>1. ToSet(props1) = ToSet(props) \cup {e}
  BY OneEntryMore
<1> HIDE DEF props1
<1>2. \A s : Keys(s) = {f.key : f \in ToSet(s)}
  BY DEF Keys, ToSet
<1>3. Keys(props) = {q.key : q \in reals}
  BY DEF Covers
<1>4. Keys(props1) = {q.key : q \in reals1}
  BY <1>1, <1>2, <1>3
<1>5. ASSUME NEW f \in ToSet(props1), NEW q \in reals1, f.key = q.key
      PROVE  Match(c, D, d, f.val, q.val)
  <2>1. CASE q \in reals /\ f \in ToSet(props)
    BY <1>5, <2>1 DEF Covers
  <2>2. CASE f = e
    BY <1>5, <2>2 DEF SameKey
  <2>3. CASE q = r /\ f \in ToSet(props)
    <3>1. f.key \in Keys(props)
      BY <1>2, <2>3
    <3>2. PICK p \in reals : p.key = f.key
      BY <1>3, <3>1
    <3>3. p = r
      BY <1>5, <2>3, <3>2 DEF SameKey
    <3> QED
      BY <2>3, <3>2, <3>3 DEF Covers
  <2> QED
    BY <1>1, <2>1, <2>2, <2>3
<1>6. Covers(c, D, d, props1, reals1)
  BY <1>4, <1>5 DEF Covers
<1> QED
  BY <1>6 DEF props1

(* What a read does to the capture: it leaves the property out, or enters  *)
(* a value that stands for the real one, or queues an object as well.      *)
Leaves(t, c, p) == \/ t.outer /\ Owns(c, t.into, p.key)
                   \/ Redacted(p.key) /\ t.into \in Array
Queues(t, c, p) == /\ ~Redacted(p.key) /\ p.val # Scalar /\ p.val \notin c.made
                   /\ t.depth < CaptureDepth /\ c.visited + Len(c.tasks) < Budget
NewTask(t, v) == [depth |-> t.depth + 1, id |-> v, into |-> v, outer |-> FALSE]

LEMMA LeavesOut ==
    ASSUME NEW t, NEW c, NEW p, Leaves(t, c, p)
    PROVE  ReadProperty(t, c, p) = c
BY DEF Leaves, ReadProperty

LEMMA PutsObject ==
    ASSUME NEW t, NEW c, NEW p, ~Leaves(t, c, p), Queues(t, c, p)
    PROVE  ReadProperty(t, c, p) =
              Enqueue(Put(c, t.into, [key |-> p.key, val |-> Value("object", p.val)]),
                      p.val, NewTask(t, p.val))
<1>1. Copied(p.val, c.made, t.depth < CaptureDepth, c.visited + Len(c.tasks) < Budget)
         = Value("object", p.val)
  BY DEF Queues, Copied
<1> QED
  BY <1>1 DEF Leaves, Queues, ReadProperty, Put, Enqueue, NewTask

LEMMA PutsValue ==
    ASSUME program \in Programs, NEW t, t \in Task, NEW c, c \in Captures, NEW p, p \in Prop,
           ~Leaves(t, c, p), ~Queues(t, c, p)
    PROVE  \E x \in Held :
              /\ ReadProperty(t, c, p) = Put(c, t.into, [key |-> p.key, val |-> x])
              /\ \A D : Level(c, D, t.depth) => Match(c, D, t.depth, x, Really(t.id, p).val)
<1> DEFINE v == p.val
           deeper == t.depth < CaptureDepth
           room == c.visited + Len(c.tasks) < Budget
           want == Really(t.id, p).val
<1>0. v \in Object \cup {Scalar} /\ p.key \in Key /\ t.id \in Ids
  BY DEF Prop, Task
<1>1. CASE Redacted(p.key)
  <2>1. ReadProperty(t, c, p) = Put(c, t.into, [key |-> p.key, val |-> Undefined])
    BY <1>1 DEF Leaves, ReadProperty, Put
  <2>2. want = Undefined /\ Undefined.t = "undefined" /\ Undefined \in Held
    BY <1>1 DEF Really, Undefined, Value, Held
  <2>3. \A D : Match(c, D, t.depth, Undefined, want)
    BY <2>2 DEF Match
  <2> QED
    BY <2>1, <2>2, <2>3
<1>2. CASE ~Redacted(p.key) /\ v = Scalar
  <2> DEFINE x == Value("scalar", <<t.id, p.key>>)
  <2>1. ReadProperty(t, c, p) = Put(c, t.into, [key |-> p.key, val |-> x])
    BY <1>2 DEF Leaves, ReadProperty, Put
  <2>2. want = x /\ x.t = "scalar" /\ x \in Held
    BY <1>0, <1>2 DEF Really, Value, Held
  <2>3. \A D : Match(c, D, t.depth, x, want)
    BY <2>2 DEF Match
  <2> QED
    BY <2>1, <2>2, <2>3
<1>3. CASE ~Redacted(p.key) /\ v # Scalar
  <2> DEFINE x == Copied(v, c.made, deeper, room)
  <2>1. v \in c.made \/ ~deeper \/ ~room
    BY <1>3 DEF Queues
  <2>2. ReadProperty(t, c, p) = Put(c, t.into, [key |-> p.key, val |-> x])
    BY <1>3, <2>1 DEF Leaves, ReadProperty, Put
  <2>3. want = Value("object", v) /\ want.t = "object" /\ want.of = v /\ v \in Object
    BY <1>0, <1>3 DEF Really, Value
  <2>4. x = IF v \in c.made THEN Value("object", v)
            ELSE IF deeper THEN Truncated ELSE Value("empty", v)
    BY <2>1 DEF Copied
  <2>5. x \in Held
    BY <2>3, <2>4 DEF Held
  <2>6. \A D : Level(c, D, t.depth) => Match(c, D, t.depth, x, want)
    <3>1. CASE v \in c.made
      BY <2>3, <2>4, <3>1 DEF Match, Level
    <3>2. CASE v \notin c.made /\ deeper
      <4>1. Budget \in Int /\ c.visited + Len(c.tasks) \in Int /\ ~room
        <5>1. program.budget \in Budgets /\ c.visited \in Nat /\ Len(c.tasks) \in Nat
          BY DEF Programs, Captures
        <5>2. program.budget \in Nat
          BY <5>1, CaptureLimits
        <5> QED
          BY <2>1, <3>2, <5>1, <5>2 DEF Budget
      <4>2. Budget <= c.visited + Len(c.tasks)
        BY <4>1
      <4> QED
        BY <2>4, <3>2, <4>2 DEF Match
    <3>3. CASE v \notin c.made /\ ~deeper
      <4>1. CaptureDepth \in Int /\ t.depth \in Int
        <5>1. program.depth \in Depths /\ program.watch \in WatchPaths /\ t.depth \in Nat
          BY DEF Programs, Task
        <5>2. program.depth \in Nat /\ program.watch \in Seq(Key)
          BY <5>1, CaptureLimits, ProgramShape
        <5> QED
          BY <5>1, <5>2 DEF CaptureDepth, SerializerDepth
      <4>2. CaptureDepth <= t.depth
        BY <3>3, <4>1
      <4>3. x.t = "empty"
        BY <2>4, <3>3 DEF Value
      <4> QED
        BY <4>2, <4>3 DEF Match
    <3> QED
      BY <3>1, <3>2, <3>3
  <2> QED
    BY <2>2, <2>5, <2>6
<1> QED
  BY <1>1, <1>2, <1>3

LEMMA ReadType ==
    ASSUME program \in Programs, NEW t, t \in Task, NEW c, c \in Captures, NEW p, p \in Prop,
           NEW c1, c1 = ReadProperty(t, c, p)
    PROVE  c1 \in Captures /\ c1.visited = c.visited /\ c1.failed = c.failed /\ c1.done = c.done
<1>0. t.into \in Frame \cup Object /\ p.key \in Key /\ p.val \in Object \cup {Scalar} /\ t.depth \in Nat
  BY DEF Task, Prop
<1>1. CASE Leaves(t, c, p)
  BY <1>1, LeavesOut
<1>2. CASE ~Leaves(t, c, p) /\ ~Queues(t, c, p)
  <2>1. PICK x \in Held : ReadProperty(t, c, p) = Put(c, t.into, [key |-> p.key, val |-> x])
    BY <1>2, PutsValue
  <2> DEFINE e == [key |-> p.key, val |-> x]
  <2>2. e \in Entry
    BY <1>0 DEF Entry
  <2>3. c1 = Put(c, t.into, e)
    BY <2>1
  <2> HIDE DEF e
  <2> QED
    BY <1>0, <2>2, <2>3, PutFields
<1>3. CASE ~Leaves(t, c, p) /\ Queues(t, c, p)
  <2> DEFINE v == p.val
             e == [key |-> p.key, val |-> Value("object", v)]
             c2 == Put(c, t.into, e)
             new == NewTask(t, v)
  <2>1. v \in Object /\ e \in Entry /\ new \in Task
    <3>1. v \in Object
      BY <1>0, <1>3 DEF Queues
    <3> QED
      BY <1>0, <3>1 DEF Entry, Held, Task, NewTask, Ids
  <2>2. c1 = Enqueue(c2, v, new)
    BY <1>3, PutsObject
  <2> HIDE DEF e, new, v
  <2>3. c2 \in Captures /\ c2.visited = c.visited /\ c2.failed = c.failed /\ c2.done = c.done
    BY <1>0, <2>1, PutFields
  <2> HIDE DEF c2
  <2> QED
    BY <2>1, <2>2, <2>3, QueueFields
<1> QED
  BY <1>1, <1>2, <1>3

-----------------------------------------------------------------------------
(* What a container holds while it is filled *)

(* An inner scope's name that the limit on properties cuts is no name of an *)
(* outer scope: a name that is cut hides nothing.                           *)
CutNamesAreFree ==
    \A heap \in Heaps, i, j \in DOMAIN Innermost : i < j =>
        Keys(heap[Innermost[j]]) \cap Keys(heap[Innermost[i]])
           \subseteq Keys(Selected(Innermost[i], heap[Innermost[i]]))

(* The first k properties that are read of id, and what they amount to. *)
Firsts(id, k) == {Kept(id)[i] : i \in 1 .. k}
ObjectTo(id, k) == {Really(id, p) : p \in {q \in Firsts(id, k) : ~Skips(id, q)}}
ScopeTo(j, k) ==
    LocalsTo(j - 1)
    \cup {Really(Innermost[j], p) : p \in {q \in Firsts(Innermost[j], k) : q.key \notin Hidden(1, j)}}

NextOf(id, k, p) == k \in 0 .. (Len(Kept(id)) - 1) /\ p = Kept(id)[k + 1]

LEMMA OnePropertyMore ==
    ASSUME program \in Programs, NEW id, id \in Ids, NEW k, NEW p, NextOf(id, k, p)
    PROVE  /\ p \in Prop /\ p \in ToSet(Kept(id)) /\ Firsts(id, k) \subseteq ToSet(Kept(id))
           /\ Firsts(id, k + 1) = Firsts(id, k) \cup {p}
<1>1. Kept(id) \in Seq(Prop)
  BY KeptType
<1>2. /\ ToSet(Kept(id)) \subseteq Prop /\ DOMAIN Kept(id) = 1 .. Len(Kept(id)) /\ Len(Kept(id)) \in Nat
      /\ \A i \in DOMAIN Kept(id) : Kept(id)[i] \in ToSet(Kept(id))
  BY <1>1, Elements
<1>3. k + 1 \in DOMAIN Kept(id) /\ 1 .. k \subseteq DOMAIN Kept(id) /\ 1 .. (k + 1) = (1 .. k) \cup {k + 1}
  BY <1>2 DEF NextOf
<1>4. Firsts(id, k + 1) = Firsts(id, k) \cup {p}
  BY <1>3 DEF Firsts, NextOf
<1> QED
  BY <1>2, <1>3, <1>4 DEF Firsts, NextOf

LEMMA AllOfThem ==
    ASSUME program \in Programs, NEW id, id \in Ids
    PROVE  Firsts(id, Len(Kept(id))) = ToSet(Kept(id))
<1>1. Kept(id) \in Seq(Prop)
  BY KeptType
<1> QED
  BY <1>1, Elements DEF Firsts, ToSet

LEMMA ObjectSoFar ==
    ASSUME program \in Programs, NEW id, id \in Ids, NEW k, NEW p, NextOf(id, k, p)
    PROVE  /\ Skips(id, p) => ObjectTo(id, k + 1) = ObjectTo(id, k)
           /\ ~Skips(id, p) => ObjectTo(id, k + 1) = ObjectTo(id, k) \cup {Really(id, p)}
           /\ SameKey(ObjectTo(id, k), Really(id, p))
<1>1. /\ p \in Prop /\ p \in ToSet(Kept(id)) /\ Firsts(id, k) \subseteq ToSet(Kept(id))
      /\ Firsts(id, k + 1) = Firsts(id, k) \cup {p}
  BY OnePropertyMore
<1>2. Functional(ToSet(Kept(id)))
  BY KeptType
<1>3. \A q \in Firsts(id, k) : q.key = p.key => q = p
  BY <1>1, <1>2 DEF Functional
<1>4. \A q : Really(id, q).key = q.key
  BY DEF Really
<1>5. SameKey(ObjectTo(id, k), Really(id, p))
  BY <1>3, <1>4 DEF SameKey, ObjectTo
<1>6. /\ Skips(id, p) => ObjectTo(id, k + 1) = ObjectTo(id, k)
      /\ ~Skips(id, p) => ObjectTo(id, k + 1) = ObjectTo(id, k) \cup {Really(id, p)}
  BY <1>1 DEF ObjectTo
<1> QED
  BY <1>5, <1>6

LEMMA ScopeSoFar ==
    ASSUME program \in Programs, NEW j, j \in DOMAIN Innermost,
           NEW id, id = Innermost[j], NEW k, NEW p, NextOf(id, k, p)
    PROVE  /\ p.key \in Hidden(1, j) => ScopeTo(j, k + 1) = ScopeTo(j, k)
           /\ p.key \notin Hidden(1, j) => ScopeTo(j, k + 1) = ScopeTo(j, k) \cup {Really(id, p)}
<1>0. id \in Ids
  BY SomeFrame, ScopeKept DEF Innermost
<1>1. Firsts(id, k + 1) = Firsts(id, k) \cup {p}
  BY <1>0, OnePropertyMore
<1> QED
  BY <1>1 DEF ScopeTo

(* The names already bound are those of the inner scopes. *)
LEMMA ScopeNames ==
    ASSUME CutNamesAreFree, program \in Programs, NEW j, j \in DOMAIN Innermost,
           NEW id, id = Innermost[j], NEW k, NEW p, NextOf(id, k, p)
    PROVE  /\ p.key \in Hidden(1, j) <=> \E r \in ScopeTo(j, k) : r.key = p.key
           /\ j = 1 => p.key \notin Hidden(1, j)
<1>0. /\ Innermost \in Seq(Scope) /\ DOMAIN Innermost = 1 .. Len(Innermost) /\ Len(Innermost) \in Nat
      /\ \A i \in DOMAIN Innermost : Innermost[i] \in Scope /\ Innermost[i] \in Ids
  BY SomeFrame, ScopeKept DEF Innermost
<1>1. /\ Kept(id) \in Seq(Prop) /\ ToSet(Kept(id)) \subseteq ToSet(Props(id))
      /\ DOMAIN Kept(id) = 1 .. Len(Kept(id)) /\ Len(Kept(id)) \in Nat
  BY <1>0, KeptType, Elements
<1>2. j \in Nat /\ k + 1 \in DOMAIN Kept(id) /\ 1 .. k \subseteq DOMAIN Kept(id)
      /\ p = Kept(id)[k + 1] /\ \A i \in 1 .. k : i # k + 1
  BY <1>0, <1>1 DEF NextOf
<1>3. Hidden(1, j) = UNION {Keys(Props(Innermost[i])) : i \in 1 .. (j - 1)}
  BY DEF Hidden, Innermost
<1>4. \A s : Keys(s) = {q.key : q \in ToSet(s)}
  BY DEF Keys, ToSet
<1>5. p \in ToSet(Props(id)) /\ p.key \in Keys(Props(id))
  <2>1. p \in ToSet(Kept(id))
    BY <1>2 DEF ToSet
  <2> QED
    BY <1>1, <1>4, <2>1
<1>6. \A q \in Firsts(id, k) : q.key # p.key
  <2>1. \A i, m \in DOMAIN Kept(id) : Kept(id)[i].key = Kept(id)[m].key => i = m
    BY <1>0, ScopeKept
  <2> QED
    BY <1>2, <2>1 DEF Firsts
<1>7. \A i, q : Really(i, q).key = q.key
  BY DEF Really
<1>8. LocalsTo(j - 1) = UNION {Bound(i) : i \in 1 .. (j - 1)}
  <2>1. {i \in DOMAIN Innermost : i <= j - 1} = 1 .. (j - 1)
    BY <1>0, <1>2
  <2> QED
    BY <2>1 DEF LocalsTo
<1>9. ASSUME p.key \in Hidden(1, j) PROVE \E r \in ScopeTo(j, k) : r.key = p.key
  <2> DEFINE S == {i \in 1 .. (j - 1) : p.key \in Keys(Props(Innermost[i]))}
  <2>1. S \subseteq Nat /\ S # {}
    BY <1>3, <1>9
  <2>2. PICK i \in S : \A m \in S : i <= m
    BY <2>1, LeastNatural
  <2>3. /\ i \in 1 .. (j - 1) /\ i < j /\ i \in DOMAIN Innermost /\ i \in Nat
        /\ p.key \in Keys(Props(Innermost[i]))
    BY <1>0, <1>2
  <2>4. p.key \notin Hidden(1, i)
    <3>1. \A m \in 1 .. (i - 1) : m \in 1 .. (j - 1) /\ ~(i <= m)
      BY <1>2, <2>3
    <3>2. \A m \in 1 .. (i - 1) : p.key \notin Keys(Props(Innermost[m]))
      BY <2>2, <3>1
    <3> QED
      BY <3>2 DEF Hidden, Innermost
  <2>5. p.key \in Keys(Kept(Innermost[i]))
    <3>1. program.heap \in Heaps
      BY DEF Programs
    <3>2. p.key \in Keys(Selected(Innermost[i], program.heap[Innermost[i]]))
      BY <1>5, <2>3, <3>1 DEF CutNamesAreFree, Props
    <3> QED
      BY <3>2 DEF Kept, Props
  <2>6. PICK q \in ToSet(Kept(Innermost[i])) : q.key = p.key
    BY <1>4, <2>5
  <2>7. Really(Innermost[i], q) \in Bound(i)
    BY <2>4, <2>6 DEF Bound
  <2>8. Really(Innermost[i], q) \in ScopeTo(j, k)
    BY <1>8, <2>3, <2>7 DEF ScopeTo
  <2> QED
    BY <1>7, <2>6, <2>8
<1>10. ASSUME NEW r \in ScopeTo(j, k), r.key = p.key PROVE p.key \in Hidden(1, j)
  <2>1. CASE r \in LocalsTo(j - 1)
    <3>1. PICK i \in 1 .. (j - 1) : r \in Bound(i)
      BY <1>8, <2>1
    <3>2. PICK q \in ToSet(Kept(Innermost[i])) : r = Really(Innermost[i], q)
      BY <3>1 DEF Bound
    <3>3. i \in DOMAIN Innermost
      BY <1>0, <1>2
    <3>4. q \in ToSet(Props(Innermost[i]))
      BY <1>0, <3>2, <3>3, KeptType
    <3> QED
      BY <1>3, <1>4, <1>7, <1>10, <3>2, <3>4
  <2>2. CASE r \notin LocalsTo(j - 1)
    <3>1. PICK q \in Firsts(id, k) : r = Really(id, q)
      BY <1>10, <2>2 DEF ScopeTo
    <3> QED
      BY <1>6, <1>7, <1>10, <3>1
  <2> QED
    BY <2>1, <2>2
<1>11. j = 1 => p.key \notin Hidden(1, j)
  BY <1>3
<1> QED
  BY <1>9, <1>10, <1>11

-----------------------------------------------------------------------------
(* A step of the fold of PropertiesRead *)

(* The task that is being read. *)
BeingRead(c, D, t) ==
    /\ t.into \in Object => ForObject(t, c, D) /\ ~Awaited(c, t.into)
    /\ t.into = 1 => c.visited \in DOMAIN Innermost /\ t = ScopeTask(c.visited)

(* What its container holds after k properties. *)
Filled(c, D, t, k) ==
    /\ t.into \in Object => Covers(c, D, t.depth, c.own[t.into], ObjectTo(t.id, k))
    /\ t.into = 1 => Covers(c, D, 0, c.own[1], ScopeTo(c.visited, k))
    /\ t.into # 1 => LocalsRead(c, D)

Midway(c, D, t) ==
    D \in [Object -> Nat] /\ Sound(c, D, t.depth) /\ ObjectsRead(c, D, {t.into}) /\ BeingRead(c, D, t)

(* A container that is not the one being filled is awaited by its task. *)
LEMMA PutKeeps ==
    ASSUME program \in Programs, NEW t, t \in Task, NEW c, c \in Captures, NEW D, Midway(c, D, t),
           NEW e, e \in Entry, NEW c1, c1 = Put(c, t.into, e)
    PROVE  c1 \in Captures /\ Grows(c, D, c1, D, t.into) /\ Midway(c1, D, t)
<1>0. t.into \in Frame \cup Object
  BY DEF Task
<1>1. /\ c1 \in Captures
      /\ c1.tasks = c.tasks /\ c1.made = c.made /\ c1.visited = c.visited
      /\ c1.failed = c.failed /\ c1.done = c.done
      /\ \A x \in Frame \cup Object : x # t.into => c1.own[x] = c.own[x]
  BY <1>0, PutFields
<1>2. Len(c.tasks) \in Nat /\ c.made \subseteq Object
  BY DEF Captures
<1>3. Grows(c, D, c1, D, t.into)
  BY <1>1, <1>2 DEF Grows
<1>4. \A o : Awaited(c1, o) <=> Awaited(c, o)
  BY <1>1 DEF Awaited
<1>5. Level(c1, D, t.depth) /\ ScopesFirst(c1) /\ BeingRead(c1, D, t)
  BY <1>1, <1>4 DEF Midway, Sound, Level, ScopesFirst, BeingRead, ForObject
<1>6. Queued(c1, D)
  <2>1. ASSUME NEW o \in Object, o \notin c1.made \/ Awaited(c1, o) PROVE c1.own[o] = <<>>
    <3>1. o # t.into
      BY <1>1, <1>4, <2>1 DEF Midway, BeingRead, ForObject
    <3> QED
      BY <1>1, <1>4, <2>1, <3>1 DEF Midway, Sound, Queued
  <2>2. Queued(c, D)
    BY DEF Midway, Sound
  <2> QED
    BY <1>1, <2>1, <2>2 DEF Queued, ForObject
<1>7. ObjectsRead(c1, D, {t.into})
  <2>1. ASSUME NEW o \in c1.made, ~Awaited(c1, o), o \notin {t.into}
        PROVE  Covers(c1, D, D[o], c1.own[o], Reals(o))
    <3>1. Covers(c, D, D[o], c.own[o], Reals(o))
      BY <1>1, <1>4, <2>1 DEF Midway, ObjectsRead
    <3>2. Covers(c1, D, D[o], c.own[o], Reals(o))
      BY <1>1, <1>3, <3>1, CoversStays
    <3>3. c1.own[o] = c.own[o]
      BY <1>1, <1>2, <2>1
    <3> QED
      BY <3>2, <3>3
  <2> QED
    BY <2>1 DEF ObjectsRead
<1> QED
  BY <1>1, <1>3, <1>5, <1>6, <1>7 DEF Midway, Sound

Places(D1, D, v, depth) ==
    /\ D1 \in [Object -> Nat] /\ D1[v] = depth
    /\ \A o \in Object : o # v => D1[o] = D[o]

(* An object that is copied the first time is queued at the end, one level *)
(* below the object its value is read from.                                *)
LEMMA EnqueueKeeps ==
    ASSUME program \in Programs, NEW t, t \in Task, NEW c, c \in Captures, NEW D, Midway(c, D, t),
           NEW v, v \in Object, v \notin c.made,
           NEW c1, c1 = Enqueue(c, v, NewTask(t, v)),
           NEW D1, Places(D1, D, v, t.depth + 1)
    PROVE  /\ c1 \in Captures /\ Grows(c, D, c1, D1, t.into) /\ Midway(c1, D1, t)
           /\ c1.own = c.own /\ v \in c1.made /\ D1[v] <= t.depth + 1
<1> DEFINE new == NewTask(t, v)
           n == Len(c.tasks)
<1>15. new \in Task
  BY DEF Task, NewTask, Ids
<1>0. /\ t.into \in Frame \cup Object /\ t.depth \in Nat
      /\ c.tasks \in Seq(Task) /\ c.made \subseteq Object /\ c.visited \in Nat
  BY DEF Task, NewTask, Ids, Captures
<1>1. /\ new.into = v /\ new.id = v /\ new.depth = t.depth + 1 /\ ~new.outer
  BY DEF NewTask
<1>2. c1 = Enqueue(c, v, new)
  OBVIOUS
<1> HIDE DEF new
<1>3. /\ c1 \in Captures
      /\ c1.made = c.made \cup {v} /\ c1.tasks = Append(c.tasks, new)
      /\ c1.visited = c.visited /\ c1.failed = c.failed /\ c1.done = c.done /\ c1.own = c.own
  BY <1>2, <1>15, QueueFields
<1>4. /\ Len(c1.tasks) = n + 1 /\ DOMAIN c.tasks = 1 .. n /\ n \in Nat
      /\ DOMAIN c1.tasks = DOMAIN c.tasks \cup {n + 1}
      /\ c1.tasks[n + 1] = new /\ \A i \in DOMAIN c.tasks : c1.tasks[i] = c.tasks[i]
  BY <1>0, <1>3, <1>15, OneTaskMore
<1>5. /\ D \in [Object -> Nat] /\ Level(c, D, t.depth) /\ Queued(c, D) /\ ScopesFirst(c)
      /\ ObjectsRead(c, D, {t.into}) /\ BeingRead(c, D, t)
  BY DEF Midway, Sound
<1>6. /\ D1 \in [Object -> Nat] /\ D1[v] = t.depth + 1 /\ \A o \in c.made : D1[o] = D[o]
  BY <1>0 DEF Places
<1> HIDE DEF n
<1>7. Grows(c, D, c1, D1, t.into)
  BY <1>3, <1>4, <1>6 DEF Grows
<1>8. \A o : Awaited(c1, o) <=> Awaited(c, o) \/ o = v
  BY <1>1, <1>4 DEF Awaited
<1>9. \A i \in DOMAIN c.tasks : c.tasks[i].into \in Object => c.tasks[i].into \in c.made
  BY <1>5 DEF Queued, ForObject
<1>10. Level(c1, D1, t.depth)
  <2>1. \A i \in DOMAIN c1.tasks : t.depth <= c1.tasks[i].depth /\ c1.tasks[i].depth <= t.depth + 1
    BY <1>0, <1>1, <1>4, <1>5 DEF Level
  <2>2. \A i, j \in DOMAIN c1.tasks : i < j => c1.tasks[i].depth <= c1.tasks[j].depth
    <3>1. ASSUME NEW i \in DOMAIN c1.tasks, NEW j \in DOMAIN c1.tasks, i < j
          PROVE  c1.tasks[i].depth <= c1.tasks[j].depth
      <4>1. i \in DOMAIN c.tasks
        BY <1>4, <3>1
      <4>2. CASE j \in DOMAIN c.tasks
        BY <1>4, <1>5, <3>1, <4>1, <4>2 DEF Level
      <4>3. CASE j = n + 1
        BY <1>1, <1>4, <1>5, <4>1, <4>3 DEF Level
      <4> QED
        BY <1>4, <4>2, <4>3
    <3> QED
      BY <3>1
  <2>3. \A o \in c1.made : D1[o] <= t.depth + 1
    BY <1>0, <1>3, <1>5, <1>6 DEF Level
  <2> QED
    BY <2>1, <2>2, <2>3 DEF Level
<1>11. Queued(c1, D1)
  <2>1. ASSUME NEW i \in DOMAIN c1.tasks, c1.tasks[i].into \in Object
        PROVE  ForObject(c1.tasks[i], c1, D1)
    <3>1. CASE i \in DOMAIN c.tasks
      <4>1. ForObject(c.tasks[i], c, D)
        BY <1>4, <1>5, <2>1, <3>1 DEF Queued
      <4> QED
        BY <1>3, <1>4, <1>6, <3>1, <4>1 DEF ForObject
    <3>2. CASE i = n + 1
      BY <1>1, <1>3, <1>4, <1>6, <3>2 DEF ForObject
    <3> QED
      BY <1>4, <3>1, <3>2
  <2>2. ASSUME NEW i \in DOMAIN c1.tasks, NEW j \in DOMAIN c1.tasks,
               c1.tasks[i].into \in Object, c1.tasks[i].into = c1.tasks[j].into
        PROVE  i = j
    <3>1. CASE i \in DOMAIN c.tasks /\ j \in DOMAIN c.tasks
      BY <1>4, <1>5, <2>2, <3>1 DEF Queued
    <3>2. CASE i \in DOMAIN c.tasks /\ j = n + 1
      BY <1>1, <1>4, <1>9, <2>2, <3>2
    <3>3. CASE i = n + 1 /\ j \in DOMAIN c.tasks
      BY <1>1, <1>4, <1>9, <2>2, <3>3
    <3> QED
      BY <1>4, <3>1, <3>2, <3>3
  <2>3. ASSUME NEW o \in Object, o \notin c1.made \/ Awaited(c1, o) PROVE c1.own[o] = <<>>
    BY <1>3, <1>5, <1>8, <2>3 DEF Queued
  <2> QED
    BY <2>1, <2>2, <2>3 DEF Queued
<1>12. ScopesFirst(c1)
  <2>1. NumScopes \in Nat
    BY SomeFrame DEF NumScopes, Innermost
  <2>2. NumScopes <= c.visited + n
    BY <1>5 DEF ScopesFirst, n
  <2>3. NumScopes <= c1.visited + Len(c1.tasks)
    BY <1>0, <1>3, <1>4, <2>1, <2>2
  <2>4. v # 1
    BY SomeFrame
  <2>5. ASSUME NEW i \in DOMAIN c1.tasks
        PROVE  IF c1.visited + i <= NumScopes THEN c1.tasks[i] = ScopeTask(c1.visited + i)
               ELSE c1.tasks[i].into # 1
    <3>1. CASE i \in DOMAIN c.tasks
      BY <1>3, <1>4, <1>5, <3>1 DEF ScopesFirst
    <3>2. CASE i = n + 1
      <4>1. ~(c1.visited + i <= NumScopes)
        BY <1>0, <1>3, <1>4, <2>1, <2>2, <3>2
      <4> QED
        BY <1>1, <1>4, <2>4, <3>2, <4>1
    <3> QED
      BY <1>4, <3>1, <3>2
  <2> QED
    BY <2>3, <2>5 DEF ScopesFirst
<1>13. ObjectsRead(c1, D1, {t.into})
  <2>1. ASSUME NEW o \in c1.made, ~Awaited(c1, o), o \notin {t.into}
        PROVE  Covers(c1, D1, D1[o], c1.own[o], Reals(o))
    <3>1. o \in c.made /\ ~Awaited(c, o)
      BY <1>3, <1>8, <2>1
    <3>2. Covers(c, D, D[o], c.own[o], Reals(o))
      BY <1>5, <2>1, <3>1 DEF ObjectsRead
    <3>3. Covers(c1, D1, D[o], c.own[o], Reals(o))
      BY <1>3, <1>7, <3>2, CoversStays
    <3> QED
      BY <1>3, <1>6, <3>1, <3>3
  <2> QED
    BY <2>1 DEF ObjectsRead
<1>14. BeingRead(c1, D1, t)
  BY <1>3, <1>5, <1>6, <1>8 DEF BeingRead, ForObject
<1> QED
  BY <1>0, <1>3, <1>6, <1>7, <1>10, <1>11, <1>12, <1>13, <1>14 DEF Midway, Sound

(* What a task reads next is left out exactly if it is not to be there. *)
LEMMA LeavesWhat ==
    ASSUME CutNamesAreFree, program \in Programs, NEW t, t \in Task, NEW c, c \in Captures,
           NEW D, Midway(c, D, t), NEW k, Filled(c, D, t, k), NEW p, NextOf(t.id, k, p)
    PROVE  /\ t.into \in Object => (Leaves(t, c, p) <=> Skips(t.id, p))
           /\ t.into = 1 => /\ t.id = Innermost[c.visited] /\ c.visited \in DOMAIN Innermost
                            /\ t.depth = 0
                            /\ Leaves(t, c, p) <=> p.key \in Hidden(1, c.visited)
                            /\ p.key \in Hidden(1, c.visited) <=>
                                  \E r \in ScopeTo(c.visited, k) : r.key = p.key
<1>1. ASSUME t.into \in Object PROVE Leaves(t, c, p) <=> Skips(t.id, p)
  BY <1>1 DEF Midway, BeingRead, ForObject, Leaves, Skips
<1>2. ASSUME t.into = 1
      PROVE  /\ t.id = Innermost[c.visited] /\ c.visited \in DOMAIN Innermost
             /\ t.depth = 0
             /\ Leaves(t, c, p) <=> p.key \in Hidden(1, c.visited)
             /\ p.key \in Hidden(1, c.visited) <=>
                   \E r \in ScopeTo(c.visited, k) : r.key = p.key
  <2> DEFINE j == c.visited
  <2>1. j \in DOMAIN Innermost /\ t = ScopeTask(j)
    BY <1>2 DEF Midway, BeingRead
  <2>2. t.id = Innermost[j] /\ t.depth = 0 /\ (t.outer <=> j > 1)
    BY <2>1 DEF ScopeTask
  <2>3. j \in Nat /\ j >= 1
    <3>1. Innermost \in Seq(Scope)
      BY SomeFrame DEF Innermost
    <3> QED
      BY <2>1, <3>1
  <2> HIDE DEF j
  <2>4. /\ p.key \in Hidden(1, j) <=> \E r \in ScopeTo(j, k) : r.key = p.key
        /\ j = 1 => p.key \notin Hidden(1, j)
    BY <2>1, <2>2, ScopeNames
  <2>5. t.into \notin Array
    BY <1>2, SomeFrame, ProgramShape
  <2>6. Owns(c, t.into, p.key) <=> \E r \in ScopeTo(j, k) : r.key = p.key
    <3>1. Keys(c.own[1]) = {r.key : r \in ScopeTo(j, k)}
      BY <1>2 DEF Filled, Covers, j
    <3> QED
      BY <1>2, <3>1 DEF Owns
  <2>7. Leaves(t, c, p) <=> p.key \in Hidden(1, j)
    BY <2>2, <2>3, <2>4, <2>5, <2>6 DEF Leaves
  <2> QED
    BY <2>1, <2>2, <2>4, <2>7 DEF j
<1> QED
  BY <1>1, <1>2

LEMMA FillsSame ==
    ASSUME CutNamesAreFree, program \in Programs, NEW t, t \in Task, NEW c, c \in Captures,
           NEW D, Midway(c, D, t), NEW k, Filled(c, D, t, k), NEW p, NextOf(t.id, k, p),
           Leaves(t, c, p)
    PROVE  Filled(c, D, t, k + 1)
<1>0. t.id \in Ids
  BY DEF Task
<1>1. ASSUME t.into \in Object PROVE ObjectTo(t.id, k + 1) = ObjectTo(t.id, k)
  BY <1>0, <1>1, LeavesWhat, ObjectSoFar
<1>2. ASSUME t.into = 1 PROVE ScopeTo(c.visited, k + 1) = ScopeTo(c.visited, k)
  <2>1. /\ t.id = Innermost[c.visited] /\ c.visited \in DOMAIN Innermost
        /\ p.key \in Hidden(1, c.visited)
    BY <1>2, LeavesWhat
  <2> QED
    BY <2>1, ScopeSoFar
<1> QED
  BY <1>1, <1>2 DEF Filled

LEMMA FillsMore ==
    ASSUME CutNamesAreFree, program \in Programs, NEW t, t \in Task, NEW c, c \in Captures,
           NEW D, Midway(c, D, t), NEW k, Filled(c, D, t, k), NEW p, NextOf(t.id, k, p),
           ~Leaves(t, c, p),
           NEW c1, c1 \in Captures, NEW D1, Grows(c, D, c1, D1, t.into),
           NEW e, e \in Entry, e.key = p.key, c1.own[t.into] = Append(c.own[t.into], e),
           Match(c1, D1, t.depth, e.val, Really(t.id, p).val)
    PROVE  Filled(c1, D1, t, k + 1)
<1> DEFINE r == Really(t.id, p)
           s == c.own[t.into]
<1>0. /\ t.id \in Ids /\ r.key = p.key /\ s \in Seq(Entry) /\ t.into \in Frame \cup Object
      /\ c1.visited = c.visited
  BY DEF Task, Really, Captures, Owned, Grows
<1> HIDE DEF r, s
<1>1. ASSUME t.into \in Object
      PROVE  Covers(c1, D1, t.depth, c1.own[t.into], ObjectTo(t.id, k + 1))
  <2>1. ~Skips(t.id, p)
    BY <1>1, LeavesWhat
  <2>2. /\ ObjectTo(t.id, k + 1) = ObjectTo(t.id, k) \cup {r}
        /\ SameKey(ObjectTo(t.id, k), r)
    BY <1>0, <2>1, ObjectSoFar DEF r
  <2>3. Covers(c, D, t.depth, s, ObjectTo(t.id, k))
    BY <1>1 DEF Filled, s
  <2>4. Covers(c1, D1, t.depth, s, ObjectTo(t.id, k))
    BY <2>3, CoversStays
  <2>5. Match(c1, D1, t.depth, e.val, r.val) /\ e.key = r.key
    BY <1>0 DEF r
  <2>6. Covers(c1, D1, t.depth, Append(s, e), ObjectTo(t.id, k) \cup {r})
    BY <1>0, <2>2, <2>4, <2>5, CoversMore
  <2> QED
    BY <2>2, <2>6 DEF s
<1>2. ASSUME t.into = 1
      PROVE  Covers(c1, D1, 0, c1.own[1], ScopeTo(c1.visited, k + 1))
  <2> DEFINE j == c.visited
  <2>1. /\ t.id = Innermost[j] /\ j \in DOMAIN Innermost /\ t.depth = 0
        /\ p.key \notin Hidden(1, j) /\ ~\E q \in ScopeTo(j, k) : q.key = p.key
    BY <1>2, LeavesWhat
  <2>2. ScopeTo(j, k + 1) = ScopeTo(j, k) \cup {r}
    BY <2>1, ScopeSoFar DEF r
  <2>3. SameKey(ScopeTo(j, k), r)
    BY <1>0, <2>1 DEF SameKey
  <2>4. Covers(c, D, 0, s, ScopeTo(j, k))
    BY <1>2 DEF Filled, s
  <2> HIDE DEF j
  <2>5. Covers(c1, D1, 0, s, ScopeTo(j, k))
    BY <2>4, CoversStays
  <2>6. Match(c1, D1, 0, e.val, r.val) /\ e.key = r.key
    BY <1>0, <2>1 DEF r
  <2>7. Covers(c1, D1, 0, Append(s, e), ScopeTo(j, k) \cup {r})
    BY <1>0, <2>3, <2>5, <2>6, CoversMore
  <2> QED
    BY <1>0, <1>2, <2>2, <2>7 DEF s, j
<1>3. ASSUME t.into # 1 PROVE LocalsRead(c1, D1)
  <2>1. Covers(c, D, 0, c.own[1], LocalsTo(c.visited))
    BY <1>3 DEF Filled, LocalsRead
  <2>2. Covers(c1, D1, 0, c.own[1], LocalsTo(c.visited))
    BY <2>1, CoversStays
  <2>3. c1.own[1] = c.own[1]
    BY <1>3, SomeFrame DEF Grows
  <2> QED
    BY <1>0, <2>2, <2>3 DEF LocalsRead
<1> QED
  BY <1>1, <1>2, <1>3 DEF Filled

(* The capture, if no read failed, after k properties of task t. *)
Reading(c, D, t, k) == Midway(c, D, t) /\ Filled(c, D, t, k)

LEMMA OneRead ==
    ASSUME CutNamesAreFree, program \in Programs, NEW t, t \in Task, NEW c, c \in Captures,
           NEW D, NEW k, Reading(c, D, t, k), NEW p, NextOf(t.id, k, p)
    PROVE  \E D1 : Reading(ReadProperty(t, c, p), D1, t, k + 1)
<1> DEFINE c1 == ReadProperty(t, c, p)
<1>0. Midway(c, D, t) /\ Filled(c, D, t, k)
  BY DEF Reading
<1>1. p \in Prop /\ p.key \in Key
  BY OnePropertyMore DEF Task, Prop
<1>2. CASE Leaves(t, c, p)
  <2>1. c1 = c
    BY <1>2, LeavesOut
  <2>2. Filled(c, D, t, k + 1)
    BY <1>0, <1>2, FillsSame
  <2> QED
    BY <1>0, <2>1, <2>2 DEF Reading
<1>3. CASE ~Leaves(t, c, p) /\ ~Queues(t, c, p)
  <2>1. PICK x \in Held :
           /\ c1 = Put(c, t.into, [key |-> p.key, val |-> x])
           /\ \A E : Level(c, E, t.depth) => Match(c, E, t.depth, x, Really(t.id, p).val)
    BY <1>1, <1>3, PutsValue
  <2> DEFINE e == [key |-> p.key, val |-> x]
  <2>2. e \in Entry /\ e.key = p.key /\ e.val = x
    BY <1>1 DEF Entry
  <2>3. c1 = Put(c, t.into, e)
    BY <2>1
  <2>4. Match(c, D, t.depth, x, Really(t.id, p).val)
    BY <1>0, <2>1 DEF Midway, Sound
  <2> HIDE DEF e, c1
  <2>5. c1 \in Captures /\ Grows(c, D, c1, D, t.into) /\ Midway(c1, D, t)
    BY <1>0, <2>2, <2>3, PutKeeps
  <2>6. Match(c1, D, t.depth, e.val, Really(t.id, p).val)
    BY <2>2, <2>4, <2>5, MatchStays
  <2>7. c1.own[t.into] = Append(c.own[t.into], e)
    BY <2>2, <2>3, PutFields DEF Task
  <2>8. Filled(c1, D, t, k + 1)
    BY <1>0, <1>3, <2>2, <2>5, <2>6, <2>7, FillsMore
  <2> QED
    BY <2>5, <2>8 DEF Reading, c1
<1>4. CASE ~Leaves(t, c, p) /\ Queues(t, c, p)
  <2> DEFINE v == p.val
             e == [key |-> p.key, val |-> Value("object", v)]
             c2 == Put(c, t.into, e)
             D1 == [D EXCEPT ![v] = t.depth + 1]
  <2>1. v \in Object /\ v \notin c.made /\ e \in Entry /\ e.key = p.key
        /\ t.into \in Frame \cup Object
    <3>1. v \in Object
      BY <1>1, <1>4 DEF Queues, Prop
    <3> QED
      BY <1>1, <1>4, <3>1 DEF Entry, Held, Task, Queues
  <2>2. c1 = Enqueue(c2, v, NewTask(t, v))
    BY <1>4, PutsObject
  <2>3. Really(t.id, p).val = e.val /\ e.val.t = "object" /\ e.val.of = v
    BY <1>4 DEF Really, Queues, Value
  <2>4. Places(D1, D, v, t.depth + 1)
    <3>1. t.depth + 1 \in Nat /\ D \in [Object -> Nat]
      BY <1>0 DEF Task, Midway
    <3> QED
      BY <2>1, <3>1 DEF Places
  <2> HIDE DEF e, v, c1, D1
  <2>5. c2 \in Captures /\ Grows(c, D, c2, D, t.into) /\ Midway(c2, D, t)
    BY <1>0, <2>1, PutKeeps
  <2>6. c2.made = c.made /\ c2.own[t.into] = Append(c.own[t.into], e)
    BY <2>1, PutFields
  <2> HIDE DEF c2
  <2>7. v \notin c2.made
    BY <2>1, <2>6
  <2>8. /\ c1 \in Captures /\ Grows(c2, D, c1, D1, t.into) /\ Midway(c1, D1, t)
        /\ c1.own = c2.own /\ v \in c1.made /\ D1[v] <= t.depth + 1
    BY <2>1, <2>2, <2>4, <2>5, <2>7, EnqueueKeeps
  <2>9. Grows(c, D, c1, D1, t.into)
    <3>1. Len(c.tasks) \in Nat /\ Len(c2.tasks) \in Nat /\ Len(c1.tasks) \in Nat
      BY <2>5, <2>8 DEF Captures
    <3> QED
      BY <2>5, <2>8, <3>1 DEF Grows
  <2>10. Match(c1, D1, t.depth, e.val, Really(t.id, p).val)
    BY <2>3, <2>8 DEF Match
  <2>11. c1.own[t.into] = Append(c.own[t.into], e)
    BY <2>6, <2>8
  <2>12. Filled(c1, D1, t, k + 1)
    BY <1>0, <1>4, <2>1, <2>8, <2>9, <2>10, <2>11, FillsMore
  <2> QED
    BY <2>8, <2>12 DEF Reading, c1
<1> QED
  BY <1>2, <1>3, <1>4

-----------------------------------------------------------------------------
(* The operations keep the invariant *)

(* PropertiesRead reads the properties of a task one after the other. *)
ReadAll(t, c) == FoldLeft(LAMBDA x, p : ReadProperty(t, x, p), c, Kept(t.id))

LEMMA AllRead ==
    ASSUME CutNamesAreFree, program \in Programs, NEW t, t \in Task, NEW c, c \in Captures,
           c.failed \/ \E D : Reading(c, D, t, 0)
    PROVE  /\ ReadAll(t, c) \in Captures /\ ReadAll(t, c).visited = c.visited
           /\ ReadAll(t, c).failed = c.failed /\ ReadAll(t, c).done = c.done
           /\ ~c.failed => \E D : Reading(ReadAll(t, c), D, t, Len(Kept(t.id)))
<1> DEFINE sel == Kept(t.id)
           n == Len(sel)
           Read(x, p) == ReadProperty(t, x, p)
           F == [q \in (1 .. n) \X Captures |-> Read(q[2], sel[q[1]])]
           Iter(h) == h = [s \in SUBSET (DOMAIN sel) |->
                              IF s = {} THEN c ELSE Read(h[s \ {Max(s)}], sel[Max(s)])]
           it == CHOOSE h : Iter(h)
<1>1. n \in Nat /\ DOMAIN sel = 1 .. n /\ \A k \in 1 .. n : sel[k] \in Prop
  <2>1. sel \in Seq(Prop)
    BY KeptType DEF Task
  <2> HIDE DEF sel
  <2> QED
    BY <2>1
<1>2. \A x \in Captures, p \in Prop : Read(x, p) \in Captures
  BY ReadType
<1> HIDE DEF Read, sel
<1>3. ReadAll(t, c) = it[DOMAIN sel]
  BY DEF ReadAll, FoldLeft, MapThenFoldSet, Read, sel
<1>4. StepOf(F, n, Captures) /\ \A k \in 1 .. n, x \in Captures : F[<<k, x>>] = Read(x, sel[k])
  BY <1>1, <1>2 DEF StepOf
<1> HIDE DEF F
<1>5. PICK h : FoldTable(h, F, c, n, Captures)
  BY <1>1, <1>4, FoldExists
<1>6. Iter(h)
  <2>1. ASSUME NEW s \in SUBSET (1 .. n)
        PROVE  h[s] = IF s = {} THEN c ELSE Read(h[s \ {Max(s)}], sel[Max(s)])
    <3>1. CASE s = {}
      BY <1>5, <3>1 DEF FoldTable, FoldBy
    <3>2. CASE s # {}
      <4>1. Max(s) \in 1 .. n /\ s \ {Max(s)} \in SUBSET (1 .. n)
        BY <1>1, <3>2, LastPlace
      <4>2. h[s \ {Max(s)}] \in Captures
        BY <1>5, <4>1 DEF FoldTable
      <4>3. h[s] = F[<<Max(s), h[s \ {Max(s)}]>>]
        BY <1>5, <3>2 DEF FoldTable, FoldBy
      <4> QED
        BY <1>4, <3>2, <4>1, <4>2, <4>3
    <3> QED
      BY <3>1, <3>2
  <2>2. h \in [SUBSET (1 .. n) -> Captures]
    BY <1>5 DEF FoldTable
  <2> HIDE DEF n
  <2> QED
    BY <1>1, <2>1, <2>2
<1>7. Iter(it)
  BY <1>6
<1> HIDE DEF it
<1>8. \A s \in SUBSET (1 .. n) :
         it[s] = IF s = {} THEN c ELSE Read(it[s \ {Max(s)}], sel[Max(s)])
  BY <1>1, <1>7, Zenon
<1>9. it[1 .. 0] = c
  <2>1. 1 .. 0 = {} /\ {} \in SUBSET (1 .. n)
    OBVIOUS
  <2> QED
    BY <1>8, <2>1, Zenon
<1>10. ASSUME NEW k \in 0 .. (n - 1) PROVE it[1 .. (k + 1)] = Read(it[1 .. k], sel[k + 1])
  <2>1. /\ 1 .. (k + 1) \in SUBSET (1 .. n) /\ 1 .. (k + 1) # {}
        /\ Max(1 .. (k + 1)) = k + 1 /\ (1 .. (k + 1)) \ {k + 1} = 1 .. k
    BY <1>1, OneMore
  <2> DEFINE s == 1 .. (k + 1)
  <2>2. it[s] = Read(it[s \ {Max(s)}], sel[Max(s)])
    <3>1. s \in SUBSET (1 .. n) /\ s # {}
      BY <2>1
    <3> HIDE DEF s
    <3> QED
      BY <1>8, <3>1, Zenon
  <2> QED
    BY <2>1, <2>2
<1> DEFINE Good(k) ==
             /\ it[1 .. k] \in Captures /\ it[1 .. k].visited = c.visited
             /\ it[1 .. k].failed = c.failed /\ it[1 .. k].done = c.done
             /\ ~c.failed => \E D : Reading(it[1 .. k], D, t, k)
           G == {k \in 0 .. n : Good(k)}
<1>11. Good(0)
  BY <1>9
<1>12. ASSUME NEW k \in 0 .. (n - 1), Good(k) PROVE Good(k + 1)
  <2> DEFINE x == it[1 .. k]
             x1 == it[1 .. (k + 1)]
             p == sel[k + 1]
  <2>1. NextOf(t.id, k, p) /\ p \in Prop
    BY <1>1 DEF NextOf, n, sel
  <2>2. x1 = ReadProperty(t, x, p)
    BY <1>10 DEF Read
  <2>3. /\ x \in Captures /\ x.visited = c.visited /\ x.failed = c.failed /\ x.done = c.done
        /\ ~c.failed => \E D : Reading(x, D, t, k)
    BY <1>12
  <2> HIDE DEF x, x1, p
  <2>4. x1 \in Captures /\ x1.visited = x.visited /\ x1.failed = x.failed /\ x1.done = x.done
    BY <2>1, <2>2, <2>3, ReadType
  <2>5. ASSUME ~c.failed PROVE \E D : Reading(x1, D, t, k + 1)
    <3>1. PICK D : Reading(x, D, t, k)
      BY <2>3, <2>5
    <3>2. \E D1 : Reading(ReadProperty(t, x, p), D1, t, k + 1)
      BY <2>1, <2>3, <3>1, OneRead
    <3> QED
      BY <2>2, <3>2
  <2> QED
    BY <2>3, <2>4, <2>5 DEF x1
<1>13. Inductive(G, n)
  <2>1. \A k \in 0 .. (n - 1) : k \in 0 .. n /\ k + 1 \in 0 .. n
    BY <1>1
  <2>2. 0 \in 0 .. n
    BY <1>1
  <2> HIDE DEF Good, n
  <2> QED
    BY <1>11, <1>12, <2>1, <2>2 DEF Inductive
<1>14. Good(n)
  <2> HIDE DEF Good
  <2>1. n \in G
    BY <1>1, <1>13, Induction
  <2> QED
    BY <2>1
<1> QED
  BY <1>1, <1>3, <1>14 DEF n, sel

(* Taking a task shifts the queue by one place. *)
LEMMA RestOfQueue ==
    ASSUME NEW s, s \in Seq(Task), s # <<>>, NEW s1, s1 = Tail(s)
    PROVE  /\ Head(s) = s[1] /\ Head(s) \in Task /\ s1 \in Seq(Task)
           /\ Len(s) \in Nat /\ Len(s1) = Len(s) - 1 /\ 1 \in DOMAIN s
           /\ DOMAIN s = 1 .. Len(s) /\ DOMAIN s1 = 1 .. (Len(s) - 1)
           /\ \A i \in DOMAIN s1 : i + 1 \in DOMAIN s /\ s1[i] = s[i + 1]
OBVIOUS

LEMMA TakenType ==
    ASSUME capture \in Captures, capture.tasks # <<>>, NEW f, f \in BOOLEAN
    PROVE  /\ Taken \in Captures /\ [Taken EXCEPT !.failed = f] \in Captures
           /\ [Taken EXCEPT !.failed = f].failed = f /\ [Taken EXCEPT !.failed = f].done = capture.done
           /\ Taken.tasks = Tail(capture.tasks) /\ Taken.made = capture.made
           /\ Taken.visited = capture.visited + 1 /\ Taken.failed = capture.failed
           /\ Taken.own = capture.own /\ Taken.done = capture.done
<1>1. capture.tasks \in Seq(Task) /\ capture.visited \in Nat
  BY DEF Captures
<1>2. Tail(capture.tasks) \in Seq(Task) /\ capture.visited + 1 \in Nat
  BY <1>1
<1>3. /\ Taken.tasks = Tail(capture.tasks) /\ Taken.made = capture.made
      /\ Taken.visited = capture.visited + 1 /\ Taken.failed = capture.failed
      /\ Taken.own = capture.own /\ Taken.done = capture.done
  BY DEF Taken, Captures
<1>4. Taken \in Captures
  BY <1>1, <1>2 DEF Taken, Captures
<1>5. [Taken EXCEPT !.failed = f] \in Captures
  BY <1>4 DEF Captures
<1>6. [Taken EXCEPT !.failed = f].failed = f /\ [Taken EXCEPT !.failed = f].done = capture.done
  BY <1>3, <1>4 DEF Captures
<1> QED
  BY <1>3, <1>4, <1>5, <1>6

LEMMA NothingYet ==
    ASSUME NEW c, NEW D, NEW d
    PROVE  Covers(c, D, d, <<>>, {})
BY DEF Covers, Keys, ToSet

(* The head of the queue is taken: nothing of it is read yet. *)
LEMMA TakenReads ==
    ASSUME program \in Programs, capture \in Captures, capture.tasks # <<>>,
           NEW t, t = Head(capture.tasks), NEW D, D \in [Object -> Nat], NEW d, d \in Nat,
           Sound(capture, D, d), ObjectsRead(capture, D, {}), LocalsRead(capture, D)
    PROVE  t \in Task /\ Reading(Taken, D, t, 0)
<1> DEFINE c == Taken
           s == capture.tasks
           m == Len(s)
<1>1. /\ c \in Captures /\ c.tasks = Tail(s) /\ c.made = capture.made
      /\ c.visited = capture.visited + 1 /\ c.own = capture.own
  BY TakenType
<1>2. s \in Seq(Task) /\ capture.visited \in Nat /\ capture.made \subseteq Object
  BY DEF Captures
<1> HIDE DEF c
<1>3. /\ t = s[1] /\ t \in Task /\ 1 \in DOMAIN s /\ m \in Nat /\ Len(c.tasks) = m - 1
      /\ DOMAIN s = 1 .. m /\ DOMAIN c.tasks = 1 .. (m - 1)
      /\ \A i \in DOMAIN c.tasks : i + 1 \in DOMAIN s /\ c.tasks[i] = s[i + 1]
  BY <1>1, <1>2, RestOfQueue
<1>4. /\ t.depth \in Nat /\ t.into \in Frame \cup Object
      /\ \A i \in DOMAIN s : s[i].depth \in Nat
  <2>1. \A i \in DOMAIN s : s[i] \in Task
    BY <1>2, <1>3
  <2> QED
    BY <1>3, <2>1 DEF Task
<1>5. Level(capture, D, d) /\ Queued(capture, D) /\ ScopesFirst(capture)
  BY DEF Sound
<1>6. NumScopes \in Nat /\ DOMAIN Innermost = 1 .. NumScopes
  BY SomeFrame DEF NumScopes, Innermost
<1>7. \A i \in DOMAIN c.tasks : i \in Nat /\ i + 1 # 1 /\ 1 < i + 1
  BY <1>3
<1>8. \A o : Awaited(c, o) => Awaited(capture, o)
  BY <1>3 DEF Awaited
<1>9. ASSUME NEW o, Awaited(capture, o), o # t.into PROVE Awaited(c, o)
  <2>1. PICK i \in DOMAIN s : s[i].into = o
    BY <1>9 DEF Awaited
  <2>2. i # 1
    BY <1>3, <1>9, <2>1
  <2>3. i - 1 \in DOMAIN c.tasks /\ (i - 1) + 1 = i
    BY <1>3, <2>2
  <2>4. c.tasks[i - 1] = s[i]
    BY <1>3, <2>3
  <2> QED
    BY <2>1, <2>3, <2>4 DEF Awaited
<1>10. Level(c, D, t.depth)
  <2>1. \A i \in DOMAIN c.tasks : t.depth <= c.tasks[i].depth /\ c.tasks[i].depth <= t.depth + 1
    <3>1. ASSUME NEW i \in DOMAIN c.tasks
          PROVE  t.depth <= c.tasks[i].depth /\ c.tasks[i].depth <= t.depth + 1
      <4>1. s[1].depth <= s[i + 1].depth
        BY <1>3, <1>5, <1>7 DEF Level
      <4>2. s[i + 1].depth <= d + 1 /\ d <= s[1].depth
        BY <1>3, <1>5 DEF Level
      <4>3. c.tasks[i] = s[i + 1] /\ s[i + 1].depth \in Nat /\ s[1].depth = t.depth
        BY <1>3, <1>4
      <4> HIDE DEF s
      <4> QED
        BY <1>4, <4>1, <4>2, <4>3
    <3> QED
      BY <3>1
  <2>2. ASSUME NEW i \in DOMAIN c.tasks, NEW j \in DOMAIN c.tasks, i < j
        PROVE  c.tasks[i].depth <= c.tasks[j].depth
    <3>1. i + 1 \in DOMAIN s /\ j + 1 \in DOMAIN s /\ i + 1 < j + 1
      BY <1>3, <1>7, <2>2
    <3>2. s[i + 1].depth <= s[j + 1].depth
      BY <1>5, <3>1 DEF Level
    <3> QED
      BY <1>3, <3>2
  <2>3. \A o \in c.made : D[o] <= t.depth + 1
    <3>1. d <= t.depth
      BY <1>3, <1>5 DEF Level
    <3>2. \A o \in c.made : D[o] \in Nat /\ D[o] <= d + 1
      BY <1>1, <1>2, <1>5 DEF Level
    <3> QED
      BY <1>4, <3>1, <3>2
  <2> QED
    BY <2>1, <2>2, <2>3 DEF Level
<1>11. Queued(c, D)
  <2>1. \A i \in DOMAIN c.tasks : c.tasks[i].into \in Object => ForObject(c.tasks[i], c, D)
    BY <1>1, <1>3, <1>5 DEF Queued, ForObject
  <2>2. ASSUME NEW i \in DOMAIN c.tasks, NEW j \in DOMAIN c.tasks,
               c.tasks[i].into \in Object, c.tasks[i].into = c.tasks[j].into
        PROVE  i = j
    <3>1. i + 1 \in DOMAIN s /\ j + 1 \in DOMAIN s /\ s[i + 1] = c.tasks[i] /\ s[j + 1] = c.tasks[j]
      BY <1>3
    <3>2. i + 1 = j + 1
      BY <1>5, <2>2, <3>1 DEF Queued
    <3> QED
      BY <1>7, <3>2
  <2>3. \A o \in Object : o \notin c.made \/ Awaited(c, o) => c.own[o] = <<>>
    BY <1>1, <1>5, <1>8 DEF Queued
  <2> QED
    BY <2>1, <2>2, <2>3 DEF Queued
<1>12. ScopesFirst(c)
  <2>1. NumScopes <= c.visited + Len(c.tasks)
    <3>1. NumScopes <= capture.visited + m
      BY <1>5 DEF ScopesFirst
    <3> QED
      BY <1>1, <1>2, <1>3, <1>6, <3>1
  <2>2. ASSUME NEW i \in DOMAIN c.tasks
        PROVE  IF c.visited + i <= NumScopes THEN c.tasks[i] = ScopeTask(c.visited + i)
               ELSE c.tasks[i].into # 1
    <3>1. c.visited + i = capture.visited + (i + 1)
      BY <1>1, <1>2, <1>7
    <3>2. IF capture.visited + (i + 1) <= NumScopes
          THEN s[i + 1] = ScopeTask(capture.visited + (i + 1)) ELSE s[i + 1].into # 1
      BY <1>3, <1>5 DEF ScopesFirst
    <3> QED
      BY <1>3, <3>1, <3>2
  <2> QED
    BY <2>1, <2>2 DEF ScopesFirst
<1>13. Later(capture, D, c, D)
  BY <1>1, <1>2, <1>3 DEF Later
<1>14. ObjectsRead(c, D, {t.into})
  <2>1. ASSUME NEW o \in c.made, ~Awaited(c, o), o # t.into
        PROVE  Covers(c, D, D[o], c.own[o], Reals(o))
    <3>1. Covers(capture, D, D[o], capture.own[o], Reals(o))
      BY <1>1, <1>9, <2>1 DEF ObjectsRead
    <3>2. Covers(c, D, D[o], capture.own[o], Reals(o))
      BY <1>1, <1>13, <3>1, LaterCovers
    <3> QED
      BY <1>1, <3>2
  <2> QED
    BY <2>1 DEF ObjectsRead
<1>15. Covers(c, D, 0, c.own[1], LocalsTo(capture.visited))
  <2>1. Covers(capture, D, 0, capture.own[1], LocalsTo(capture.visited))
    BY DEF LocalsRead
  <2>2. Covers(c, D, 0, capture.own[1], LocalsTo(capture.visited))
    BY <1>1, <1>13, <2>1, LaterCovers
  <2> QED
    BY <1>1, <2>2
<1>16. IF capture.visited + 1 <= NumScopes THEN t = ScopeTask(capture.visited + 1) ELSE t.into # 1
  BY <1>3, <1>5 DEF ScopesFirst
<1>17. BeingRead(c, D, t)
  <2>1. ASSUME t.into \in Object PROVE ForObject(t, c, D) /\ ~Awaited(c, t.into)
    <3>1. ForObject(t, capture, D)
      BY <1>3, <1>5, <2>1 DEF Queued
    <3>2. ASSUME NEW i \in DOMAIN c.tasks, c.tasks[i].into = t.into PROVE FALSE
      <4>1. i + 1 = 1
        BY <1>3, <1>5, <2>1, <3>2 DEF Queued
      <4> QED
        BY <1>7, <4>1
    <3> QED
      BY <1>1, <3>1, <3>2 DEF ForObject, Awaited
  <2>2. ASSUME t.into = 1 PROVE c.visited \in DOMAIN Innermost /\ t = ScopeTask(c.visited)
    BY <1>1, <1>2, <1>6, <1>16, <2>2
  <2> QED
    BY <2>1, <2>2 DEF BeingRead
<1>18. Filled(c, D, t, 0)
  <2>0. \A id : Firsts(id, 0) = {}
    BY DEF Firsts
  <2>1. ASSUME t.into \in Object PROVE Covers(c, D, t.depth, c.own[t.into], ObjectTo(t.id, 0))
    <3>1. Awaited(capture, t.into)
      BY <1>3 DEF Awaited
    <3>2. c.own[t.into] = <<>>
      BY <1>1, <1>5, <2>1, <3>1 DEF Queued
    <3>3. ObjectTo(t.id, 0) = {}
      BY <2>0 DEF ObjectTo
    <3> QED
      BY <3>2, <3>3, NothingYet
  <2>2. ASSUME t.into = 1 PROVE Covers(c, D, 0, c.own[1], ScopeTo(c.visited, 0))
    <3>1. ScopeTo(c.visited, 0) = LocalsTo(c.visited - 1) /\ c.visited - 1 = capture.visited
      BY <1>1, <1>2, <2>0 DEF ScopeTo
    <3> QED
      BY <1>15, <3>1
  <2>3. ASSUME t.into # 1 PROVE LocalsRead(c, D)
    <3>1. ~(capture.visited + 1 <= NumScopes)
      BY <1>16, <2>3 DEF ScopeTask
    <3>2. \A i \in DOMAIN Innermost : i <= capture.visited /\ i <= capture.visited + 1
      BY <1>2, <1>6, <3>1
    <3>3. LocalsTo(c.visited) = LocalsTo(capture.visited)
      BY <1>1, <3>2 DEF LocalsTo
    <3> QED
      BY <1>15, <3>3 DEF LocalsRead
  <2> QED
    BY <2>1, <2>2, <2>3 DEF Filled
<1> QED
  BY <1>3, <1>10, <1>11, <1>12, <1>14, <1>17, <1>18 DEF Reading, Midway, Sound, c

(* When the last property of a task is read, its container is complete. *)
LEMMA ReadDone ==
    ASSUME program \in Programs, NEW t, t \in Task, NEW c, c \in Captures,
           NEW D, Reading(c, D, t, Len(Kept(t.id)))
    PROVE  /\ D \in [Object -> Nat] /\ Sound(c, D, t.depth)
           /\ ObjectsRead(c, D, {}) /\ LocalsRead(c, D)
<1> DEFINE n == Len(Kept(t.id))
<1>0. t.id \in Ids /\ Firsts(t.id, n) = ToSet(Kept(t.id))
  BY AllOfThem DEF Task
<1> HIDE DEF n
<1>1. Midway(c, D, t) /\ Filled(c, D, t, n)
  BY DEF Reading, n
<1>2. ObjectsRead(c, D, {})
  <2>1. ASSUME NEW o \in c.made, ~Awaited(c, o) PROVE Covers(c, D, D[o], c.own[o], Reals(o))
    <3>1. CASE o # t.into
      BY <1>1, <2>1, <3>1 DEF Midway, ObjectsRead
    <3>2. CASE o = t.into
      <4>1. o \in Object
        BY DEF Captures
      <4>2. t.id = o /\ D[o] = t.depth
        BY <1>1, <3>2, <4>1 DEF Midway, BeingRead, ForObject
      <4>3. ObjectTo(t.id, n) = Reals(o)
        BY <1>0, <4>2 DEF ObjectTo, Reals
      <4>4. Covers(c, D, t.depth, c.own[t.into], ObjectTo(t.id, n))
        BY <1>1, <3>2, <4>1 DEF Filled
      <4> QED
        BY <3>2, <4>2, <4>3, <4>4
    <3> QED
      BY <3>1, <3>2
  <2> QED
    BY <2>1 DEF ObjectsRead
<1>3. LocalsRead(c, D)
  <2>1. CASE t.into # 1
    BY <1>1, <2>1 DEF Filled
  <2>2. CASE t.into = 1
    <3> DEFINE j == c.visited
    <3>1. j \in DOMAIN Innermost /\ t.id = Innermost[j]
      BY <1>1, <2>2 DEF Midway, BeingRead, ScopeTask
    <3>2. Innermost \in Seq(Scope)
      BY SomeFrame DEF Innermost
    <3>3. j \in Nat
      BY <3>1, <3>2
    <3> HIDE DEF j
    <3>4. {i \in DOMAIN Innermost : i <= j} = {i \in DOMAIN Innermost : i <= j - 1} \cup {j}
      BY <3>1, <3>2, <3>3
    <3>5. LocalsTo(j) = LocalsTo(j - 1) \cup Bound(j)
      BY <3>4 DEF LocalsTo
    <3>6. ScopeTo(j, n) = LocalsTo(j)
      BY <1>0, <3>1, <3>5 DEF ScopeTo, Bound
    <3> QED
      BY <1>1, <2>2, <3>6 DEF Filled, LocalsRead, j
  <2> QED
    BY <2>1, <2>2
<1> QED
  BY <1>1, <1>2, <1>3 DEF Midway

(* The budget holds the scopes of the innermost frame (maxObjects is 200). *)
ScopesFit == \A b \in Budgets : Len(Innermost) <= b

(* All scopes are queued as far as the budget goes, those of the innermost *)
(* frame first.                                                            *)
LEMMA ScopesQueued ==
    ASSUME ScopesFit, program \in Programs
    PROVE  /\ ScopeTasks \in Seq(Task) /\ NumScopes <= Len(ScopeTasks)
           /\ \A i \in DOMAIN ScopeTasks :
                 /\ ScopeTasks[i].depth = 0 /\ ScopeTasks[i].into \in Frame
                 /\ IF i <= NumScopes THEN ScopeTasks[i] = ScopeTask(i) ELSE ScopeTasks[i].into # 1
<1> DEFINE of(f) == [j \in DOMAIN FrameScopes[f] |->
                       [depth |-> 0, id |-> FrameScopes[f][j], into |-> f, outer |-> j > 1]]
           ss == [f \in Frame |-> of(f)]
           all == FlattenSeq(ss)
           m == IF Len(all) < Budget THEN Len(all) ELSE Budget
           FirstTask == {x \in Task : x.depth = 0 /\ x.into \in Frame}
<1>1. ScopeTasks = SubSeq(all, 1, m)
  BY DEF ScopeTasks
<1>2. /\ Frame = 1 .. Len(FrameScopes) /\ Len(FrameScopes) \in Nat /\ Len(FrameScopes) >= 1
      /\ \A f \in Frame : FrameScopes[f] \in Seq(Scope) /\ f \in Nat
  BY ProgramShape, SomeFrame DEF Frame
<1>3. ASSUME NEW f \in Frame
      PROVE  /\ of(f) \in Seq(FirstTask) /\ Len(of(f)) = Len(FrameScopes[f])
             /\ \A x \in ToSet(of(f)) : x.into = f
             /\ \A j \in DOMAIN FrameScopes[f] :
                   of(f)[j] = [depth |-> 0, id |-> FrameScopes[f][j], into |-> f, outer |-> j > 1]
  <2> DEFINE scopes == FrameScopes[f]
             task(j) == [depth |-> 0, id |-> scopes[j], into |-> f, outer |-> j > 1]
  <2>1. scopes \in Seq(Scope) /\ DOMAIN scopes = 1 .. Len(scopes) /\ Len(scopes) \in Nat
    BY <1>2
  <2>2. \A j \in DOMAIN scopes : task(j) \in FirstTask /\ task(j).into = f
    <3>1. \A j \in DOMAIN scopes : scopes[j] \in Ids
      BY <2>1 DEF Ids
    <3> QED
      BY <1>3, <3>1 DEF Task
  <2>3. of(f) = [j \in 1 .. Len(scopes) |-> task(j)]
    BY <2>1
  <2> HIDE DEF scopes, task, FirstTask, of
  <2>4. of(f) \in [1 .. Len(scopes) -> FirstTask]
    BY <2>1, <2>2, <2>3
  <2>5. of(f) \in Seq(FirstTask) /\ Len(of(f)) = Len(scopes)
    BY <2>1, <2>4, SequenceOf
  <2>6. \A x \in ToSet(of(f)) : x.into = f
    BY <2>1, <2>2, <2>3 DEF ToSet
  <2>7. \A j \in DOMAIN scopes : of(f)[j] = task(j)
    BY <2>1, <2>3
  <2> QED
    BY <2>5, <2>6, <2>7 DEF scopes, task
<1> DEFINE n == Len(FrameScopes)
<1> HIDE DEF of, FirstTask
<1>4. ss \in Seq(Seq(FirstTask)) /\ Len(ss) = n /\ ss # <<>>
      /\ \A f \in Frame : ss[f] = of(f)
  <2>1. ss \in [1 .. n -> Seq(FirstTask)] /\ \A f \in Frame : ss[f] = of(f)
    BY <1>2, <1>3
  <2> HIDE DEF ss
  <2>2. ss \in Seq(Seq(FirstTask)) /\ Len(ss) = n
    BY <1>2, <2>1, SequenceOf
  <2>3. ss # <<>>
    BY <1>2, <2>2
  <2> QED
    BY <2>1, <2>2, <2>3
<1> HIDE DEF ss
<1>5. FlatOf(all, ss, n, FirstTask)
  BY <1>4, Flattened
<1>6. 1 \in Frame /\ ss[1] = of(1) /\ Len(ss[1]) = NumScopes
  BY <1>2, <1>3, <1>4 DEF NumScopes, Innermost
<1>7. \A f \in 2 .. n : \A x \in ToSet(ss[f]) : x.into # 1
  <2>1. \A f \in 2 .. n : f \in Frame /\ f # 1
    BY <1>2
  <2>2. \A f \in 2 .. n : \A x \in ToSet(of(f)) : x.into = f
    BY <1>3, <2>1
  <2> QED
    BY <1>4, <2>1, <2>2
<1>8. /\ all \in Seq(FirstTask) /\ NumScopes <= Len(all)
      /\ \A i \in 1 .. NumScopes : all[i] = ss[1][i]
      /\ \A i \in (NumScopes + 1) .. Len(all) : all[i].into # 1
  BY <1>5, <1>6, <1>7 DEF FlatOf
<1>9. \A i \in 1 .. NumScopes : all[i] = ScopeTask(i)
  <2>1. DOMAIN FrameScopes[1] = 1 .. NumScopes
    BY <1>2, <1>6 DEF NumScopes, Innermost
  <2> QED
    BY <1>3, <1>6, <1>8, <2>1 DEF ScopeTask, Innermost
<1> HIDE DEF all, n
<1>10. NumScopes \in Nat /\ NumScopes <= Budget /\ Budget \in Nat
  <2>1. program.budget \in Budgets
    BY DEF Programs
  <2>2. program.budget \in Nat /\ NumScopes <= program.budget
    BY <2>1, CaptureLimits DEF ScopesFit, NumScopes
  <2>3. NumScopes \in Nat
    BY <1>2, <1>6 DEF NumScopes, Innermost
  <2> QED
    BY <2>2, <2>3 DEF Budget
<1>11. m \in 0 .. Len(all) /\ NumScopes <= m /\ m \in Nat
  BY <1>8, <1>10
<1> HIDE DEF m
<1>12. /\ ScopeTasks \in Seq(FirstTask) /\ Len(ScopeTasks) = m
       /\ \A i \in 1 .. m : ScopeTasks[i] = all[i]
  BY <1>1, <1>8, <1>11, FirstOnes
<1>13. DOMAIN ScopeTasks = 1 .. m
  BY <1>12
<1>14. ASSUME NEW i \in DOMAIN ScopeTasks
       PROVE  /\ ScopeTasks[i] \in FirstTask
              /\ IF i <= NumScopes THEN ScopeTasks[i] = ScopeTask(i) ELSE ScopeTasks[i].into # 1
  <2>1. ScopeTasks[i] \in FirstTask /\ ScopeTasks[i] = all[i]
    BY <1>12, <1>13
  <2>2. i \in 1 .. NumScopes \/ (i \in (NumScopes + 1) .. Len(all) /\ ~(i <= NumScopes))
    BY <1>8, <1>10, <1>11, <1>13
  <2> QED
    BY <1>8, <1>9, <2>1, <2>2
<1>15. ScopeTasks \in Seq(Task)
  <2>1. FirstTask \subseteq Task
    BY DEF FirstTask
  <2> QED
    BY <1>12, <2>1
<1> QED
  BY <1>11, <1>12, <1>14, <1>15 DEF FirstTask

LEMMA CaptureStarts ==
    ASSUME ScopesFit, CaptureInit
    PROVE  CaptureInv
<1>1. program \in Programs
  BY DEF CaptureInit, Programs
<1> DEFINE own == [c \in Frame \cup Object |-> <<>>]
<1>2. capture = [tasks |-> ScopeTasks, made |-> {}, visited |-> 0, failed |-> FALSE,
                 own |-> own, done |-> FALSE]
  BY DEF CaptureInit
<1>3. /\ ScopeTasks \in Seq(Task) /\ NumScopes <= Len(ScopeTasks)
      /\ \A i \in DOMAIN ScopeTasks :
            /\ ScopeTasks[i].depth = 0 /\ ScopeTasks[i].into \in Frame
            /\ IF i <= NumScopes THEN ScopeTasks[i] = ScopeTask(i) ELSE ScopeTasks[i].into # 1
  BY <1>1, ScopesQueued
<1>4. own \in Owned /\ \A x \in Frame \cup Object : own[x] = <<>>
  <2>1. <<>> \in Seq(Entry)
    OBVIOUS
  <2> QED
    BY <2>1 DEF Owned
<1> HIDE DEF own
<1>5. capture \in Captures
  BY <1>2, <1>3, <1>4 DEF Captures
<1>6. /\ capture.tasks = ScopeTasks /\ capture.made = {} /\ capture.visited = 0
      /\ capture.own = own /\ ~capture.done
  BY <1>2
<1> DEFINE D == [o \in Object |-> 0]
<1>7. D \in [Object -> Nat]
  OBVIOUS
<1> HIDE DEF D
<1>8. Level(capture, D, 0)
  BY <1>3, <1>6 DEF Level
<1>9. Queued(capture, D)
  <2>1. \A i \in DOMAIN ScopeTasks : ScopeTasks[i].into \notin Object
    BY <1>3, SomeFrame
  <2> QED
    BY <1>4, <1>6, <2>1 DEF Queued
<1>10. ScopesFirst(capture)
  <2>1. DOMAIN ScopeTasks = 1 .. Len(ScopeTasks) /\ Len(ScopeTasks) \in Nat
    BY <1>3
  <2>2. NumScopes <= capture.visited + Len(capture.tasks)
    BY <1>3, <1>6, <2>1
  <2>3. \A i \in DOMAIN ScopeTasks : capture.visited + i = i
    BY <1>6, <2>1
  <2> QED
    BY <1>3, <1>6, <2>2, <2>3 DEF ScopesFirst
<1>11. ObjectsRead(capture, D, {})
  BY <1>6 DEF ObjectsRead
<1>12. LocalsRead(capture, D)
  <2>1. Innermost \in Seq(Scope)
    BY SomeFrame DEF Innermost
  <2>2. \A i \in DOMAIN Innermost : ~(i <= 0)
    BY <2>1
  <2>3. LocalsTo(0) = {}
    BY <2>2 DEF LocalsTo
  <2>4. capture.own[1] = <<>>
    BY <1>4, <1>6, SomeFrame
  <2> QED
    BY <1>6, <2>3, <2>4, NothingYet DEF LocalsRead
<1> QED
  BY <1>1, <1>5, <1>6, <1>7, <1>8, <1>9, <1>10, <1>11, <1>12 DEF CaptureInv, Sound

(* The program is never changed: what is said of a capture stays said. *)
LEMMA SameProgram ==
    ASSUME program' = program
    PROVE  /\ Budget' = Budget /\ CaptureDepth' = CaptureDepth
           /\ \A o : Reals(o)' = Reals(o)
           /\ \A m : LocalsTo(m)' = LocalsTo(m)
<1>1. Budget' = Budget /\ CaptureDepth' = CaptureDepth
  BY DEF Budget, CaptureDepth, SerializerDepth
<1>2. \A id, p : Really(id, p)' = Really(id, p) /\ (Skips(id, p)' <=> Skips(id, p))
  BY DEF Really, Redacted, Skips
<1>3. \A id : Props(id)' = Props(id)
  BY DEF Props
<1>4. \A id : Kept(id)' = Kept(id)
  BY <1>3 DEF Kept
<1>5. \A o : Reals(o)' = Reals(o)
  BY <1>2, <1>4 DEF Reals
<1>6. \A j : Hidden(1, j)' = Hidden(1, j)
  BY <1>3 DEF Hidden
<1>7. \A j : Bound(j)' = Bound(j)
  BY <1>2, <1>4, <1>6 DEF Bound
<1>8. \A m : LocalsTo(m)' = LocalsTo(m)
  BY <1>7 DEF LocalsTo
<1> QED
  BY <1>1, <1>5, <1>8

LEMMA Carried ==
    ASSUME program' = program, program \in Programs, capture' \in Captures,
           capture'.done => capture'.tasks = <<>>,
           ~capture'.failed =>
              \E D \in [Object -> Nat], d \in Nat :
                 Sound(capture', D, d) /\ ObjectsRead(capture', D, {}) /\ LocalsRead(capture', D)
    PROVE  CaptureInv'
<1>1. ASSUME NEW D, NEW d, NEW props, NEW reals
      PROVE  Covers(capture', D, d, props, reals) <=> Covers(capture, D, d, props, reals)'
  BY SameProgram DEF Covers, Match
<1> QED
  BY <1>1, SameProgram
     DEF CaptureInv, Programs, Sound, ObjectsRead, LocalsRead

LEMMA CaptureGoesOn ==
    ASSUME CutNamesAreFree, CaptureInv, [CaptureNext]_captureVars
    PROVE  CaptureInv'
<1>0. program \in Programs /\ capture \in Captures
  BY DEF CaptureInv
<1>1. CASE PropertiesRead
  <2> DEFINE t == Head(capture.tasks)
             c1 == ReadAll(t, Taken)
  <2>1. capture.tasks # <<>> /\ program' = program /\ capture' = c1
    BY <1>1 DEF PropertiesRead, ReadAll, Kept
  <2>2. /\ Taken \in Captures /\ Taken.failed = capture.failed /\ Taken.done = capture.done
    BY <1>0, <2>1, TakenType
  <2>3. ~capture.done
    BY <2>1 DEF CaptureInv
  <2>4. t \in Task
    <3>1. capture.tasks \in Seq(Task)
      BY <1>0 DEF Captures
    <3> QED
      BY <2>1, <3>1, RestOfQueue
  <2>5. Taken.failed \/ \E D : Reading(Taken, D, t, 0)
    <3> SUFFICES ASSUME ~capture.failed PROVE \E D : Reading(Taken, D, t, 0)
      BY <2>2
    <3>1. PICK D \in [Object -> Nat], d \in Nat :
             Sound(capture, D, d) /\ ObjectsRead(capture, D, {}) /\ LocalsRead(capture, D)
      BY DEF CaptureInv
    <3>2. Reading(Taken, D, t, 0)
      BY <1>0, <2>1, <3>1, TakenReads
    <3> QED
      BY <3>2
  <2> HIDE DEF t
  <2>6. /\ c1 \in Captures /\ c1.failed = Taken.failed /\ c1.done = Taken.done
        /\ ~Taken.failed => \E D : Reading(c1, D, t, Len(Kept(t.id)))
    BY <1>0, <2>2, <2>4, <2>5, AllRead
  <2> HIDE DEF c1
  <2>7. ASSUME ~c1.failed
        PROVE  \E D \in [Object -> Nat], d \in Nat :
                  Sound(c1, D, d) /\ ObjectsRead(c1, D, {}) /\ LocalsRead(c1, D)
    <3>1. PICK D : Reading(c1, D, t, Len(Kept(t.id)))
      BY <2>6, <2>7
    <3>2. /\ D \in [Object -> Nat] /\ Sound(c1, D, t.depth)
          /\ ObjectsRead(c1, D, {}) /\ LocalsRead(c1, D)
      BY <1>0, <2>4, <2>6, <3>1, ReadDone
    <3>3. t.depth \in Nat
      BY <2>4 DEF Task
    <3> QED
      BY <3>2, <3>3
  <2> QED
    BY <1>0, <2>1, <2>2, <2>3, <2>6, <2>7, Carried
<1>2. CASE PropertiesFailed
  <2>1. capture.tasks # <<>> /\ program' = program /\ capture' = [Taken EXCEPT !.failed = TRUE]
    BY <1>2 DEF PropertiesFailed
  <2>2. capture' \in Captures /\ capture'.failed /\ capture'.done = capture.done
    BY <1>0, <2>1, TakenType
  <2>3. ~capture.done
    BY <2>1 DEF CaptureInv
  <2> QED
    BY <1>0, <2>1, <2>2, <2>3, Carried
<1>3. CASE FinishCapture
  <2> DEFINE c1 == [capture EXCEPT !.done = TRUE]
  <2>1. capture.tasks = <<>> /\ program' = program /\ capture' = c1
    BY <1>3 DEF FinishCapture
  <2>2. /\ c1 \in Captures /\ c1.tasks = capture.tasks /\ c1.made = capture.made
        /\ c1.visited = capture.visited /\ c1.failed = capture.failed /\ c1.own = capture.own
    BY <1>0 DEF Captures
  <2> HIDE DEF c1
  <2>3. ASSUME ~c1.failed
        PROVE  \E D \in [Object -> Nat], d \in Nat :
                  Sound(c1, D, d) /\ ObjectsRead(c1, D, {}) /\ LocalsRead(c1, D)
    <3>1. PICK D \in [Object -> Nat], d \in Nat :
             Sound(capture, D, d) /\ ObjectsRead(capture, D, {}) /\ LocalsRead(capture, D)
      BY <2>2, <2>3 DEF CaptureInv
    <3>2. Sound(c1, D, d)
      BY <2>2, <3>1 DEF Sound, Level, Queued, ScopesFirst, ForObject, Awaited
    <3>3. \A e, props, reals : Covers(capture, D, e, props, reals) => Covers(c1, D, e, props, reals)
      BY <2>2 DEF Covers, Match
    <3>4. ObjectsRead(c1, D, {}) /\ LocalsRead(c1, D)
      BY <2>2, <3>1, <3>3 DEF ObjectsRead, LocalsRead, Awaited
    <3> QED
      BY <3>2, <3>4
  <2> QED
    BY <1>0, <2>1, <2>2, <2>3, Carried
<1>4. CASE UNCHANGED captureVars
  <2>1. program' = program /\ capture' = capture
    BY <1>4 DEF captureVars
  <2> QED
    BY <1>0, <2>1, Carried DEF CaptureInv
<1> QED
  BY <1>1, <1>2, <1>3, <1>4 DEF CaptureNext

-----------------------------------------------------------------------------
(* Paths, a segment at a time *)

Start == Value("object", 1)
Ended == Value("ended", <<>>)
Values == Held \cup {Value("object", f) : f \in Frame} \cup {Missing, RedactedPath, Ended}

DotSegment(own, x, key) ==
    IF x.t \in {"truncated", "missing"} THEN x ELSE Descend(own, x, key)
RefSegment(own, x, key) ==
    IF x.t \in {"missing", "redacted", "ended"} THEN x
    ELSE IF Redacted(key) THEN RedactedPath
    ELSE IF x.t = "truncated" THEN Ended
    ELSE Descend(own, x, key)

DotSteps(g, own, path) ==
    /\ g[0] = Start /\ \A k \in 0 .. Len(path) : g[k] \in Values
    /\ \A k \in 0 .. (Len(path) - 1) : g[k + 1] = DotSegment(own, g[k], path[k + 1])
RefSteps(g, own, path) ==
    /\ g[0] = Start /\ \A k \in 0 .. Len(path) : g[k] \in Values
    /\ \A k \in 0 .. (Len(path) - 1) : g[k + 1] = RefSegment(own, g[k], path[k + 1])

(* A property with the key is found in the container, and Get finds one. *)
LEMMA Found ==
    ASSUME NEW props, NEW key, Has(props, key)
    PROVE  \E e \in ToSet(props) : e.key = key /\ Get(props, key) = e.val
<1> DEFINE i == CHOOSE i \in DOMAIN props : props[i].key = key
<1>1. \E j \in DOMAIN props : props[j].key = key
  BY DEF Has, Keys
<1>2. i \in DOMAIN props /\ props[i].key = key
  BY <1>1
<1>3. Get(props, key) = props[i].val
  BY DEF Get
<1> HIDE DEF i
<1> QED
  BY <1>2, <1>3 DEF ToSet

LEMMA DescendType ==
    ASSUME NEW own, own \in Owned, NEW x, x \in Values, NEW key
    PROVE  Descend(own, x, key) \in Values
<1>1. CASE x.t \in {"object", "empty"} /\ Has(PropsOf(own, x), key)
  <2> DEFINE props == PropsOf(own, x)
  <2>1. PICK e \in ToSet(props) : Get(props, key) = e.val
    BY <1>1, Found
  <2>2. x.t = "object"
    BY <1>1 DEF PropsOf, Has, Keys
  <2>3. x.of \in Frame \cup Object
    BY <2>2 DEF Values, Held, Value, Truncated, Undefined, Missing, RedactedPath, Ended
  <2>4. props \in Seq(Entry)
    BY <2>2, <2>3 DEF PropsOf, Owned
  <2> HIDE DEF props
  <2>5. ToSet(props) \subseteq Entry
    BY <2>4, Elements
  <2>6. e.val \in Held
    BY <2>1, <2>5 DEF Entry
  <2> QED
    BY <1>1, <2>1, <2>6 DEF Descend, Values, props
<1>2. CASE ~(x.t \in {"object", "empty"} /\ Has(PropsOf(own, x), key))
  BY <1>2 DEF Descend, Values
<1> QED
  BY <1>1, <1>2

LEMMA DotChain ==
    ASSUME NEW own, own \in Owned, NEW path, path \in Seq(Key)
    PROVE  \E g : DotSteps(g, own, path) /\ ResolveDotPath(own, path) = g[Len(path)]
<1> DEFINE n == Len(path)
           Step(x, key) == DotSegment(own, x, key)
           F == [q \in (1 .. n) \X Values |-> Step(q[2], path[q[1]])]
           Iter(h) == h = [s \in SUBSET (DOMAIN path) |->
                              IF s = {} THEN Start ELSE Step(h[s \ {Max(s)}], path[Max(s)])]
           it == CHOOSE h : Iter(h)
           g == [k \in 0 .. n |-> it[1 .. k]]
<1>1. n \in Nat /\ DOMAIN path = 1 .. n /\ Start \in Values
  BY SomeFrame DEF Start, Values
<1>2. \A x \in Values : \A key : Step(x, key) \in Values
  <2>1. Missing \in Values /\ RedactedPath \in Values /\ Ended \in Values
    BY DEF Values
  <2> QED
    BY <2>1, DescendType DEF DotSegment
<1> HIDE DEF Step
<1>3. ResolveDotPath(own, path) = it[DOMAIN path]
  BY DEF ResolveDotPath, FoldLeft, MapThenFoldSet, Step, DotSegment, Start
<1>4. StepOf(F, n, Values) /\ \A k \in 1 .. n, x \in Values : F[<<k, x>>] = Step(x, path[k])
  BY <1>1, <1>2 DEF StepOf
<1> HIDE DEF F
<1>5. PICK h : FoldTable(h, F, Start, n, Values)
  BY <1>1, <1>4, FoldExists
<1>6. Iter(h)
  <2>1. ASSUME NEW s \in SUBSET (1 .. n)
        PROVE  h[s] = IF s = {} THEN Start ELSE Step(h[s \ {Max(s)}], path[Max(s)])
    <3>1. CASE s = {}
      BY <1>5, <3>1 DEF FoldTable, FoldBy
    <3>2. CASE s # {}
      <4>1. Max(s) \in 1 .. n /\ s \ {Max(s)} \in SUBSET (1 .. n)
        BY <1>1, <3>2, LastPlace
      <4>2. h[s \ {Max(s)}] \in Values
        BY <1>5, <4>1 DEF FoldTable
      <4>3. h[s] = F[<<Max(s), h[s \ {Max(s)}]>>]
        BY <1>5, <3>2 DEF FoldTable, FoldBy
      <4> QED
        BY <1>4, <3>2, <4>1, <4>2, <4>3
    <3> QED
      BY <3>1, <3>2
  <2>2. h \in [SUBSET (1 .. n) -> Values]
    BY <1>5 DEF FoldTable
  <2> HIDE DEF n
  <2> QED
    BY <1>1, <2>1, <2>2
<1>7. Iter(it)
  BY <1>6
<1> HIDE DEF it
<1>8. \A s \in SUBSET (1 .. n) :
         it[s] = IF s = {} THEN Start ELSE Step(it[s \ {Max(s)}], path[Max(s)])
  BY <1>1, <1>7, Zenon
<1>9. it[1 .. 0] = Start
  <2>1. 1 .. 0 = {} /\ {} \in SUBSET (1 .. n)
    OBVIOUS
  <2> QED
    BY <1>8, <2>1, Zenon
<1>10. ASSUME NEW k \in 0 .. (n - 1) PROVE it[1 .. (k + 1)] = Step(it[1 .. k], path[k + 1])
  <2>1. /\ 1 .. (k + 1) \in SUBSET (1 .. n) /\ 1 .. (k + 1) # {}
        /\ Max(1 .. (k + 1)) = k + 1 /\ (1 .. (k + 1)) \ {k + 1} = 1 .. k
    BY <1>1, OneMore
  <2> DEFINE s == 1 .. (k + 1)
  <2>2. it[s] = Step(it[s \ {Max(s)}], path[Max(s)])
    <3>1. s \in SUBSET (1 .. n) /\ s # {}
      BY <2>1
    <3> HIDE DEF s
    <3> QED
      BY <1>8, <3>1, Zenon
  <2> QED
    BY <2>1, <2>2
<1>11. \A k \in 0 .. n : g[k] = it[1 .. k]
  OBVIOUS
<1> DEFINE G == {k \in 0 .. n : g[k] \in Values}
<1>12. ASSUME NEW k \in 0 .. (n - 1)
       PROVE  k \in 0 .. n /\ k + 1 \in 0 .. n /\ g[k + 1] = Step(g[k], path[k + 1])
  <2>1. k \in 0 .. n /\ k + 1 \in 0 .. n
    BY <1>1
  <2> HIDE DEF g
  <2> QED
    BY <1>10, <1>11, <2>1
<1>13. 0 \in 0 .. n /\ n \in 0 .. n /\ g[0] = Start /\ g[n] = it[DOMAIN path]
  <2>1. 0 \in 0 .. n /\ n \in 0 .. n
    BY <1>1
  <2> HIDE DEF g
  <2> QED
    BY <1>1, <1>9, <1>11, <2>1
<1> HIDE DEF g
<1>14. Inductive(G, n)
  <2> HIDE DEF n
  <2> QED
    BY <1>1, <1>2, <1>12, <1>13 DEF Inductive
<1>15. \A k \in 0 .. n : g[k] \in Values
  <2>1. 0 .. n \subseteq G
    BY <1>1, <1>14, Induction
  <2> QED
    BY <2>1
<1>16. DotSteps(g, own, path)
  BY <1>12, <1>13, <1>15 DEF DotSteps, Step
<1> QED
  BY <1>3, <1>13, <1>16

LEMMA RefChain ==
    ASSUME NEW own, own \in Owned, NEW path, path \in Seq(Key)
    PROVE  \E g : RefSteps(g, own, path) /\ ResolvePath(own, path) = IF g[Len(path)].t = "ended" THEN Truncated
                                                               ELSE g[Len(path)]
<1> DEFINE n == Len(path)
           Step(x, key) == RefSegment(own, x, key)
           F == [q \in (1 .. n) \X Values |-> Step(q[2], path[q[1]])]
           Iter(h) == h = [s \in SUBSET (DOMAIN path) |->
                              IF s = {} THEN Start ELSE Step(h[s \ {Max(s)}], path[Max(s)])]
           it == CHOOSE h : Iter(h)
           g == [k \in 0 .. n |-> it[1 .. k]]
<1>1. n \in Nat /\ DOMAIN path = 1 .. n /\ Start \in Values
  BY SomeFrame DEF Start, Values
<1>2. \A x \in Values : \A key : Step(x, key) \in Values
  <2>1. Missing \in Values /\ RedactedPath \in Values /\ Ended \in Values
    BY DEF Values
  <2> QED
    BY <2>1, DescendType DEF RefSegment
<1> HIDE DEF Step
<1>3. ResolvePath(own, path) = IF it[DOMAIN path].t = "ended" THEN Truncated
                                ELSE it[DOMAIN path]
  BY DEF ResolvePath, FoldLeft, MapThenFoldSet, Step, RefSegment, Start, Ended
<1>4. StepOf(F, n, Values) /\ \A k \in 1 .. n, x \in Values : F[<<k, x>>] = Step(x, path[k])
  BY <1>1, <1>2 DEF StepOf
<1> HIDE DEF F
<1>5. PICK h : FoldTable(h, F, Start, n, Values)
  BY <1>1, <1>4, FoldExists
<1>6. Iter(h)
  <2>1. ASSUME NEW s \in SUBSET (1 .. n)
        PROVE  h[s] = IF s = {} THEN Start ELSE Step(h[s \ {Max(s)}], path[Max(s)])
    <3>1. CASE s = {}
      BY <1>5, <3>1 DEF FoldTable, FoldBy
    <3>2. CASE s # {}
      <4>1. Max(s) \in 1 .. n /\ s \ {Max(s)} \in SUBSET (1 .. n)
        BY <1>1, <3>2, LastPlace
      <4>2. h[s \ {Max(s)}] \in Values
        BY <1>5, <4>1 DEF FoldTable
      <4>3. h[s] = F[<<Max(s), h[s \ {Max(s)}]>>]
        BY <1>5, <3>2 DEF FoldTable, FoldBy
      <4> QED
        BY <1>4, <3>2, <4>1, <4>2, <4>3
    <3> QED
      BY <3>1, <3>2
  <2>2. h \in [SUBSET (1 .. n) -> Values]
    BY <1>5 DEF FoldTable
  <2> HIDE DEF n
  <2> QED
    BY <1>1, <2>1, <2>2
<1>7. Iter(it)
  BY <1>6
<1> HIDE DEF it
<1>8. \A s \in SUBSET (1 .. n) :
         it[s] = IF s = {} THEN Start ELSE Step(it[s \ {Max(s)}], path[Max(s)])
  BY <1>1, <1>7, Zenon
<1>9. it[1 .. 0] = Start
  <2>1. 1 .. 0 = {} /\ {} \in SUBSET (1 .. n)
    OBVIOUS
  <2> QED
    BY <1>8, <2>1, Zenon
<1>10. ASSUME NEW k \in 0 .. (n - 1) PROVE it[1 .. (k + 1)] = Step(it[1 .. k], path[k + 1])
  <2>1. /\ 1 .. (k + 1) \in SUBSET (1 .. n) /\ 1 .. (k + 1) # {}
        /\ Max(1 .. (k + 1)) = k + 1 /\ (1 .. (k + 1)) \ {k + 1} = 1 .. k
    BY <1>1, OneMore
  <2> DEFINE s == 1 .. (k + 1)
  <2>2. it[s] = Step(it[s \ {Max(s)}], path[Max(s)])
    <3>1. s \in SUBSET (1 .. n) /\ s # {}
      BY <2>1
    <3> HIDE DEF s
    <3> QED
      BY <1>8, <3>1, Zenon
  <2> QED
    BY <2>1, <2>2
<1>11. \A k \in 0 .. n : g[k] = it[1 .. k]
  OBVIOUS
<1> DEFINE G == {k \in 0 .. n : g[k] \in Values}
<1>12. ASSUME NEW k \in 0 .. (n - 1)
       PROVE  k \in 0 .. n /\ k + 1 \in 0 .. n /\ g[k + 1] = Step(g[k], path[k + 1])
  <2>1. k \in 0 .. n /\ k + 1 \in 0 .. n
    BY <1>1
  <2> HIDE DEF g
  <2> QED
    BY <1>10, <1>11, <2>1
<1>13. 0 \in 0 .. n /\ n \in 0 .. n /\ g[0] = Start /\ g[n] = it[DOMAIN path]
  <2>1. 0 \in 0 .. n /\ n \in 0 .. n
    BY <1>1
  <2> HIDE DEF g
  <2> QED
    BY <1>1, <1>9, <1>11, <2>1
<1> HIDE DEF g
<1>14. Inductive(G, n)
  <2> HIDE DEF n
  <2> QED
    BY <1>1, <1>2, <1>12, <1>13 DEF Inductive
<1>15. \A k \in 0 .. n : g[k] \in Values
  <2>1. 0 .. n \subseteq G
    BY <1>1, <1>14, Induction
  <2> QED
    BY <2>1
<1>16. RefSteps(g, own, path)
  BY <1>12, <1>13, <1>15 DEF RefSteps, Step
<1> QED
  BY <1>3, <1>13, <1>16

-----------------------------------------------------------------------------
(* The copy and the program, side by side *)

(* Nothing is left to read: the copy of every object agrees with what can  *)
(* be read of the program, an object at depth d or less in a container at  *)
(* depth d - 1.                                                             *)
Agrees(D, d, got, want) ==
    \/ got = want /\ (want.t = "object" => want.of \in capture.made /\ D[want.of] <= d + 1)
    \/ got = Truncated /\ Exhausted /\ want.t \in {"undefined", "scalar", "object"}
    \/ got.t = "empty" /\ CaptureDepth <= d
Side(D, d, x) ==
    /\ Keys(capture.own[x]) = Keys(ReadableOwn[x])
    /\ \A key \in Keys(ReadableOwn[x]) :
          Agrees(D, d, Get(capture.own[x], key), Get(ReadableOwn[x], key))
Copy(D) ==
    /\ D \in [Object -> Nat] /\ Side(D, 0, 1)
    /\ \A o \in capture.made : o \in Object /\ Side(D, D[o], o)

ArePropertiesOf(reals) == \A r \in reals : \E id, p : r = Really(id, p)

LEMMA CoversSide ==
    ASSUME program \in Programs, capture \in Captures, capture.tasks = <<>>,
           NEW D, NEW d, NEW x, NEW reals, ToSet(ReadableOwn[x]) = reals,
           ArePropertiesOf(reals),
           Covers(capture, D, d, capture.own[x], reals)
    PROVE  Side(D, d, x)
<1>1. \A s : Keys(s) = {e.key : e \in ToSet(s)}
  BY DEF Keys, ToSet
<1>2. Keys(capture.own[x]) = Keys(ReadableOwn[x])
  BY <1>1 DEF Covers
<1>3. ASSUME NEW key \in Keys(ReadableOwn[x])
      PROVE  Agrees(D, d, Get(capture.own[x], key), Get(ReadableOwn[x], key))
  <2>1. PICK e \in ToSet(capture.own[x]) : e.key = key /\ Get(capture.own[x], key) = e.val
    BY <1>2, <1>3, Found DEF Has
  <2>2. PICK r \in ToSet(ReadableOwn[x]) : r.key = key /\ Get(ReadableOwn[x], key) = r.val
    BY <1>3, Found DEF Has
  <2>3. Match(capture, D, d, e.val, r.val)
    BY <2>1, <2>2 DEF Covers
  <2>4. r.val.t \in {"undefined", "scalar", "object"}
    BY <2>2 DEF ArePropertiesOf, Really, Undefined, Value
  <2>5. capture.visited + Len(capture.tasks) = capture.visited
    BY DEF Captures
  <2>6. Budget <= capture.visited => Exhausted
    <3>1. program.budget \in Budgets /\ capture.visited \in Nat
      BY DEF Programs, Captures
    <3>2. program.budget \in Nat
      BY <3>1, CaptureLimits
    <3> QED
      BY <3>1, <3>2 DEF Exhausted, Budget
  <2> QED
    BY <2>1, <2>2, <2>3, <2>4, <2>5, <2>6 DEF Match, Agrees
<1> QED
  BY <1>2, <1>3 DEF Side

LEMMA AllCopied ==
    ASSUME CaptureInv, Captured
    PROVE  \E D : Copy(D)
<1>1. program \in Programs /\ capture \in Captures /\ capture.tasks = <<>> /\ ~capture.failed
  BY DEF CaptureInv, Captured
<1>2. PICK D \in [Object -> Nat], d \in Nat :
         Sound(capture, D, d) /\ ObjectsRead(capture, D, {}) /\ LocalsRead(capture, D)
  BY <1>1 DEF CaptureInv
<1>3. ASSUME NEW o \in capture.made PROVE o \in Object /\ Side(D, D[o], o)
  <2>1. o \in Object /\ o \in Ids
    BY <1>1 DEF Captures, Ids
  <2>2. Covers(capture, D, D[o], capture.own[o], Reals(o))
    BY <1>1, <1>2 DEF ObjectsRead, Awaited
  <2>3. ToSet(ReadableOwn[o]) = Reals(o)
    BY <1>1, <2>1, ReadableEntries
  <2>4. ArePropertiesOf(Reals(o))
    BY DEF ArePropertiesOf, Reals
  <2>5. Side(D, D[o], o)
    BY <1>1, <2>2, <2>3, <2>4, CoversSide
  <2> QED
    BY <2>1, <2>5
<1>4. Side(D, 0, 1)
  <2>1. Innermost \in Seq(Scope)
    BY SomeFrame DEF Innermost
  <2>2. \A i \in DOMAIN Innermost : Innermost[i] \in Ids /\ i <= NumScopes /\ i \in Nat
    BY <2>1 DEF Ids, NumScopes
  <2>3. NumScopes <= capture.visited /\ capture.visited \in Nat /\ NumScopes \in Nat
    BY <1>1, <1>2, <2>1 DEF Sound, ScopesFirst, Captures, NumScopes
  <2>4. \A i \in DOMAIN Innermost : i <= capture.visited
    BY <2>2, <2>3
  <2> DEFINE all == UNION {Bound(j) : j \in DOMAIN Innermost}
  <2>5. LocalsTo(capture.visited) = all
    BY <2>4 DEF LocalsTo
  <2>6. Covers(capture, D, 0, capture.own[1], all)
    BY <1>2, <2>5 DEF LocalsRead
  <2>7. ToSet(ReadableOwn[1]) = all
    BY <1>1, ReadableEntries
  <2>8. ArePropertiesOf(all)
    BY DEF ArePropertiesOf, Bound
  <2> HIDE DEF all
  <2> QED
    BY <1>1, <2>6, <2>7, <2>8, CoversSide
<1> QED
  BY <1>2, <1>3, <1>4 DEF Copy

-----------------------------------------------------------------------------
(* The two walks along a path *)

(* After k segments the two walks are at the same value, at most k levels  *)
(* deep, or the one in the copy is at something the budget left out.       *)
Together(D, k, got, want) ==
    got = want /\ (want.t = "object" => \/ want.of = 1
                                        \/ want.of \in capture.made /\ D[want.of] <= k)

LEMMA BothDescend ==
    ASSUME program \in Programs, NEW D, Copy(D), NEW k, k \in Nat, k < CaptureDepth,
           NEW x, Together(D, k, x, x), NEW key,
           NEW got, got = Descend(capture.own, x, key),
           NEW want, want = Descend(ReadableOwn, x, key)
    PROVE  \/ Together(D, k + 1, got, want)
           \/ got = Truncated /\ Exhausted /\ want.t \in {"undefined", "scalar", "object"}
<1>1. Missing.t = "missing"
  BY DEF Missing, Value
<1>2. CASE x.t # "object"
  <2>1. x.t = "empty" => ~Has(PropsOf(capture.own, x), key) /\ ~Has(PropsOf(ReadableOwn, x), key)
    BY DEF PropsOf, Has, Keys
  <2>2. got = Missing /\ want = Missing
    BY <1>2, <2>1 DEF Descend
  <2> QED
    BY <1>1, <2>2 DEF Together
<1>3. CASE x.t = "object"
  <2> DEFINE o == x.of
             d == IF o = 1 THEN 0 ELSE D[o]
  <2>1. Side(D, d, o) /\ d \in Nat /\ d <= k
    BY <1>3, SomeFrame DEF Together, Copy
  <2>2. PropsOf(capture.own, x) = capture.own[o] /\ PropsOf(ReadableOwn, x) = ReadableOwn[o]
    BY <1>3 DEF PropsOf
  <2> HIDE DEF o, d
  <2>3. CASE key \notin Keys(ReadableOwn[o])
    <3>1. got = Missing /\ want = Missing
      BY <2>1, <2>2, <2>3 DEF Descend, Has, Side
    <3> QED
      BY <1>1, <3>1 DEF Together
  <2>4. CASE key \in Keys(ReadableOwn[o])
    <3>1. got = Get(capture.own[o], key) /\ want = Get(ReadableOwn[o], key)
      BY <1>3, <2>1, <2>2, <2>4 DEF Descend, Has, Side
    <3>2. Agrees(D, d, got, want)
      BY <2>1, <2>4, <3>1 DEF Side
    <3>3. ~(CaptureDepth <= d)
      <4>1. CaptureDepth \in Int
        <5>1. program.depth \in Depths /\ program.watch \in WatchPaths
          BY DEF Programs
        <5>2. program.depth \in Nat /\ program.watch \in Seq(Key)
          BY <5>1, CaptureLimits, ProgramShape
        <5> QED
          BY <5>2 DEF CaptureDepth, SerializerDepth
      <4> QED
        BY <2>1, <4>1
    <3>4. \A u : u \in capture.made => D[u] \in Nat
      BY DEF Copy
    <3>5. CASE got = want /\ (want.t = "object" => want.of \in capture.made /\ D[want.of] <= d + 1)
      BY <2>1, <3>4, <3>5 DEF Together
    <3> QED
      BY <3>2, <3>3, <3>5 DEF Agrees
  <2> QED
    BY <2>3, <2>4
<1> QED
  BY <1>2, <1>3

DotTogether(D, k, got, want) == Together(D, k, got, want) \/ (got = Truncated /\ Exhausted)

LEMMA DotStep ==
    ASSUME program \in Programs, NEW D, Copy(D), NEW k, k \in Nat, k < CaptureDepth,
           NEW x, NEW y, DotTogether(D, k, x, y), NEW key,
           NEW got, got = DotSegment(capture.own, x, key),
           NEW want, want = DotSegment(ReadableOwn, y, key)
    PROVE  DotTogether(D, k + 1, got, want)
<1>1. CASE x = Truncated /\ Exhausted
  BY <1>1 DEF DotSegment, DotTogether, Truncated, Value
<1>2. CASE Together(D, k, x, y)
  <2>1. x = y /\ Together(D, k, x, x)
    BY <1>2 DEF Together
  <2>2. CASE x.t \in {"truncated", "missing"}
    BY <2>1, <2>2 DEF DotSegment, DotTogether, Together
  <2>3. CASE x.t \notin {"truncated", "missing"}
    <3>1. got = Descend(capture.own, x, key) /\ want = Descend(ReadableOwn, x, key)
      BY <2>1, <2>3 DEF DotSegment
    <3> QED
      BY <2>1, <3>1, BothDescend DEF DotTogether
  <2> QED
    BY <2>2, <2>3
<1> QED
  BY <1>1, <1>2 DEF DotTogether

RefTogether(D, k, got, want) ==
    \/ Together(D, k, got, want)
    \/ got = Truncated /\ Exhausted /\ want.t \in {"undefined", "scalar", "object"}
    \/ got = Ended /\ Exhausted

LEMMA RefStep ==
    ASSUME program \in Programs, NEW D, Copy(D), NEW k, k \in Nat, k < CaptureDepth,
           NEW x, NEW y, RefTogether(D, k, x, y), NEW key,
           NEW got, got = RefSegment(capture.own, x, key),
           NEW want, want = RefSegment(ReadableOwn, y, key)
    PROVE  RefTogether(D, k + 1, got, want)
<1>0. /\ Ended.t = "ended" /\ Truncated.t = "truncated" /\ RedactedPath.t = "redacted"
  BY DEF Ended, Truncated, RedactedPath, Value
<1>1. CASE x = Truncated /\ Exhausted /\ y.t \in {"undefined", "scalar", "object"}
  <2>1. CASE Redacted(key)
    BY <1>0, <1>1, <2>1 DEF RefSegment, RefTogether, Together
  <2>2. CASE ~Redacted(key)
    BY <1>0, <1>1, <2>2 DEF RefSegment, RefTogether
  <2> QED
    BY <2>1, <2>2
<1>2. CASE x = Ended /\ Exhausted
  BY <1>0, <1>2 DEF RefSegment, RefTogether
<1>3. CASE Together(D, k, x, y)
  <2>1. x = y /\ Together(D, k, x, x)
    BY <1>3 DEF Together
  <2>2. CASE x.t \in {"missing", "redacted", "ended"}
    BY <2>1, <2>2 DEF RefSegment, RefTogether, Together
  <2>3. CASE x.t \notin {"missing", "redacted", "ended"} /\ (Redacted(key) \/ x.t = "truncated")
    BY <1>0, <2>1, <2>3 DEF RefSegment, RefTogether, Together
  <2>4. CASE x.t \notin {"missing", "redacted", "ended"} /\ ~Redacted(key) /\ x.t # "truncated"
    <3>1. got = Descend(capture.own, x, key) /\ want = Descend(ReadableOwn, x, key)
      BY <2>1, <2>4 DEF RefSegment
    <3> QED
      BY <2>1, <3>1, BothDescend DEF RefTogether
  <2> QED
    BY <2>2, <2>3, <2>4
<1> QED
  BY <1>1, <1>2, <1>3 DEF RefTogether

Agree(got, want) == got = want \/ (got = Truncated /\ Exhausted)

LEMMA PathsAgree ==
    ASSUME CaptureInv, Captured
    PROVE  /\ Agree(ResolveDotPath(capture.own, program.watch),
                    ResolveDotPath(ReadableOwn, program.watch))
           /\ Agree(ResolvePath(capture.own, program.watch),
                    ResolvePath(ReadableOwn, program.watch))
<1> DEFINE path == program.watch
           n == Len(path)
<1>1. program \in Programs /\ capture \in Captures /\ capture.own \in Owned
  BY DEF CaptureInv, Captures
<1>2. path \in Seq(Key) /\ n \in Nat
  <2>1. path \in WatchPaths
    BY <1>1 DEF Programs
  <2>2. path \in Seq(Key)
    BY <2>1, ProgramShape
  <2> QED
    BY <2>2
<1>3. ReadableOwn \in Owned
  BY <1>1, ReadableEntries
<1>4. PICK D : Copy(D)
  BY AllCopied
<1>5. \A k \in 0 .. (n - 1) : k \in Nat /\ k < CaptureDepth /\ k \in 0 .. n /\ k + 1 \in 0 .. n
  <2>1. program.depth \in Nat
    BY <1>1, CaptureLimits DEF Programs
  <2>2. n <= CaptureDepth /\ CaptureDepth \in Nat
    BY <1>2, <2>1 DEF CaptureDepth, SerializerDepth
  <2> QED
    BY <1>2, <2>2
<1>6. Together(D, 0, Start, Start)
  BY DEF Together, Start, Value
<1>7. 0 \in 0 .. n /\ n \in 0 .. n
  BY <1>2
<1>8. Agree(ResolveDotPath(capture.own, path), ResolveDotPath(ReadableOwn, path))
  <2>1. PICK g : DotSteps(g, capture.own, path) /\ ResolveDotPath(capture.own, path) = g[Len(path)]
    BY <1>1, <1>2, DotChain
  <2>2. PICK h : DotSteps(h, ReadableOwn, path) /\ ResolveDotPath(ReadableOwn, path) = h[Len(path)]
    BY <1>2, <1>3, DotChain
  <2> DEFINE G == {k \in 0 .. n : DotTogether(D, k, g[k], h[k])}
  <2>3. ASSUME NEW k \in 0 .. (n - 1), k \in G PROVE k + 1 \in G
    <3>1. /\ g[k + 1] = DotSegment(capture.own, g[k], path[k + 1])
          /\ h[k + 1] = DotSegment(ReadableOwn, h[k], path[k + 1])
      BY <2>1, <2>2 DEF DotSteps
    <3>2. DotTogether(D, k, g[k], h[k])
      BY <2>3
    <3>3. DotTogether(D, k + 1, g[k + 1], h[k + 1])
      BY <1>1, <1>4, <1>5, <3>1, <3>2, DotStep
    <3> QED
      BY <1>5, <3>3
  <2>4. 0 \in G
    BY <1>6, <1>7, <2>1, <2>2 DEF DotSteps, DotTogether
  <2>5. Inductive(G, n)
    BY <2>3, <2>4 DEF Inductive
  <2>6. DotTogether(D, n, g[n], h[n])
    <3>1. n \in G
      BY <1>2, <1>7, <2>5, Induction
    <3> QED
      BY <3>1
  <2> QED
    BY <2>1, <2>2, <2>6 DEF DotTogether, Together, Agree
<1>9. Agree(ResolvePath(capture.own, path), ResolvePath(ReadableOwn, path))
  <2>1. PICK g : /\ RefSteps(g, capture.own, path)
                 /\ ResolvePath(capture.own, path) = IF g[Len(path)].t = "ended" THEN Truncated
                                                     ELSE g[Len(path)]
    BY <1>1, <1>2, RefChain
  <2>2. PICK h : /\ RefSteps(h, ReadableOwn, path)
                 /\ ResolvePath(ReadableOwn, path) = IF h[Len(path)].t = "ended" THEN Truncated
                                                     ELSE h[Len(path)]
    BY <1>2, <1>3, RefChain
  <2> DEFINE G == {k \in 0 .. n : RefTogether(D, k, g[k], h[k])}
  <2>3. ASSUME NEW k \in 0 .. (n - 1), k \in G PROVE k + 1 \in G
    <3>1. /\ g[k + 1] = RefSegment(capture.own, g[k], path[k + 1])
          /\ h[k + 1] = RefSegment(ReadableOwn, h[k], path[k + 1])
      BY <2>1, <2>2 DEF RefSteps
    <3>2. RefTogether(D, k, g[k], h[k])
      BY <2>3
    <3>3. RefTogether(D, k + 1, g[k + 1], h[k + 1])
      BY <1>1, <1>4, <1>5, <3>1, <3>2, RefStep
    <3> QED
      BY <1>5, <3>3
  <2>4. 0 \in G
    BY <1>6, <1>7, <2>1, <2>2 DEF RefSteps, RefTogether
  <2>5. Inductive(G, n)
    BY <2>3, <2>4 DEF Inductive
  <2>6. RefTogether(D, n, g[n], h[n])
    <3>1. n \in G
      BY <1>2, <1>7, <2>5, Induction
    <3> QED
      BY <3>1
  <2>7. Truncated.t # "ended" /\ Ended.t = "ended"
    BY DEF Truncated, Ended, Value
  <2> QED
    BY <2>1, <2>2, <2>6, <2>7 DEF RefTogether, Together, Agree
<1> QED
  BY <1>8, <1>9

-----------------------------------------------------------------------------
(* Theorems *)

(* Whatever the program and its limits, the copy that capturePaused has     *)
(* made so far is sound (capture.ts): what is queued is queued once and     *)
(* breadth first, and every container that has been read holds a value for  *)
(* each property that can be read, the program's own value unless the       *)
(* budget or the depth ended.                                               *)
THEOREM CaptureIsSound ==
    ASSUME CutNamesAreFree, ScopesFit
    PROVE  CaptureSpec => []CaptureInv
<1>1. CaptureInit => CaptureInv
  BY CaptureStarts
<1>2. CaptureInv /\ [CaptureNext]_captureVars => CaptureInv'
  BY CaptureGoesOn
<1> QED
  BY <1>1, <1>2, PTL DEF CaptureSpec

(* A path of any length that a condition, a watch or an expression names   *)
(* leads, in the copy, to what it leads to in the program as far as that    *)
(* can be read, however deep, unless the budget ended (safe-values.ts and   *)
(* safe-expression.ts on what capture.ts made).                             *)
THEOREM PathsLeadWhereTheyLead ==
    ASSUME CutNamesAreFree, ScopesFit
    PROVE  CaptureSpec => []PathsAreReached
<1>1. CaptureInv => PathsAreReached
  BY PathsAgree DEF PathsAreReached, Agree
<1>2. CaptureSpec => []CaptureInv
  BY CaptureIsSound
<1> QED
  BY <1>1, <1>2, PTL
==============================================================================
