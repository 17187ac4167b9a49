----------------------------- MODULE MCSdkAgent -----------------------------
(***************************************************************************)
(* Small instances of the Node agent: the probes it runs, the delivery of  *)
(* what they capture, and the upload of its source maps.  The three have   *)
(* no state in common, and a behaviour is one of one of them.              *)
(***************************************************************************)
EXTENDS SdkProbes, SdkDelivery, SourceMaps

CONSTANTS pp, qq, p1, p2, q1, q2, s1, s2, uu, vv, c1, c2

\* p1 asks for a position that V8 moves to the one q1 and p2 ask for; where q2
\* wants to be there is no code.  q1's file is a suffix of both scripts.
MCDef == [d \in {p1, p2, q1, q2} |->
    CASE d = p1 -> [id |-> pp, scripts |-> {s1}, pos |-> 1, limit |-> 2, bare |-> FALSE]
      [] d = p2 -> [id |-> pp, scripts |-> {s1}, pos |-> 2, limit |-> 1, bare |-> TRUE]
      [] d = q1 -> [id |-> qq, scripts |-> {s1, s2}, pos |-> 2, limit |-> 1, bare |-> TRUE]
      [] d = q2 -> [id |-> qq, scripts |-> {s2}, pos |-> 3, limit |-> 1, bare |-> FALSE]]
Feed(d, e) == [x \in {pp, qq} |-> IF x = pp THEN d ELSE e]
MCFeeds == {Feed(p1, q1), Feed(p2, q1), Feed(None, q2)}
MCPathLen == [s \in Scripts |-> IF s = s1 THEN 2 ELSE 1]
MCSnap == [x \in 1..3 |-> IF x = 1 THEN 2 ELSE x]

\* Each event has a probe of its own and any of them may turn bad.
OwnProbe == [e \in Event |-> e]
UnitSize == [e \in Event |-> 1]

\* Both agents run the same build, or one runs a build without any maps whose
\* completion displaces the other; or no agent knows its commit.
MCFiles == [c \in Commit |-> IF c = c1 THEN 2 ELSE 0]
NoDeployment == [w \in Uploader |-> NoOne]
MCDeployments == {d \in [Uploader -> Commit] : d[uu] = c1} \cup {NoDeployment}

VARIABLE part

all == <<vars, deliveryVars, mapsVars, part>>
MCInit == /\ Init /\ DeliveryInit /\ MapsInit
          /\ part \in {"probes", "delivery", "maps"}
          /\ (part = "maps") <=> \E w \in Uploader : agents[w].commit # NoOne
MCNext == \/ part = "probes" /\ Next /\ UNCHANGED <<deliveryVars, mapsVars, part>>
          \/ part = "delivery" /\ DeliveryNext /\ UNCHANGED <<vars, mapsVars, part>>
          \/ part = "maps" /\ MapsNext /\ UNCHANGED <<vars, deliveryVars, part>>
MCSpec == MCInit /\ [][MCNext]_all

\* In the parts that are not chosen none of the fair actions is enabled.
MCLiveSpec == MCSpec /\ Fairness /\ DeliveryFairness /\ MapsFairness
=============================================================================
