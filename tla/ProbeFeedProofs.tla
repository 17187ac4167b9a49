--------------------------- MODULE ProbeFeedProofs ---------------------------
(***************************************************************************)
(* The abstract feed keeps its promise, for any agents, services, probes.  *)
(***************************************************************************)
EXTENDS ProbeFeed, TLAPS

(* Coherent is not inductive: a view ahead of its feed could be caught up  *)
(* with by different content, so views must never be ahead.                *)
NeverAhead ==
    \A a \in Agent : view[a].since <= feed[AgentSvc[a]].since

(* Nothing is what every service publishes under version 0. *)
ZeroIsNothing ==
    \A s \in Service : feed[s].since = 0 => feed[s] = Nothing

FeedInv == FeedTypeOK /\ ZeroIsNothing /\ NeverAhead /\ Coherent

(* An agent that is told `unchanged` holds the published probes. *)
THEOREM FeedCoherent ==
    ASSUME AgentSvc \in [Agent -> Service]
    PROVE  FeedSpec => []Coherent
<1>1. FeedInit => FeedInv
  BY DEF FeedInit, FeedInv, FeedTypeOK, ZeroIsNothing, NeverAhead, Coherent,
         Nothing, Content
<1>2. FeedInv /\ [FeedNext]_feedVars => FeedInv'
  <2> SUFFICES ASSUME FeedInv, [FeedNext]_feedVars PROVE FeedInv'
    OBVIOUS
  <2>1. CASE FeedNext
    <3>1. FeedTypeOK' /\ Nothing \in Content
      BY <2>1 DEF FeedNext, Publish, Follow, FeedTypeOK, Content, Nothing
    <3>2. ZeroIsNothing'
      BY <2>1 DEF FeedNext, Publish, FeedInv, FeedTypeOK, ZeroIsNothing, Content
    <3>3. ASSUME NEW a \in Agent
          PROVE  /\ view'[a].since <= feed'[AgentSvc[a]].since
                 /\ view'[a].since = feed'[AgentSvc[a]].since
                      => view'[a] = feed'[AgentSvc[a]]
      <4> DEFINE s == AgentSvc[a]
      <4>1. /\ s \in Service
            /\ feed[s] \in Content /\ feed'[s] \in Content
            /\ view[a] \in Content /\ view'[a] \in Content
        BY <3>1 DEF FeedInv, FeedTypeOK
      <4>2. /\ view'[a] \in {view[a], Nothing, feed'[s]}
            /\ feed'[s] = feed[s] \/ feed'[s].since > feed[s].since
        BY <2>1, <4>1 DEF FeedNext, Publish, Follow
      <4>3. /\ view[a].since <= feed[s].since
            /\ view[a].since = feed[s].since => view[a] = feed[s]
        BY DEF FeedInv, NeverAhead, Coherent
      <4>4. feed'[s].since = 0 => feed'[s] = Nothing
        BY <3>2, <4>1 DEF ZeroIsNothing
      <4>5. CASE view'[a] = view[a]
        BY <4>1, <4>2, <4>3, <4>5 DEF Content
      <4>6. CASE view'[a] = Nothing
        BY <4>1, <4>4, <4>6 DEF Content, Nothing
      <4>7. CASE view'[a] = feed'[s]
        BY <4>1, <4>7 DEF Content
      <4> QED
        BY <4>2, <4>5, <4>6, <4>7
    <3> QED
      BY <3>1, <3>2, <3>3 DEF FeedInv, NeverAhead, Coherent
  <2>2. CASE UNCHANGED feedVars
    BY <2>2 DEF feedVars, FeedInv, FeedTypeOK, ZeroIsNothing, NeverAhead, Coherent
  <2> QED
    BY <2>1, <2>2
<1>3. FeedInv => Coherent
  BY DEF FeedInv
<1> QED
  BY <1>1, <1>2, <1>3, PTL DEF FeedSpec
==============================================================================
