------------------------------ MODULE ProbeFeed ------------------------------
(***************************************************************************)
(* What polling promises an agent, without clocks, TTLs, stores or source- *)
(* map details: every service publishes a content under a version number,  *)
(* a publication of different content has a higher number, and an agent    *)
(* that holds the current number holds the current content.                *)
(***************************************************************************)
EXTENDS Naturals

CONSTANTS Agent, Service, Probe, AgentSvc

VARIABLES
    feed,   \* per service: version, active probes, source-map completeness
    view    \* per agent: what its last poll left it with

feedVars == <<feed, view>>

Content == [since : Nat, probes : SUBSET Probe, mapped : BOOLEAN]
Nothing == [since |-> 0, probes |-> {}, mapped |-> FALSE]

FeedTypeOK == feed \in [Service -> Content] /\ view \in [Agent -> Content]

FeedInit ==
    /\ feed = [s \in Service |-> Nothing]
    /\ view = [a \in Agent |-> Nothing]

(* A service keeps its content or publishes under a higher version. *)
Publish ==
    /\ feed' \in [Service -> Content]
    /\ \A s \in Service : feed'[s] = feed[s] \/ feed'[s].since > feed[s].since

(* An agent keeps what it has, starts over, or takes what is published. *)
Follow ==
    /\ view' \in [Agent -> Content]
    /\ \A a \in Agent : view'[a] \in {view[a], Nothing, feed'[AgentSvc[a]]}

FeedNext == Publish /\ Follow

FeedSpec == FeedInit /\ [][FeedNext]_feedVars

(* Holding the current version number is holding the current content. *)
Coherent ==
    \A a \in Agent :
        view[a].since = feed[AgentSvc[a]].since => view[a] = feed[AgentSvc[a]]
==============================================================================
