--------------------------- MODULE SourceMapsProofs ---------------------------
(***************************************************************************)
(* Source maps, for any number of agents, commits and files: a set never   *)
(* holds maps of two builds, and one that counts as complete is whole.     *)
(* The order of the sets (recent) only chooses which of them are dropped,  *)
(* and nothing here depends on that choice.                                *)
(***************************************************************************)
EXTENDS SourceMaps, TLAPS

AgentState == [pc : Stages, sent : Nat, attempt : Nat, commit : Commit \cup {NoOne}]
Message == [op : {"upload", "complete"}, by : Uploader, file : Nat,
            waited : BOOLEAN, old : BOOLEAN]
Save == [by : Uploader, waited : BOOLEAN]
Lease == [by : Uploader \cup {NoOne}, left : Nat]

(* The part of the type invariant the proofs need. *)
Shape ==
    /\ sets \in [Commit -> SetRecord] /\ rows \in [Commit -> SetRecord]
    /\ leases \in [Commit -> Lease]
    /\ queue \in Seq(Message)
    /\ txn.on \in BOOLEAN /\ txn.sets \in [Commit -> SetRecord] /\ txn.row \in SetRecord
    /\ saves \subseteq Save
    /\ agents \in [Uploader -> AgentState]

(* The maps of a set come from one agent, and a set that is not there has *)
(* none.                                                                  *)
OfOne(s) == \A f, g \in Path : (s.maps[f] # NoOne /\ s.maps[g] # NoOne) => s.maps[f] = s.maps[g]
Clean(s) == ~s.there => \A f \in Path : s.maps[f] = NoOne
Good(s) == OfOne(s) /\ Clean(s)

(* All that is in a set is from the holder of the lease, also after the    *)
(* lease has run out.                                                      *)
Owned(c) == leases[c].by # NoOne =>
                \A f \in Path : sets[c].maps[f] \in {NoOne, leases[c].by}

(* Agents that do not know their commit have never sent anything. *)
Deployed ==
    /\ \A u \in Uploader : agents[u].pc # "stopped" => agents[u].commit \in Commit
    /\ \A i \in DOMAIN queue : agents[queue[i].by].commit \in Commit
    /\ \A s \in saves : agents[s.by].commit \in Commit

(* The inductive invariant of NotMixed: what memory would go back to and   *)
(* what is about to be stored are as good as what is there.                *)
MixInv ==
    /\ Shape
    /\ \A c \in Commit : Good(sets[c]) /\ Good(rows[c]) /\ Good(txn.sets[c])
    /\ Good(txn.row)
    /\ \A c \in Commit : Owned(c)
    /\ txn.on => queue # <<>>
    /\ Deployed

-----------------------------------------------------------------------------
(* Sequences, sets and agents *)

LEMMA AppendParts ==
    ASSUME NEW S, NEW q \in Seq(S), NEW e \in S
    PROVE  /\ Append(q, e) \in Seq(S)
           /\ Append(q, e) # <<>>
           /\ DOMAIN q = 1..Len(q) /\ Len(q) \in Nat
           /\ DOMAIN Append(q, e) = 1..(Len(q) + 1)
           /\ \A i \in 1..Len(q) : Append(q, e)[i] = q[i]
           /\ Append(q, e)[Len(q) + 1] = e
  OBVIOUS

LEMMA TailParts ==
    ASSUME NEW S, NEW q \in Seq(S), q # <<>>
    PROVE  /\ Tail(q) \in Seq(S)
           /\ Head(q) = q[1] /\ Head(q) \in S
           /\ Len(q) \in Nat \ {0}
           /\ DOMAIN q = 1..Len(q)
           /\ DOMAIN Tail(q) = 1..(Len(q) - 1)
           /\ \A i \in 1..(Len(q) - 1) : Tail(q)[i] = q[i + 1]
  OBVIOUS

LEMMA QueueParts ==
    ASSUME queue \in Seq(Message)
    PROVE  /\ Len(queue) \in Nat /\ DOMAIN queue = 1..Len(queue)
           /\ \A i \in DOMAIN queue : /\ queue[i] \in Message /\ queue[i].by \in Uploader
                                      /\ queue[i].file \in Nat
                                      /\ queue[i].op \in {"upload", "complete"}
           /\ queue # <<>> => /\ 1 \in DOMAIN queue /\ Head(queue) = queue[1]
                              /\ Head(queue) \in Message /\ Head(queue).by \in Uploader
                              /\ Head(queue).file \in Nat /\ Head(queue).old \in BOOLEAN
<1>1. Len(queue) \in Nat /\ DOMAIN queue = 1..Len(queue)
  OBVIOUS
<1>2. \A i \in DOMAIN queue : queue[i] \in Message
  OBVIOUS
<1>3. queue # <<>> => 1 \in DOMAIN queue /\ Head(queue) = queue[1]
  OBVIOUS
<1>4. \A m \in Message : m.by \in Uploader /\ m.file \in Nat /\ m.old \in BOOLEAN /\ m.op \in {"upload", "complete"}
  BY DEF Message
<1> QED
  BY <1>1, <1>2, <1>3, <1>4

LEMMA NoSetType ==
    /\ NoSet \in SetRecord /\ NewSet \in SetRecord
    /\ NoSet.maps \in [Path -> Uploader \cup {NoOne}]
    /\ \A f \in Path : NoSet.maps[f] = NoOne /\ NewSet.maps[f] = NoOne
    /\ ~NoSet.complete /\ ~NewSet.complete /\ ~NoSet.there /\ NewSet.there
    /\ Good(NoSet) /\ Good(NewSet)
BY DEF NoSet, NewSet, SetRecord, Good, OfOne, Clean

LEMMA NoTxnType ==
    /\ ~NoTxn.on /\ NoTxn.on \in BOOLEAN
    /\ NoTxn.sets \in [Commit -> SetRecord] /\ NoTxn.row \in SetRecord
    /\ \A c \in Commit : NoTxn.sets[c] = NoSet
    /\ NoTxn.row = NoSet
BY NoSetType DEF NoTxn

LEMMA NoLeasesType ==
    NoLeases \in [Commit -> Lease] /\ \A c \in Commit : NoLeases[c].by = NoOne /\ NoLeases[c].left = 0
BY DEF NoLeases, NoLease, Lease

(* A set whose maps are all from u is good, once it is there. *)
LEMMA GoodOf ==
    ASSUME NEW s, NEW u, s.there, \A f \in Path : s.maps[f] \in {NoOne, u}
    PROVE  Good(s)
BY DEF Good, OfOne, Clean

LEMMA FailedAgents ==
    ASSUME agents \in [Uploader -> AgentState], NEW U
    PROVE  /\ Failed(U) \in [Uploader -> AgentState]
           /\ \A u \in Uploader : Failed(U)[u].commit = agents[u].commit
           /\ \A u \in Uploader : u \notin U => Failed(U)[u] = agents[u]
           /\ \A u \in Uploader : u \in U => Failed(U)[u].pc \in {"asking", "gaveup"}
<1>1. ASSUME NEW a \in AgentState
      PROVE  /\ RetryOrGiveUp(a) \in AgentState
             /\ RetryOrGiveUp(a).commit = a.commit
             /\ RetryOrGiveUp(a).pc \in {"asking", "gaveup"}
  <2>1. a.attempt + 1 \in Nat /\ "asking" \in Stages /\ "gaveup" \in Stages
    BY DEF AgentState, Stages
  <2>2. RetryOrGiveUp(a) = [a EXCEPT !.pc = "asking", !.attempt = a.attempt + 1]
        \/ RetryOrGiveUp(a) = [a EXCEPT !.pc = "gaveup"]
    BY DEF RetryOrGiveUp
  <2>3. CASE RetryOrGiveUp(a) = [a EXCEPT !.pc = "asking", !.attempt = a.attempt + 1]
    BY <2>1, <2>3 DEF AgentState
  <2>4. CASE RetryOrGiveUp(a) = [a EXCEPT !.pc = "gaveup"]
    BY <2>1, <2>4 DEF AgentState
  <2> QED
    BY <2>2, <2>3, <2>4
<1> QED
  BY <1>1 DEF Failed

LEMMA WaitingAgent ==
    ASSUME NEW a \in AgentState
    PROVE  /\ WaitOrGiveUp(a) \in AgentState
           /\ WaitOrGiveUp(a).commit = a.commit
           /\ WaitOrGiveUp(a).pc \in {"waiting", "gaveup"}
<1>1. a.attempt + 1 \in Nat /\ "waiting" \in Stages /\ "gaveup" \in Stages
  BY DEF AgentState, Stages
<1>2. WaitOrGiveUp(a) = [a EXCEPT !.pc = "waiting", !.attempt = a.attempt + 1]
      \/ WaitOrGiveUp(a) = [a EXCEPT !.pc = "gaveup"]
  BY DEF WaitOrGiveUp
<1>3. CASE WaitOrGiveUp(a) = [a EXCEPT !.pc = "waiting", !.attempt = a.attempt + 1]
  BY <1>1, <1>3 DEF AgentState
<1>4. CASE WaitOrGiveUp(a) = [a EXCEPT !.pc = "gaveup"]
  BY <1>1, <1>4 DEF AgentState
<1> QED
  BY <1>2, <1>3, <1>4

(* An agent goes on to another stage. *)
LEMMA Onward ==
    ASSUME agents \in [Uploader -> AgentState], NEW u \in Uploader, NEW pc \in Stages
    PROVE  /\ [agents EXCEPT ![u].pc = pc] \in [Uploader -> AgentState]
           /\ [agents EXCEPT ![u].pc = pc][u].pc = pc
           /\ [agents EXCEPT ![u].pc = pc][u].sent = agents[u].sent
           /\ [agents EXCEPT ![u].pc = pc][u].commit = agents[u].commit
           /\ \A v \in Uploader \ {u} : [agents EXCEPT ![u].pc = pc][v] = agents[v]
BY DEF AgentState

LEMMA OnwardSent ==
    ASSUME agents \in [Uploader -> AgentState], NEW u \in Uploader, NEW pc \in Stages, NEW n \in Nat
    PROVE  /\ [agents EXCEPT ![u].pc = pc, ![u].sent = n] \in [Uploader -> AgentState]
           /\ [agents EXCEPT ![u].pc = pc, ![u].sent = n][u].pc = pc
           /\ [agents EXCEPT ![u].pc = pc, ![u].sent = n][u].sent = n
           /\ [agents EXCEPT ![u].pc = pc, ![u].sent = n][u].commit = agents[u].commit
           /\ \A v \in Uploader \ {u} : [agents EXCEPT ![u].pc = pc, ![u].sent = n][v] = agents[v]
BY DEF AgentState

(* The requests and saves of an agent that no longer waits for them. *)
Unawaited(u) == [i \in DOMAIN queue |-> IF queue[i].by = u
                                        THEN [queue[i] EXCEPT !.waited = FALSE]
                                        ELSE queue[i]]
UnawaitedSaves(u) == {IF s.by = u THEN [s EXCEPT !.waited = FALSE] ELSE s : s \in saves}

LEMMA UnawaitedParts ==
    ASSUME queue \in Seq(Message), saves \subseteq Save, NEW u \in Uploader
    PROVE  /\ Unawaited(u) \in Seq(Message)
           /\ DOMAIN Unawaited(u) = DOMAIN queue
           /\ queue # <<>> => Unawaited(u) # <<>>
           /\ \A i \in DOMAIN queue :
                 /\ Unawaited(u)[i].op = queue[i].op
                 /\ Unawaited(u)[i].by = queue[i].by
                 /\ Unawaited(u)[i].file = queue[i].file
                 /\ Unawaited(u)[i].old = queue[i].old
                 /\ Unawaited(u)[i].waited => (queue[i].waited /\ queue[i].by # u)
           /\ UnawaitedSaves(u) \subseteq Save
           /\ \A s \in UnawaitedSaves(u) :
                 \E t \in saves : t.by = s.by /\ (s.waited => (t.waited /\ t.by # u))
<1>1. \A i \in DOMAIN queue : queue[i] \in Message
  OBVIOUS
<1>2. \A i \in DOMAIN queue : 
         /\ Unawaited(u)[i] \in Message
         /\ Unawaited(u)[i].op = queue[i].op
         /\ Unawaited(u)[i].by = queue[i].by
         /\ Unawaited(u)[i].file = queue[i].file
         /\ Unawaited(u)[i].old = queue[i].old
         /\ Unawaited(u)[i].waited => (queue[i].waited /\ queue[i].by # u)
  BY <1>1 DEF Unawaited, Message
<1>3. DOMAIN Unawaited(u) = DOMAIN queue
  BY DEF Unawaited
<1>4. DOMAIN queue = 1..Len(queue) /\ Len(queue) \in Nat
  OBVIOUS
<1>5. Unawaited(u) \in Seq(Message)
  <2>1. Unawaited(u) \in [1..Len(queue) -> Message]
    BY <1>2, <1>4 DEF Unawaited
  <2> QED
    BY <2>1, <1>4
<1>6. queue # <<>> => Unawaited(u) # <<>>
  BY <1>3, <1>4, <1>5
<1>7. ASSUME NEW s \in saves
      PROVE  /\ (IF s.by = u THEN [s EXCEPT !.waited = FALSE] ELSE s) \in Save
             /\ (IF s.by = u THEN [s EXCEPT !.waited = FALSE] ELSE s).by = s.by
             /\ (IF s.by = u THEN [s EXCEPT !.waited = FALSE] ELSE s).waited
                   => (s.waited /\ s.by # u)
  BY DEF Save
<1>8. UnawaitedSaves(u) \subseteq Save
  BY <1>7 DEF UnawaitedSaves
<1>9. \A s \in UnawaitedSaves(u) :
         \E t \in saves : t.by = s.by /\ (s.waited => (t.waited /\ t.by # u))
  BY <1>7 DEF UnawaitedSaves
<1> QED
  BY <1>2, <1>3, <1>5, <1>6, <1>8, <1>9

(* The queue after a new claim. *)
LEMMA AgedParts ==
    ASSUME queue \in Seq(Message), NEW u \in Uploader
    PROVE  /\ Aged(u) \in Seq(Message)
           /\ DOMAIN Aged(u) = DOMAIN queue
           /\ queue # <<>> => Aged(u) # <<>>
           /\ \A i \in DOMAIN queue :
                 /\ Aged(u)[i].op = queue[i].op
                 /\ Aged(u)[i].by = queue[i].by
                 /\ Aged(u)[i].file = queue[i].file
                 /\ Aged(u)[i].waited = queue[i].waited
                 /\ IF queue[i].by = u THEN Aged(u)[i].old ELSE Aged(u)[i] = queue[i]
<1>1. \A i \in DOMAIN queue : queue[i] \in Message
  OBVIOUS
<1>2. \A i \in DOMAIN queue :
         /\ Aged(u)[i] \in Message
         /\ Aged(u)[i].op = queue[i].op
         /\ Aged(u)[i].by = queue[i].by
         /\ Aged(u)[i].file = queue[i].file
         /\ Aged(u)[i].waited = queue[i].waited
         /\ IF queue[i].by = u THEN Aged(u)[i].old ELSE Aged(u)[i] = queue[i]
  BY <1>1 DEF Aged, Message
<1>3. DOMAIN Aged(u) = DOMAIN queue
  BY DEF Aged
<1>4. DOMAIN queue = 1..Len(queue) /\ Len(queue) \in Nat
  OBVIOUS
<1>5. Aged(u) \in Seq(Message)
  <2>1. Aged(u) \in [1..Len(queue) -> Message]
    BY <1>2, <1>4 DEF Aged
  <2> QED
    BY <2>1, <1>4
<1>6. queue # <<>> => Aged(u) # <<>>
  BY <1>3, <1>4, <1>5
<1> QED
  BY <1>2, <1>3, <1>5, <1>6

-----------------------------------------------------------------------------
(* One build per set *)

LEMMA MixInitial == MapsInit => MixInv
<1> SUFFICES ASSUME MapsInit PROVE MixInv
  OBVIOUS
<1>1. PICK deployed \in Deployments :
         agents = [u \in Uploader |->
                     [pc |-> IF deployed[u] = NoOne THEN "stopped" ELSE "asking",
                      sent |-> 0, attempt |-> 1, commit |-> deployed[u]]]
  BY DEF MapsInit
<1>2. agents \in [Uploader -> AgentState]
  <2>1. deployed \in [Uploader -> Commit \cup {NoOne}]
    BY SourceMapsAssumption
  <2> QED
    BY <1>1, <2>1 DEF AgentState, Stages
<1>3. Shape
  BY <1>2, NoSetType, NoTxnType, NoLeasesType DEF MapsInit, Shape
<1>4. Deployed
  <2>1. deployed \in [Uploader -> Commit \cup {NoOne}]
    BY SourceMapsAssumption
  <2>2. \A u \in Uploader : agents[u].pc # "stopped" => agents[u].commit \in Commit
    BY <1>1, <2>1
  <2>3. DOMAIN queue = {} /\ saves = {}
    BY DEF MapsInit
  <2> QED
    BY <2>2, <2>3 DEF Deployed
<1> QED
  BY <1>3, <1>4, NoSetType, NoTxnType, NoLeasesType DEF MapsInit, MixInv, Owned

(* A persist of a set writes it, or drops it with the others. *)
LEMMA StoredRows ==
    ASSUME MixInv, NEW c, NEW set \in SetRecord, Good(set), StoreSet(c, set)
    PROVE  rows' \in [Commit -> SetRecord] /\ \A d \in Commit : Good(rows'[d])
BY NoSetType DEF MixInv, Shape, StoreSet

LEMMA UnawaitedDeployed ==
    ASSUME MixInv, NEW u \in Uploader, queue' = Unawaited(u), saves' = UnawaitedSaves(u),
           \A v \in Uploader : agents'[v].commit = agents[v].commit
                               /\ (agents[v].pc = "stopped" => agents'[v].pc = "stopped")
    PROVE  Deployed'
<1>1. \A i \in DOMAIN queue' : i \in DOMAIN queue /\ queue'[i].by = queue[i].by
                              /\ queue[i].by \in Uploader
  BY UnawaitedParts, QueueParts DEF MixInv, Shape
<1>2. \A s \in saves' : s.by \in Uploader /\ \E t \in saves : t.by = s.by
  BY UnawaitedParts DEF MixInv, Shape, Save
<1> QED
  BY <1>1, <1>2 DEF MixInv, Deployed

(* Steps of the broker that keep, take or drop requests and saves. *)
LEMMA AnsweredDeployed ==
    ASSUME MixInv, saves' \subseteq saves,
           \A i \in DOMAIN queue' : \E j \in DOMAIN queue : queue'[i] = queue[j],
           \A v \in Uploader : agents'[v].commit = agents[v].commit,
           \A v \in Uploader : \/ agents[v].pc = "stopped" => agents'[v].pc = "stopped"
                               \/ \E i \in DOMAIN queue : queue[i].by = v
                               \/ \E s \in saves : s.by = v
    PROVE  Deployed'
<1>1. \A i \in DOMAIN queue : queue[i].by \in Uploader
  BY QueueParts DEF MixInv, Shape
<1>2. \A s \in saves : s.by \in Uploader
  BY DEF MixInv, Shape, Save
<1>3. Deployed
  BY DEF MixInv
<1>4. \A u \in Uploader : agents'[u].pc # "stopped" => agents'[u].commit \in Commit
  BY <1>3 DEF Deployed
<1>5. \A i \in DOMAIN queue' : agents'[queue'[i].by].commit \in Commit
  BY <1>1, <1>3 DEF Deployed
<1>6. \A s \in saves' : agents'[s.by].commit \in Commit
  BY <1>2, <1>3 DEF Deployed
<1> QED
  BY <1>4, <1>5, <1>6 DEF Deployed

(* Steps of the agents. *)
LEMMA MixAgents ==
    ASSUME MixInv, NEW u \in Uploader, Send(u) \/ Timeout(u) \/ StopAgent(u)
    PROVE  MixInv'
<1>1. agents' \in [Uploader -> AgentState] /\ queue' \in Seq(Message) /\ saves' \subseteq Save
      /\ (queue # <<>> => queue' # <<>>)
      /\ Deployed'
  <2>1. CASE Send(u)
    <3> DEFINE r == [op |-> IF agents[u].sent < Files[agents[u].commit] THEN "upload" ELSE "complete",
                     by |-> u, waited |-> TRUE, old |-> FALSE,
                     file |-> IF (IF agents[u].sent < Files[agents[u].commit] THEN "upload" ELSE "complete") = "upload"
                              THEN agents[u].sent + 1 ELSE 0]
    <3>1. r \in Message
      BY DEF MixInv, Shape, AgentState, Message
    <3>2. queue' = Append(queue, r) /\ saves' = saves
          /\ agents' = [agents EXCEPT ![u].pc = "requested"]
      BY <2>1 DEF Send
    <3> HIDE DEF r
    <3>3. queue' \in Seq(Message) /\ queue' # <<>>
      BY <3>1, <3>2, AppendParts DEF MixInv, Shape
    <3>4. agents' \in [Uploader -> AgentState]
      BY <3>2, Onward DEF MixInv, Shape, Stages
    <3>5. Deployed'
      <4>1. r.by = u
        BY DEF r
      <4>2. agents[u].commit \in Commit
        BY <2>1 DEF Send, MixInv, Deployed
      <4>3. \A i \in DOMAIN queue' : queue'[i].by = u \/ (i \in DOMAIN queue /\ queue'[i] = queue[i])
        BY <3>1, <3>2, <4>1, AppendParts DEF MixInv, Shape
      <4>4. \A i \in DOMAIN queue' : queue'[i].by \in Uploader
        BY <4>3, QueueParts DEF MixInv, Shape
      <4>5. \A v \in Uploader : agents'[v].commit = agents[v].commit /\ (v # u => agents'[v] = agents[v])
        <5>1. agents \in [Uploader -> AgentState] /\ "requested" \in Stages
          BY DEF MixInv, Shape, Stages
        <5> QED
          BY <3>2, <5>1, Onward
      <4>6. \A s \in saves : s.by \in Uploader
        BY DEF MixInv, Shape, Save
      <4> QED
        BY <3>2, <4>2, <4>3, <4>4, <4>5, <4>6 DEF MixInv, Deployed
    <3> QED
      BY <3>2, <3>3, <3>4, <3>5 DEF MixInv, Shape
  <2>2. CASE Timeout(u)
    <3>1. queue' = Unawaited(u) /\ saves' = UnawaitedSaves(u) /\ agents' = Failed({u})
      BY <2>2 DEF Timeout, Unawaited, UnawaitedSaves
    <3>2. agents' \in [Uploader -> AgentState] /\ queue' \in Seq(Message) /\ saves' \subseteq Save
          /\ (queue # <<>> => queue' # <<>>)
      BY <3>1, UnawaitedParts, FailedAgents DEF MixInv, Shape
    <3>3. \A v \in Uploader : agents'[v].commit = agents[v].commit
                             /\ (agents[v].pc = "stopped" => agents'[v].pc = "stopped")
      BY <3>1, <2>2, FailedAgents, SMTT(60) DEF MixInv, Shape, Timeout
    <3> QED
      BY <3>1, <3>2, <3>3, UnawaitedDeployed
  <2>3. CASE StopAgent(u)
    <3>1. queue' = Unawaited(u) /\ saves' = UnawaitedSaves(u)
          /\ agents' = [agents EXCEPT ![u].pc = "stopped"]
      BY <2>3 DEF StopAgent, Unawaited, UnawaitedSaves
    <3>2. agents' \in [Uploader -> AgentState]
      BY <3>1, Onward DEF MixInv, Shape, Stages
    <3>3. \A v \in Uploader : agents'[v].commit = agents[v].commit
                             /\ (agents[v].pc = "stopped" => agents'[v].pc = "stopped")
      <4>1. "stopped" \in Stages
        BY DEF Stages
      <4> QED
        BY <3>1, <4>1, Onward DEF MixInv, Shape
    <3>4. queue' \in Seq(Message) /\ saves' \subseteq Save /\ (queue # <<>> => queue' # <<>>)
      BY <3>1, UnawaitedParts DEF MixInv, Shape
    <3> QED
      BY <3>1, <3>2, <3>3, <3>4, UnawaitedDeployed
  <2> QED
    BY <2>1, <2>2, <2>3
<1>2. UNCHANGED <<sets, leases, rows, txn>>
  BY DEF Send, Timeout, StopAgent
<1> QED
  BY <1>1, <1>2 DEF MixInv, Shape, Owned

(* A claim leaves only maps of the agent that claims. *)
LEMMA ClaimedSet ==
    ASSUME MixInv, NEW u \in Uploader, NEW c \in Commit
    PROVE  /\ Claimed(c, u) \in SetRecord
           /\ Good(Claimed(c, u))
           /\ Claimed(c, u).complete = sets[c].complete
           /\ Claimed(c, u).there = sets[c].there
           /\ \A f \in Path : Claimed(c, u).maps[f] \in {NoOne, u}
           /\ leases[c].by = u => Claimed(c, u) = sets[c]
<1>1. sets[c] \in SetRecord /\ Good(sets[c]) /\ Owned(c) /\ u # NoOne
  BY SourceMapsAssumption DEF MixInv, Shape
<1>2. CASE sets[c].there /\ leases[c].by # u
  <2>1. Claimed(c, u) = [sets[c] EXCEPT !.maps = NoSet.maps]
    BY <1>2 DEF Claimed
  <2>2. /\ [sets[c] EXCEPT !.maps = NoSet.maps] \in SetRecord
        /\ [sets[c] EXCEPT !.maps = NoSet.maps].maps = NoSet.maps
        /\ [sets[c] EXCEPT !.maps = NoSet.maps].complete = sets[c].complete
        /\ [sets[c] EXCEPT !.maps = NoSet.maps].there = sets[c].there
    BY <1>1, NoSetType DEF SetRecord
  <2>3. /\ Claimed(c, u) \in SetRecord
        /\ Claimed(c, u).maps = NoSet.maps
        /\ Claimed(c, u).complete = sets[c].complete
        /\ Claimed(c, u).there = sets[c].there
    BY <2>1, <2>2
  <2> QED
    BY <2>3, <1>2, NoSetType DEF Good, OfOne, Clean
<1>3. CASE ~(sets[c].there /\ leases[c].by # u)
  <2>1. Claimed(c, u) = sets[c]
    BY <1>3 DEF Claimed
  <2> QED
    BY <2>1, <1>1, <1>3 DEF Owned, Good, Clean
<1> QED
  BY <1>2, <1>3

LEMMA MixStatus ==
    ASSUME MixInv, NEW u \in Uploader, Status(u)
    PROVE  MixInv'
<1> DEFINE c == agents[u].commit
<1>0. UNCHANGED <<rows, txn>> /\ queue' \in {queue, Aged(u)}
  BY DEF Status
<1>q. /\ queue' \in Seq(Message) /\ (queue # <<>> => queue' # <<>>)
      /\ DOMAIN queue' = DOMAIN queue /\ \A i \in DOMAIN queue : queue'[i].by = queue[i].by
  BY <1>0, AgedParts DEF MixInv, Shape
<1>a. c \in Commit
  BY DEF Status, MixInv, Deployed
<1>b. ASSUME \A v \in Uploader : agents'[v].commit = agents[v].commit,
             \A v \in Uploader \ {u} : agents'[v] = agents[v],
             saves' \subseteq saves \cup {[by |-> u, waited |-> TRUE]}
      PROVE  Deployed'
  <2>1. \A v \in Uploader : agents'[v].pc # "stopped" => agents'[v].commit \in Commit
    BY <1>a, <1>b DEF MixInv, Deployed
  <2>2. \A i \in DOMAIN queue' : agents'[queue'[i].by].commit \in Commit
    <3>1. \A i \in DOMAIN queue : queue[i].by \in Uploader
      BY QueueParts DEF MixInv, Shape
    <3> QED
      BY <1>q, <1>b, <3>1 DEF MixInv, Deployed
  <2>3. \A s \in saves' : agents'[s.by].commit \in Commit
    BY <1>a, <1>b DEF MixInv, Deployed, Shape, Save
  <2> QED
    BY <2>1, <2>2, <2>3 DEF Deployed
<1>1. CASE UNCHANGED <<sets, leases, saves>> /\ agents' \in [Uploader -> AgentState] /\ Deployed'
  BY <1>0, <1>q, <1>1 DEF MixInv, Shape, Owned
<1>2. CASE sets[c].complete /\ agents' = [agents EXCEPT ![u].pc = "done"]
           /\ UNCHANGED <<sets, leases, saves>>
  <2>1. agents \in [Uploader -> AgentState] /\ "done" \in Stages
    BY DEF MixInv, Shape, Stages
  <2> QED
    BY <1>1, <1>2, <1>b, <2>1, Onward
<1>3. CASE /\ sets' = [sets EXCEPT ![c] = Claimed(c, u)]
           /\ leases' = [leases EXCEPT ![c] = [by |-> u, left |-> LeaseUnits]]
           /\ saves' \in {saves, saves \cup {[by |-> u, waited |-> TRUE]}}
           /\ \E pc \in {"saving", "sending"} :
                 agents' = [agents EXCEPT ![u].pc = pc, ![u].sent = 0]
  <2>1. /\ agents' \in [Uploader -> AgentState]
        /\ \A v \in Uploader : agents'[v].commit = agents[v].commit
        /\ \A v \in Uploader \ {u} : agents'[v] = agents[v]
    <3>1. PICK pc \in {"saving", "sending"} :
             agents' = [agents EXCEPT ![u].pc = pc, ![u].sent = 0]
      BY <1>3
    <3>2. pc \in Stages /\ 0 \in Nat /\ agents \in [Uploader -> AgentState]
      BY DEF Stages, MixInv, Shape
    <3> QED
      BY <3>1, <3>2 DEF AgentState
  <2>2. saves' \subseteq Save
    <3>1. [by |-> u, waited |-> TRUE] \in Save
      BY DEF Save
    <3> QED
      BY <1>3, <3>1 DEF MixInv, Shape
  <2>3. [by |-> u, left |-> LeaseUnits] \in Lease
    BY SourceMapsAssumption DEF Lease
  <2>4. leases' \in [Commit -> Lease]
    BY <1>3, <2>3 DEF MixInv, Shape
  <2>5. sets' \in [Commit -> SetRecord] /\ \A d \in Commit : Good(sets'[d])
    BY <1>3, ClaimedSet DEF MixInv, Shape
  <2>6. \A d \in Commit : Owned(d)'
    <3>1. TAKE d \in Commit
    <3>2. CASE d = c
      <4>1. sets'[d] = Claimed(d, u) /\ leases'[d].by = u
        BY <1>3, <3>2 DEF MixInv, Shape
      <4> QED
        BY <4>1, ClaimedSet DEF Owned
    <3>3. CASE d # c
      <4>1. sets'[d] = sets[d] /\ leases'[d] = leases[d]
        BY <1>3, <3>3 DEF MixInv, Shape
      <4> QED
        BY <4>1 DEF MixInv, Owned
    <3> QED
      BY <3>2, <3>3
  <2>7. Deployed'
    BY <1>3, <1>b, <2>1
  <2> QED
    BY <1>0, <1>q, <2>1, <2>2, <2>4, <2>5, <2>6, <2>7 DEF MixInv, Shape
<1>4. CASE agents' = [agents EXCEPT ![u] = WaitOrGiveUp(@)] /\ UNCHANGED <<sets, leases, saves>>
  <2>1. /\ agents' \in [Uploader -> AgentState]
        /\ \A v \in Uploader : agents'[v].commit = agents[v].commit
        /\ \A v \in Uploader \ {u} : agents'[v] = agents[v]
    BY <1>4, WaitingAgent DEF MixInv, Shape
  <2> QED
    BY <1>1, <1>4, <1>b, <2>1
<1> QED
  BY <1>2, <1>3, <1>4 DEF Status

LEMMA MixSaveEnds ==
    ASSUME MixInv, NEW s \in saves, SaveEnds(s)
    PROVE  MixInv'
<1>1. s.by \in Uploader
  BY DEF MixInv, Shape, Save
<1>2. agents' \in [Uploader -> AgentState] /\ saves' \subseteq Save /\ Deployed'
  <2>1. /\ \/ agents' = [agents EXCEPT ![s.by].pc = "sending"]
           \/ agents' = Failed({s.by})
           \/ agents' = agents
        /\ saves' = saves \ {s}
    BY DEF SaveEnds
  <2>2. agents \in [Uploader -> AgentState] /\ "sending" \in Stages
    BY DEF MixInv, Shape, Stages
  <2>3. [agents EXCEPT ![s.by].pc = "sending"] \in [Uploader -> AgentState]
    BY <1>1, <2>2, Onward
  <2>4. Failed({s.by}) \in [Uploader -> AgentState]
    BY <2>2, FailedAgents
  <2>5. \A v \in Uploader : agents'[v].commit = agents[v].commit /\ (v # s.by => agents'[v] = agents[v])
    <3>1. CASE agents' = [agents EXCEPT ![s.by].pc = "sending"]
      BY <1>1, <2>2, <3>1, Onward
    <3>2. CASE agents' = Failed({s.by})
      BY <2>2, <3>2, FailedAgents
    <3> QED
      BY <2>1, <3>1, <3>2
  <2>6. Deployed'
    <3>1. queue' = queue
      BY DEF SaveEnds
    <3>2. \A i \in DOMAIN queue' : \E j \in DOMAIN queue : queue'[i] = queue[j]
      BY <3>1
    <3> QED
      BY <2>1, <2>5, <3>2, AnsweredDeployed
  <2> QED
    BY <2>1, <2>2, <2>3, <2>4, <2>6 DEF MixInv, Shape
<1>3. rows' \in [Commit -> SetRecord] /\ \A d \in Commit : Good(rows'[d])
  <2>1. StoreSet(agents[s.by].commit, NewSet) \/ rows' = rows
    BY DEF SaveEnds
  <2> QED
    BY <2>1, StoredRows, NoSetType DEF MixInv, Shape
<1>4. UNCHANGED <<sets, leases, queue, txn>>
  BY DEF SaveEnds
<1> QED
  BY <1>2, <1>3, <1>4 DEF MixInv, Shape, Owned

(* An accepted upload adds a map of the holder to a set of the holder. *)
Uploaded(c, n, u) ==
    [complete |-> FALSE, there |-> TRUE, stray |-> FALSE, maps |-> [sets[c].maps EXCEPT ![n] = u]]

LEMMA UploadedSet ==
    ASSUME MixInv, NEW c \in Commit, NEW u \in Uploader, Holds(c, u), NEW n
    PROVE  /\ Uploaded(c, n, u) \in SetRecord /\ Good(Uploaded(c, n, u))
           /\ ~Uploaded(c, n, u).complete
           /\ \A f \in Path : Uploaded(c, n, u).maps[f] = IF f = n THEN u ELSE sets[c].maps[f]
           /\ \A f \in Path : Uploaded(c, n, u).maps[f] \in {NoOne, u}
<1> DEFINE s == Uploaded(c, n, u)
<1>1. u # NoOne /\ sets[c] \in SetRecord /\ leases[c].by = u /\ Owned(c)
  BY SourceMapsAssumption DEF MixInv, Shape, Holds
<1>2. sets[c].maps \in [Path -> Uploader \cup {NoOne}]
  BY <1>1 DEF SetRecord
<1>3. s.maps = [sets[c].maps EXCEPT ![n] = u] /\ s.there /\ ~s.complete
  BY DEF Uploaded
<1> HIDE DEF s
<1>4. /\ s.maps \in [Path -> Uploader \cup {NoOne}]
      /\ \A f \in Path : s.maps[f] = IF f = n THEN u ELSE sets[c].maps[f]
  BY <1>2, <1>3
<1>5. s \in SetRecord
  BY <1>3, <1>4 DEF SetRecord, s, Uploaded
<1>6. \A f \in Path : s.maps[f] \in {NoOne, u}
  BY <1>1, <1>4 DEF Owned
<1> QED
  BY <1>3, <1>4, <1>5, <1>6, GoodOf DEF s

(* What a completion leaves of each set and each lease. *)
LEMMA CompletedSets ==
    ASSUME MixInv, NEW c \in Commit, NEW old \in BOOLEAN, Complete(c, old)
    PROVE  /\ sets' \in [Commit -> SetRecord] /\ leases' \in [Commit -> Lease]
           /\ sets'[c].maps = sets[c].maps /\ sets'[c].there /\ sets'[c].complete
           /\ sets'[c].stray = old
           /\ leases'[c] = NoLease
           /\ \A d \in Commit \ {c} : \/ sets'[d] = sets[d] /\ leases'[d] \in {leases[d], NoLease}
                                      \/ sets'[d] = NoSet /\ leases'[d] = NoLease
                                      \/ sets'[d] = NoSet /\ leases'[d] = leases[d] /\ ~sets[d].there
<1>1. /\ sets \in [Commit -> SetRecord] /\ leases \in [Commit -> Lease] /\ NoLease \in Lease
  BY DEF MixInv, Shape, NoLease, Lease
<1>2. PICK K \in SUBSET Commit :
        /\ sets' = [d \in Commit |-> IF d = c THEN [sets[c] EXCEPT !.complete = TRUE, !.there = TRUE, !.stray = old]
                                     ELSE IF d \in K THEN sets[d] ELSE NoSet]
        /\ leases' = [d \in Commit |-> IF d = c \/ (sets[d].there /\ d \notin K)
                                       THEN NoLease ELSE leases[d]]
  <2> DEFINE order == Bump(recent, c)
             kept  == IF Len(order) <= Retained THEN order
                      ELSE SubSeq(order, Len(order) - Retained + 1, Len(order))
             K == {d \in Commit : \E i \in DOMAIN kept : kept[i] = d}
  <2>1. /\ sets' = [d \in Commit |-> IF d = c THEN [sets[c] EXCEPT !.complete = TRUE, !.there = TRUE, !.stray = old]
                                     ELSE IF \E i \in DOMAIN kept : kept[i] = d THEN sets[d] ELSE NoSet]
        /\ leases' = [d \in Commit |-> IF d = c \/ (sets[d].there /\ ~(\E i \in DOMAIN kept : kept[i] = d))
                                       THEN NoLease ELSE leases[d]]
    BY DEF Complete
  <2> HIDE DEF order, kept
  <2>2. \A d \in Commit : d \in K <=> \E i \in DOMAIN kept : kept[i] = d
    OBVIOUS
  <2> HIDE DEF K
  <2>3. K \in SUBSET Commit
    BY DEF K
  <2> QED
    BY <2>1, <2>2, <2>3
<1>3. /\ [sets[c] EXCEPT !.complete = TRUE, !.there = TRUE, !.stray = old] \in SetRecord
      /\ [sets[c] EXCEPT !.complete = TRUE, !.there = TRUE, !.stray = old].maps = sets[c].maps
      /\ [sets[c] EXCEPT !.complete = TRUE, !.there = TRUE, !.stray = old].there
      /\ [sets[c] EXCEPT !.complete = TRUE, !.there = TRUE, !.stray = old].complete
      /\ [sets[c] EXCEPT !.complete = TRUE, !.there = TRUE, !.stray = old].stray = old
  BY <1>1 DEF SetRecord
<1>4. sets'[c] = [sets[c] EXCEPT !.complete = TRUE, !.there = TRUE, !.stray = old] /\ leases'[c] = NoLease
  BY <1>2
<1>5. sets' \in [Commit -> SetRecord]
  BY <1>1, <1>2, <1>3, NoSetType
<1>6. leases' \in [Commit -> Lease]
  BY <1>1, <1>2
<1>7. \A d \in Commit \ {c} : \/ sets'[d] = sets[d] /\ leases'[d] \in {leases[d], NoLease}
                              \/ sets'[d] = NoSet /\ leases'[d] = NoLease
                              \/ sets'[d] = NoSet /\ leases'[d] = leases[d] /\ ~sets[d].there
  BY <1>2
<1> QED
  BY <1>3, <1>4, <1>5, <1>6, <1>7

(* The three outcomes of a mutation. *)
Uploads(u, c, n) ==
    /\ Holds(c, u)
    /\ sets' = [sets EXCEPT ![c] = [complete |-> FALSE, there |-> TRUE, stray |-> FALSE,
                                    maps |-> [@.maps EXCEPT ![n] = u]]]
    /\ leases' = [leases EXCEPT ![c].left = LeaseUnits]
    /\ UNCHANGED <<queue, agents>>
Completes(u, c, old) == Holds(c, u) /\ Complete(c, old) /\ UNCHANGED <<queue, agents>>
Refuses(u, r) ==
    /\ queue' = Tail(queue)
    /\ agents' = IF r.waited THEN Failed({u}) ELSE agents
    /\ UNCHANGED <<sets, leases, txn>>
Begins(c) == txn' = [on |-> TRUE, sets |-> sets, recent |-> recent, row |-> sets'[c]]

LEMMA MutateCases ==
    ASSUME Mutate, NEW r, NEW u, NEW c, r = Head(queue), u = r.by, c = agents[u].commit
    PROVE  /\ ~txn.on /\ queue # <<>> /\ UNCHANGED <<rows, saves>>
           /\ \/ r.op = "upload" /\ Uploads(u, c, r.file) /\ Begins(c)
              \/ r.op = "complete" /\ Completes(u, c, r.old) /\ Begins(c)
              \/ ~Holds(c, u) /\ Refuses(u, r)
BY DEF Mutate, Uploads, Completes, Refuses, Begins

(* An upload is accepted: whose maps the sets hold, and who holds leases. *)
LEMMA MixUploads ==
    ASSUME MixInv, NEW u \in Uploader, NEW c \in Commit, NEW n, Uploads(u, c, n)
    PROVE  /\ sets' \in [Commit -> SetRecord] /\ leases' \in [Commit -> Lease]
           /\ \A d \in Commit : Good(sets'[d]) /\ Owned(d)'
           /\ \A d \in Commit : leases'[d].by = leases[d].by
           /\ \A d \in Commit \ {c} : sets'[d] = sets[d]
           /\ ~sets'[c].complete
           /\ \A f \in Path : sets'[c].maps[f] = IF f = n THEN u ELSE sets[c].maps[f]
<1> DEFINE s == Uploaded(c, n, u)
<1>0. sets \in [Commit -> SetRecord] /\ leases \in [Commit -> Lease] /\ LeaseUnits \in Nat
  BY SourceMapsAssumption DEF MixInv, Shape
<1>1. sets' = [sets EXCEPT ![c] = s] /\ Holds(c, u)
  BY DEF Uploads, Uploaded
<1>2. /\ s \in SetRecord /\ Good(s) /\ ~s.complete
      /\ \A f \in Path : s.maps[f] = IF f = n THEN u ELSE sets[c].maps[f]
      /\ \A f \in Path : s.maps[f] \in {NoOne, u}
  BY <1>1, UploadedSet
<1> HIDE DEF s
<1>3. sets' \in [Commit -> SetRecord] /\ sets'[c] = s /\ \A d \in Commit \ {c} : sets'[d] = sets[d]
  BY <1>0, <1>1, <1>2
<1>4. leases' \in [Commit -> Lease] /\ \A d \in Commit : leases'[d].by = leases[d].by
  BY <1>0 DEF Uploads, Lease
<1>5. leases[c].by = u
  BY <1>1 DEF Holds
<1>6. \A d \in Commit : Owned(d)'
  BY <1>2, <1>3, <1>4, <1>5 DEF MixInv, Owned
<1> QED
  BY <1>2, <1>3, <1>4, <1>6 DEF MixInv

LEMMA MixCompletes ==
    ASSUME MixInv, NEW c \in Commit, NEW old \in BOOLEAN, Complete(c, old)
    PROVE  \A d \in Commit : Good(sets'[d]) /\ Owned(d)'
<1>1. \A d \in Commit : Good(sets[d]) /\ Owned(d)
  BY DEF MixInv
<1>2. NoLease.by = NoOne
  BY DEF NoLease
<1>3. Good(sets'[c]) /\ Owned(c)'
  BY <1>1, <1>2, CompletedSets DEF Good, OfOne, Clean, Owned
<1>4. ASSUME NEW d \in Commit \ {c}
      PROVE  Good(sets'[d]) /\ Owned(d)'
  BY <1>1, <1>2, CompletedSets, NoSetType DEF Owned
<1> QED
  BY <1>3, <1>4

LEMMA MixMutate == ASSUME MixInv, Mutate PROVE MixInv'
<1> DEFINE r == Head(queue)
           u == r.by
           c == agents[u].commit
<1>0. queue # <<>>
  BY DEF Mutate
<1>1. r \in Message /\ u \in Uploader /\ r.old \in BOOLEAN
  BY <1>0, QueueParts DEF MixInv, Shape
<1>2. c \in Commit
  BY <1>0, TailParts DEF MixInv, Shape, Deployed
<1>3. CASE Refuses(u, r) /\ UNCHANGED <<rows, saves>>
  <2>1. queue' \in Seq(Message) /\ \A i \in DOMAIN queue' : \E j \in DOMAIN queue : queue'[i] = queue[j]
    <3>1. queue' = Tail(queue)
      BY <1>3 DEF Refuses
    <3>2. \A i \in 1..(Len(queue) - 1) : i + 1 \in 1..Len(queue)
      BY <1>0, TailParts DEF MixInv, Shape
    <3> QED
      BY <1>0, <3>1, <3>2, TailParts DEF MixInv, Shape
  <2>2. agents' \in [Uploader -> AgentState]
        /\ \A v \in Uploader : agents'[v].commit = agents[v].commit /\ (v # u => agents'[v] = agents[v])
    BY <1>1, <1>3, FailedAgents DEF Refuses, MixInv, Shape
  <2>3. \E i \in DOMAIN queue : queue[i].by = u
    BY <1>0, TailParts DEF MixInv, Shape
  <2>4. Deployed'
    BY <1>3, <2>1, <2>2, <2>3, AnsweredDeployed
  <2>5. ~txn.on
    BY DEF Mutate
  <2> QED
    BY <1>3, <2>1, <2>2, <2>4, <2>5 DEF Refuses, MixInv, Shape, Owned
<1>4. ASSUME sets' \in [Commit -> SetRecord], leases' \in [Commit -> Lease],
             \A d \in Commit : Good(sets'[d]) /\ Owned(d)',
             Begins(c), UNCHANGED <<queue, agents, rows, saves>>
      PROVE  MixInv'
  <2>1. txn'.on = TRUE /\ txn'.sets = sets /\ txn'.row = sets'[c]
    BY <1>4 DEF Begins
  <2> QED
    BY <1>0, <1>2, <1>4, <2>1 DEF MixInv, Shape, Deployed
<1>5. CASE Uploads(u, c, r.file) /\ Begins(c) /\ UNCHANGED <<rows, saves>>
  BY <1>1, <1>2, <1>4, <1>5, MixUploads DEF Uploads
<1>6. CASE Completes(u, c, r.old) /\ Begins(c) /\ UNCHANGED <<rows, saves>>
  BY <1>1, <1>2, <1>4, <1>6, MixCompletes, CompletedSets DEF Completes
<1> QED
  BY <1>3, <1>5, <1>6, MutateCases

(* The end of a mutation, in either way. *)
LEMMA AnsweredHead ==
    ASSUME MixInv, queue # <<>>, queue' = Tail(queue), saves' = saves,
           NEW u \in Uploader, u = Head(queue).by, agents' \in [Uploader -> AgentState],
           \A v \in Uploader : agents'[v].commit = agents[v].commit,
           \A v \in Uploader \ {u} : agents'[v] = agents[v]
    PROVE  queue' \in Seq(Message) /\ Deployed'
<1>1. queue' \in Seq(Message) /\ \A i \in DOMAIN queue' : \E j \in DOMAIN queue : queue'[i] = queue[j]
  <2>1. \A i \in 1..(Len(queue) - 1) : i + 1 \in 1..Len(queue)
    BY TailParts DEF MixInv, Shape
  <2> QED
    BY <2>1, TailParts DEF MixInv, Shape
<1>2. \E i \in DOMAIN queue : queue[i].by = u
  BY TailParts DEF MixInv, Shape
<1> QED
  BY <1>1, <1>2, AnsweredDeployed

LEMMA MixPersisted == ASSUME MixInv, Persisted PROVE MixInv'
<1> DEFINE r == Head(queue)
<1>0. txn.on /\ queue # <<>> /\ queue' = Tail(queue) /\ txn' = NoTxn
      /\ UNCHANGED <<sets, leases, saves>>
  BY DEF Persisted, MixInv
<1>1. r \in Message /\ r.by \in Uploader /\ r.file \in Nat
  BY <1>0, QueueParts DEF MixInv, Shape
<1>2. /\ agents' \in [Uploader -> AgentState]
      /\ \A v \in Uploader : agents'[v].commit = agents[v].commit
      /\ \A v \in Uploader \ {r.by} : agents'[v] = agents[v]
  <2>1. \/ agents' = agents
        \/ agents' = [agents EXCEPT ![r.by].pc = "sending", ![r.by].sent = r.file]
        \/ agents' = [agents EXCEPT ![r.by].pc = "done"]
    BY DEF Persisted
  <2>2. agents \in [Uploader -> AgentState] /\ "sending" \in Stages /\ "done" \in Stages
    BY DEF MixInv, Shape, Stages
  <2> HIDE DEF r
  <2>3. CASE agents' = [agents EXCEPT ![r.by].pc = "sending", ![r.by].sent = r.file]
    BY <1>1, <2>2, <2>3 DEF AgentState
  <2>4. CASE agents' = [agents EXCEPT ![r.by].pc = "done"]
    BY <1>1, <2>2, <2>4 DEF AgentState
  <2> QED
    BY <2>1, <2>2, <2>3, <2>4
<1>3. queue' \in Seq(Message) /\ Deployed'
  BY <1>0, <1>1, <1>2, AnsweredHead
<1>4. rows' \in [Commit -> SetRecord] /\ \A d \in Commit : Good(rows'[d])
  <2>1. StoreSet(agents[r.by].commit, txn.row)
    BY DEF Persisted
  <2> QED
    BY <2>1, StoredRows DEF MixInv, Shape
<1> QED
  BY <1>0, <1>2, <1>3, <1>4, NoTxnType, NoSetType DEF MixInv, Shape, Owned

LEMMA MixPersistFails == ASSUME MixInv, PersistFails PROVE MixInv'
<1> DEFINE r == Head(queue)
<1>0. txn.on /\ queue # <<>> /\ queue' = Tail(queue) /\ txn' = NoTxn
      /\ sets' = txn.sets /\ leases' = NoLeases /\ UNCHANGED <<rows, saves>>
  BY DEF PersistFails, MixInv
<1>1. r.by \in Uploader
  BY <1>0, QueueParts DEF MixInv, Shape
<1>2. /\ agents' \in [Uploader -> AgentState]
      /\ \A v \in Uploader : agents'[v].commit = agents[v].commit
      /\ \A v \in Uploader \ {r.by} : agents'[v] = agents[v]
  BY <1>1, FailedAgents DEF PersistFails, MixInv, Shape
<1>3. queue' \in Seq(Message) /\ Deployed'
  BY <1>0, <1>1, <1>2, AnsweredHead
<1> QED
  BY <1>0, <1>2, <1>3, NoTxnType, NoSetType, NoLeasesType DEF MixInv, Shape, Owned

LEMMA MixOthers ==
    ASSUME MixInv, OtherMutationFails \/ Restart \/ Tick \/ UNCHANGED mapsVars
    PROVE  MixInv'
<1>1. CASE OtherMutationFails
  BY <1>1, NoLeasesType DEF OtherMutationFails, MixInv, Shape, Owned, Deployed
<1>2. CASE Restart
  <2>1. /\ sets' = rows /\ leases' = NoLeases /\ queue' = <<>> /\ txn' = NoTxn /\ saves' = {}
        /\ rows' = rows
        /\ agents' = Failed({u \in Uploader : agents[u].pc \in {"requested", "saving"}})
    BY <1>2 DEF Restart
  <2>2. agents' \in [Uploader -> AgentState]
        /\ \A v \in Uploader : agents'[v].commit = agents[v].commit
                               /\ (agents[v].pc = "stopped" => agents'[v] = agents[v])
    BY <2>1, FailedAgents DEF MixInv, Shape
  <2>3. Deployed'
    BY <2>1, <2>2, AnsweredDeployed
  <2> QED
    BY <2>1, <2>2, <2>3, NoTxnType, NoSetType, NoLeasesType DEF MixInv, Shape, Owned
<1>3. CASE Tick
  <2>1. /\ leases' = [c \in Commit |-> [leases[c] EXCEPT !.left = IF @ > 0 THEN @ - 1 ELSE 0]]
        /\ agents' = [u \in Uploader |-> IF agents[u].pc = "waiting"
                                     THEN [agents[u] EXCEPT !.pc = "asking"] ELSE agents[u]]
        /\ UNCHANGED <<sets, rows, queue, txn, saves>>
    BY <1>3 DEF Tick
  <2>2. leases' \in [Commit -> Lease] /\ \A c \in Commit : leases'[c].by = leases[c].by
    <3>1. ASSUME NEW l \in Lease
          PROVE  /\ [l EXCEPT !.left = IF @ > 0 THEN @ - 1 ELSE 0] \in Lease
                 /\ [l EXCEPT !.left = IF @ > 0 THEN @ - 1 ELSE 0].by = l.by
      BY DEF Lease
    <3> QED
      BY <2>1, <3>1 DEF MixInv, Shape
  <2>3. agents' \in [Uploader -> AgentState]
        /\ \A v \in Uploader : agents'[v].commit = agents[v].commit
                               /\ (agents[v].pc = "stopped" => agents'[v].pc = "stopped")
    <3>1. ASSUME NEW a \in AgentState
          PROVE  /\ [a EXCEPT !.pc = "asking"] \in AgentState
                 /\ [a EXCEPT !.pc = "asking"].commit = a.commit
      BY DEF AgentState, Stages
    <3> QED
      BY <2>1, <3>1 DEF MixInv, Shape
  <2>4. Deployed'
    BY <2>1, <2>3, AnsweredDeployed
  <2> QED
    BY <2>1, <2>2, <2>3, <2>4 DEF MixInv, Shape, Owned
<1>4. CASE UNCHANGED mapsVars
  BY <1>4 DEF mapsVars, MixInv, Shape, Owned, Deployed
<1> QED
  BY <1>1, <1>2, <1>3, <1>4

LEMMA MixStep == MixInv /\ [MapsNext]_mapsVars => MixInv'
<1> SUFFICES ASSUME MixInv, [MapsNext]_mapsVars PROVE MixInv'
  OBVIOUS
<1>1. ASSUME NEW u \in Uploader, Status(u) PROVE MixInv'
  BY <1>1, MixStatus
<1>2. ASSUME NEW u \in Uploader, Send(u) \/ Timeout(u) \/ StopAgent(u) PROVE MixInv'
  BY <1>2, MixAgents
<1>3. ASSUME NEW s \in saves, SaveEnds(s) PROVE MixInv'
  BY <1>3, MixSaveEnds
<1> QED
  BY <1>1, <1>2, <1>3, MixMutate, MixPersisted, MixPersistFails, MixOthers DEF MapsNext

(* spec/protocol.md 4.2: for every number of agents, of files and of       *)
(* retained commits no set, in memory or stored, ever holds maps of two    *)
(* uploaders, whatever requests are late, fail or are interrupted.         *)
THEOREM OneBuildPerSet == MapsSpec => []NotMixed
<1>1. MixInv => NotMixed
  BY DEF MixInv, Good, OfOne, NotMixed
<1> QED
  BY <1>1, MixInitial, MixStep, PTL DEF MapsSpec

-----------------------------------------------------------------------------
(* A complete set is whole, unless an old request completed it. *)

Whole(s, c) == s.complete /\ ~s.stray => \A f \in 1..Files[c] : s.maps[f] # NoOne
Has(s, n) == \A f \in 1..n : s.maps[f] # NoOne

(* While an agent holds the lease, the set has what it was told of. *)
Progress(u) ==
    LET c == agents[u].commit IN
    /\ agents[u].pc = "sending" => /\ agents[u].sent <= Files[c]
                                   /\ leases[c].by = u => Has(sets[c], agents[u].sent)
    /\ agents[u].pc = "saving" => agents[u].sent = 0

(* The same of request i: of an upload while its agent waits for it, of a  *)
(* completion until its agent claims anew.                                 *)
Asked(i) ==
    LET r == queue[i]
        u == r.by
        c == agents[u].commit
    IN
    /\ r.waited => agents[u].pc = "requested" /\ ~r.old
    /\ r.op = "upload" => /\ r.file \in 1..Files[c]
                          /\ (r.waited /\ leases[c].by = u) => Has(sets[c], r.file - 1)
                          /\ (r.waited /\ txn.on /\ i = 1 /\ leases[c].by = u)
                                => Has(sets[c], r.file)
    /\ (r.op = "complete" /\ ~r.old /\ leases[c].by = u) => Has(sets[c], Files[c])

(* The inductive invariant of CompleteIsWhole. *)
WholeInv ==
    /\ MixInv
    /\ \A c \in Commit : Whole(sets[c], c) /\ Whole(rows[c], c) /\ Whole(txn.sets[c], c)
    /\ txn.on => Whole(txn.row, agents[queue[1].by].commit)
    /\ \A u \in Uploader : Progress(u)
    /\ \A i \in DOMAIN queue : Asked(i)
    /\ \A i, j \in DOMAIN queue :
          queue[i].by = queue[j].by /\ queue[i].waited /\ queue[j].waited => i = j
    /\ \A s \in saves : s.waited => agents[s.by].pc = "saving"

LEMMA FilesPaths == \A c \in Commit : Files[c] \in Nat /\ 1..Files[c] \subseteq Path
BY SourceMapsAssumption DEF Path

(* A step that grants no lease, and takes no map from a set whose lease    *)
(* stays.                                                                  *)
Kept == \A d \in Commit : leases'[d].by # NoOne =>
            /\ leases'[d].by = leases[d].by
            /\ \A f \in Path : sets[d].maps[f] # NoOne => sets'[d].maps[f] # NoOne

LEMMA HasKept ==
    ASSUME Kept, NEW c \in Commit, NEW n \in Nat, n <= Files[c], NEW u \in Uploader,
           leases'[c].by = u
    PROVE  leases[c].by = u /\ (Has(sets[c], n) => Has(sets'[c], n))
<1>1. u # NoOne
  BY SourceMapsAssumption
<1>2. 1..n \subseteq Path
  <2>1. 1..n \subseteq 1..Files[c]
    BY FilesPaths
  <2> QED
    BY <2>1, FilesPaths
<1> QED
  BY <1>1, <1>2 DEF Kept, Has

LEMMA ProgressKept ==
    ASSUME WholeInv, Kept, NEW u \in Uploader, agents'[u].commit = agents[u].commit,
           agents'[u].pc \in {"sending", "saving"} => agents'[u] = agents[u]
    PROVE  Progress(u)'
<1> DEFINE c == agents[u].commit
<1>1. agents[u] \in AgentState /\ agents[u].sent \in Nat
  BY DEF WholeInv, MixInv, Shape, AgentState
<1>2. Progress(u) /\ (agents[u].pc # "stopped" => c \in Commit)
  BY DEF WholeInv, MixInv, Deployed
<1>3. CASE agents'[u].pc = "sending"
  <2>1. agents'[u] = agents[u] /\ c \in Commit /\ agents[u].sent <= Files[c]
        /\ (leases[c].by = u => Has(sets[c], agents[u].sent))
    BY <1>2, <1>3 DEF Progress
  <2>2. leases'[c].by = u => Has(sets'[c], agents[u].sent)
    BY <1>1, <2>1, HasKept
  <2> QED
    BY <1>3, <2>1, <2>2 DEF Progress
<1>4. CASE agents'[u].pc # "sending"
  BY <1>2, <1>4 DEF Progress
<1> QED
  BY <1>3, <1>4

LEMMA AskedKept ==
    ASSUME WholeInv, Kept, NEW i \in DOMAIN queue', NEW j \in DOMAIN queue,
           queue'[i].op = queue[j].op, queue'[i].by = queue[j].by, queue'[i].file = queue[j].file,
           queue'[i].old = queue[j].old,
           agents'[queue[j].by].commit = agents[queue[j].by].commit,
           queue'[i].waited => queue[j].waited /\ agents'[queue[j].by].pc = "requested",
           (txn'.on /\ i = 1) => (txn.on /\ j = 1)
    PROVE  Asked(i)'
<1> DEFINE r == queue[j]
           u == queue[j].by
           c == agents[queue[j].by].commit
<1>1. r \in Message /\ u \in Uploader /\ r.file \in Nat /\ c \in Commit
  BY QueueParts DEF WholeInv, MixInv, Shape, Deployed
<1>2. Files[c] \in Nat
  BY <1>1, FilesPaths
<1>3. Asked(j)
  BY DEF WholeInv
<1>4. r.op = "upload" => r.file \in 1..Files[c]
  BY <1>3 DEF Asked
<1>5. leases'[c].by = u => leases[c].by = u
  BY <1>1, <1>2, HasKept
<1>6. ASSUME NEW n \in Nat, n <= Files[c], leases'[c].by = u, Has(sets[c], n)
      PROVE  Has(sets'[c], n)
  BY <1>1, <1>6, HasKept
<1>7. ASSUME r.op = "upload", leases'[c].by = u, queue'[i].waited
      PROVE  /\ Has(sets'[c], r.file - 1)
             /\ (txn'.on /\ i = 1) => Has(sets'[c], r.file)
  <2>1. r.file - 1 \in Nat /\ r.file - 1 <= Files[c] /\ r.file <= Files[c]
    BY <1>1, <1>2, <1>4, <1>7
  <2>2. Has(sets[c], r.file - 1) /\ ((txn.on /\ j = 1) => Has(sets[c], r.file))
    BY <1>3, <1>5, <1>7 DEF Asked
  <2> QED
    BY <1>1, <1>6, <1>7, <2>1, <2>2
<1>8. ASSUME r.op = "complete", ~r.old, leases'[c].by = u
      PROVE  Has(sets'[c], Files[c])
  <2>1. Has(sets[c], Files[c])
    BY <1>3, <1>5, <1>8 DEF Asked
  <2> QED
    BY <1>2, <1>6, <1>8, <2>1
<1>9. queue'[i].waited => agents'[u].pc = "requested" /\ ~r.old
  BY <1>3 DEF Asked
<1> QED
  BY <1>4, <1>7, <1>8, <1>9 DEF Asked

LEMMA WholeInitial == MapsInit => WholeInv
<1> SUFFICES ASSUME MapsInit PROVE WholeInv
  OBVIOUS
<1>1. MixInv
  BY MixInitial
<1>2. DOMAIN queue = {} /\ saves = {} /\ ~txn.on
  BY NoTxnType DEF MapsInit
<1>3. \A c \in Commit : Whole(sets[c], c) /\ Whole(rows[c], c) /\ Whole(txn.sets[c], c)
  BY NoSetType, NoTxnType DEF MapsInit, Whole
<1>4. \A u \in Uploader : agents[u].pc \in {"asking", "stopped"}
  BY DEF MapsInit
<1>5. \A u \in Uploader : Progress(u)
  BY <1>4 DEF Progress
<1> QED
  BY <1>1, <1>2, <1>3, <1>5 DEF WholeInv

(* An agent sends its next request. *)
LEMMA WholeSend ==
    ASSUME WholeInv, MixInv', NEW u \in Uploader, Send(u)
    PROVE  WholeInv'
<1> DEFINE c == agents[u].commit
           n == agents[u].sent
<1>0. agents \in [Uploader -> AgentState] /\ queue \in Seq(Message) /\ n \in Nat
      /\ "requested" \in Stages /\ agents[u].pc = "sending"
  BY DEF WholeInv, MixInv, Shape, AgentState, Stages, Send
<1>1. c \in Commit /\ Progress(u)
  BY <1>0 DEF WholeInv, MixInv, Deployed
<1>2. /\ n <= Files[c] /\ Files[c] \in Nat /\ (leases[c].by = u => Has(sets[c], n))
  BY <1>0, <1>1, FilesPaths DEF Progress
<1>3. UNCHANGED <<sets, leases, rows, txn, saves>>
      /\ agents' = [agents EXCEPT ![u].pc = "requested"]
  BY DEF Send
<1>4. PICK r \in Message : /\ queue' = Append(queue, r) /\ r.by = u /\ r.waited /\ ~r.old
                           /\ \/ r.op = "upload" /\ r.file = n + 1 /\ n < Files[c]
                              \/ r.op = "complete" /\ ~(n < Files[c])
  <2> DEFINE op == IF n < Files[c] THEN "upload" ELSE "complete"
             r == [op |-> op, by |-> u, waited |-> TRUE, old |-> FALSE,
                   file |-> IF op = "upload" THEN n + 1 ELSE 0]
  <2>1. queue' = Append(queue, r)
    BY DEF Send
  <2>2. r \in Message
    BY <1>0 DEF Message
  <2>3. /\ r.by = u /\ r.waited /\ ~r.old
        /\ \/ r.op = "upload" /\ r.file = n + 1 /\ n < Files[c]
           \/ r.op = "complete" /\ ~(n < Files[c])
    OBVIOUS
  <2> HIDE DEF r
  <2> QED
    BY <2>1, <2>2, <2>3
<1>5. /\ DOMAIN queue = 1..Len(queue) /\ Len(queue) \in Nat
      /\ DOMAIN queue' = 1..(Len(queue) + 1)
      /\ \A i \in DOMAIN queue : i \in DOMAIN queue' /\ queue'[i] = queue[i]
      /\ queue'[Len(queue) + 1] = r
      /\ \A i \in DOMAIN queue' : i \in DOMAIN queue \/ i = Len(queue) + 1
  BY <1>0, <1>4, AppendParts
<1>6. /\ agents'[u].pc = "requested" /\ agents'[u].commit = c
      /\ \A v \in Uploader \ {u} : agents'[v] = agents[v]
  BY <1>0, <1>3, Onward
<1>7. \A i \in DOMAIN queue : queue[i].by \in Uploader /\ (queue[i].waited => queue[i].by # u)
  BY <1>0, QueueParts DEF WholeInv, Asked
<1>8. Kept
  BY <1>3 DEF Kept
<1>9. \A v \in Uploader : Progress(v)'
  BY <1>6, <1>8, ProgressKept
<1>10. txn.on => 1 \in DOMAIN queue
  BY <1>0, QueueParts DEF WholeInv, MixInv
<1>11. \A i \in DOMAIN queue' : Asked(i)'
  <2>1. ASSUME NEW i \in DOMAIN queue PROVE Asked(i)'
    <3>1. Asked(i)
      BY DEF WholeInv
    <3>2. agents'[queue[i].by].commit = agents[queue[i].by].commit
          /\ queue'[i] = queue[i] /\ i \in DOMAIN queue'
      BY <1>5, <1>6, <1>7
    <3>3. queue[i].waited => agents'[queue[i].by].pc = "requested"
      BY <1>6, <1>7, <3>1 DEF Asked
    <3> QED
      BY <1>3, <1>8, <3>2, <3>3, AskedKept
  <2>2. ASSUME NEW i \in DOMAIN queue', i = Len(queue) + 1 PROVE Asked(i)'
    <3>1. ~(txn'.on /\ i = 1) /\ queue'[i] = r
      BY <1>3, <1>5, <1>10, <2>2
    <3>2. r.op = "upload" => n + 1 \in 1..Files[c] /\ (n + 1) - 1 = n
      BY <1>0, <1>2, <1>4
    <3>3. r.op = "complete" => n = Files[c]
      BY <1>0, <1>2, <1>4
    <3> HIDE DEF n
    <3> QED
      BY <1>2, <1>3, <1>4, <1>5, <1>6, <3>1, <3>2, <3>3 DEF Asked
  <2> QED
    BY <1>5, <2>1, <2>2
<1>12. \A i, j \in DOMAIN queue' :
          queue'[i].by = queue'[j].by /\ queue'[i].waited /\ queue'[j].waited => i = j
  BY <1>4, <1>5, <1>7 DEF WholeInv
<1>13. \A s \in saves' : s.waited => agents'[s.by].pc = "saving"
  BY <1>0, <1>3, <1>6 DEF WholeInv, MixInv, Shape, Save
<1>14. txn'.on => Whole(txn'.row, agents'[queue'[1].by].commit)
  BY <1>3, <1>5, <1>6, <1>7, <1>10 DEF WholeInv
<1> QED
  BY <1>3, <1>9, <1>11, <1>12, <1>13, <1>14 DEF WholeInv

(* An agent stops or gives up on its request; what it has sent stays. *)
LEMMA WholeLeaves ==
    ASSUME WholeInv, MixInv', NEW u \in Uploader, Timeout(u) \/ StopAgent(u)
    PROVE  WholeInv'
<1>0. agents \in [Uploader -> AgentState] /\ queue \in Seq(Message) /\ saves \subseteq Save
      /\ "stopped" \in Stages
  BY DEF WholeInv, MixInv, Shape, Stages
<1>1. UNCHANGED <<sets, leases, rows, txn>> /\ queue' = Unawaited(u)
      /\ saves' = UnawaitedSaves(u)
      /\ (agents' = [agents EXCEPT ![u].pc = "stopped"] \/ agents' = Failed({u}))
  BY DEF StopAgent, Timeout, Unawaited, UnawaitedSaves
<1>2. /\ agents'[u].pc \in {"stopped", "asking", "gaveup"}
      /\ \A v \in Uploader : agents'[v].commit = agents[v].commit
      /\ \A v \in Uploader \ {u} : agents'[v] = agents[v]
  <2>1. CASE agents' = [agents EXCEPT ![u].pc = "stopped"]
    BY <1>0, <2>1, Onward
  <2>2. CASE agents' = Failed({u})
    BY <1>0, <2>2, FailedAgents
  <2> QED
    BY <1>1, <2>1, <2>2
<1>3. Kept
  BY <1>1 DEF Kept
<1>4. \A v \in Uploader : Progress(v)'
  BY <1>2, <1>3, ProgressKept
<1>5. /\ DOMAIN queue' = DOMAIN queue
      /\ \A i \in DOMAIN queue :
            /\ queue'[i].op = queue[i].op /\ queue'[i].by = queue[i].by
            /\ queue'[i].file = queue[i].file /\ queue'[i].old = queue[i].old
            /\ queue[i].by \in Uploader
            /\ queue'[i].waited => (queue[i].waited /\ queue[i].by # u)
      /\ \A s \in saves' : \E t \in saves : t.by = s.by /\ (s.waited => (t.waited /\ t.by # u))
  BY <1>0, <1>1, UnawaitedParts, QueueParts
<1>6. ASSUME NEW i \in DOMAIN queue' PROVE Asked(i)'
  <2>1. Asked(i) /\ i \in DOMAIN queue
    BY <1>5 DEF WholeInv
  <2>2. queue'[i].waited => queue[i].waited /\ agents'[queue[i].by].pc = "requested"
    BY <1>2, <1>5, <2>1 DEF Asked
  <2> QED
    BY <1>1, <1>2, <1>3, <1>5, <2>1, <2>2, AskedKept
<1>7. \A i, j \in DOMAIN queue' :
         queue'[i].by = queue'[j].by /\ queue'[i].waited /\ queue'[j].waited => i = j
  BY <1>5 DEF WholeInv
<1>8. \A s \in saves' : s.waited => agents'[s.by].pc = "saving"
  BY <1>0, <1>2, <1>5 DEF WholeInv, Save
<1>9. txn'.on => Whole(txn'.row, agents'[queue'[1].by].commit)
  <2>1. txn.on => 1 \in DOMAIN queue
    BY <1>0, QueueParts DEF WholeInv, MixInv
  <2> QED
    BY <1>1, <1>2, <1>5, <2>1 DEF WholeInv
<1> QED
  BY <1>1, <1>4, <1>6, <1>7, <1>8, <1>9 DEF WholeInv

(* Steps of the broker that leave what is asked of it alone, and change    *)
(* the agents of no request.                                               *)
LEMMA WholeKept ==
    ASSUME WholeInv, MixInv', Kept, queue' = queue,
           txn'.on => txn.on, txn'.row = txn.row,
           \A c \in Commit : Whole(sets'[c], c) /\ Whole(rows'[c], c) /\ Whole(txn'.sets[c], c),
           \A v \in Uploader : agents'[v].commit = agents[v].commit,
           \A v \in Uploader : agents'[v].pc \in {"sending", "saving"} =>
               agents'[v] = agents[v] \/ agents'[v].sent = 0,
           \A i \in DOMAIN queue : queue[i].waited => agents'[queue[i].by].pc = "requested",
           \A s \in saves' : s.waited => agents'[s.by].pc = "saving"
    PROVE  WholeInv'
<1>0. queue \in Seq(Message) /\ agents' \in [Uploader -> AgentState]
  BY DEF WholeInv, MixInv, Shape
<1>1. ASSUME NEW v \in Uploader PROVE Progress(v)'
  <2>1. CASE agents'[v] = agents[v] \/ agents'[v].pc \notin {"sending", "saving"}
    BY <2>1, ProgressKept
  <2>2. CASE agents'[v].sent = 0 /\ agents'[v].pc \in {"sending", "saving"}
    <3>1. agents'[v].commit \in Commit
      BY <2>2 DEF MixInv, Deployed
    <3>2. agents'[v].sent <= Files[agents'[v].commit]
      BY <2>2, <3>1, FilesPaths
    <3>3. Has(sets'[agents'[v].commit], agents'[v].sent)
      BY <2>2 DEF Has
    <3> QED
      BY <2>2, <3>2, <3>3 DEF Progress
  <2> QED
    BY <2>1, <2>2
<1>2. ASSUME NEW i \in DOMAIN queue' PROVE Asked(i)'
  <2>1. queue'[i] = queue[i] /\ queue[i].by \in Uploader
    BY <1>0, QueueParts
  <2> QED
    BY <2>1, AskedKept
<1>3. txn'.on => Whole(txn'.row, agents'[queue'[1].by].commit)
  <2>1. txn.on => 1 \in DOMAIN queue
    BY <1>0, QueueParts DEF WholeInv, MixInv
  <2> QED
    BY <1>0, <2>1, QueueParts DEF WholeInv
<1> QED
  BY <1>1, <1>2, <1>3 DEF WholeInv

(* A claim: the maps of the former holder are nobody's progress any more. *)
LEMMA WholeClaim ==
    ASSUME WholeInv, MixInv', NEW u \in Uploader, NEW c \in Commit, c = agents[u].commit,
           agents[u].pc = "asking", ~sets[c].complete,
           sets' = [sets EXCEPT ![c] = Claimed(c, u)],
           leases' = [leases EXCEPT ![c] = [by |-> u, left |-> LeaseUnits]],
           UNCHANGED <<rows, txn>>, queue' = IF leases[c].by # u THEN Aged(u) ELSE queue,
           NEW pc \in {"saving", "sending"},
           agents' = [agents EXCEPT ![u].pc = pc, ![u].sent = 0],
           saves' \subseteq saves \cup {[by |-> u, waited |-> TRUE]},
           pc = "sending" => saves' = saves
    PROVE  WholeInv'
<1>0. /\ agents \in [Uploader -> AgentState] /\ queue \in Seq(Message) /\ saves \subseteq Save
      /\ sets \in [Commit -> SetRecord] /\ leases \in [Commit -> Lease]
      /\ pc \in Stages /\ 0 \in Nat /\ u # NoOne
  BY SourceMapsAssumption DEF WholeInv, MixInv, Shape, Stages
<1>1. /\ agents'[u].pc = pc /\ agents'[u].sent = 0 /\ agents'[u].commit = c
      /\ \A v \in Uploader \ {u} : agents'[v] = agents[v]
  BY <1>0 DEF AgentState
<1>2. /\ leases'[c].by = u /\ \A d \in Commit \ {c} : leases'[d] = leases[d] /\ sets'[d] = sets[d]
      /\ sets'[c] = Claimed(c, u)
  BY <1>0
<1>3. \A d \in Commit : Whole(sets'[d], d)
  BY <1>2, ClaimedSet DEF WholeInv, Whole
<1>4. /\ DOMAIN queue' = DOMAIN queue
      /\ \A i \in DOMAIN queue :
            /\ queue[i].by \in Uploader /\ (queue[i].waited => queue[i].by # u)
            /\ agents[queue[i].by].commit \in Commit
            /\ queue'[i].op = queue[i].op /\ queue'[i].by = queue[i].by
            /\ queue'[i].file = queue[i].file /\ queue'[i].waited = queue[i].waited
            /\ queue'[i] = queue[i] \/ (queue[i].by = u /\ leases[c].by # u /\ queue'[i].old)
  <2>1. \A i \in DOMAIN queue : /\ queue[i].by \in Uploader /\ (queue[i].waited => queue[i].by # u)
                                /\ agents[queue[i].by].commit \in Commit
    BY <1>0, QueueParts DEF WholeInv, Asked, MixInv, Deployed
  <2> QED
    BY <1>0, <2>1, AgedParts
<1>5. ASSUME NEW v \in Uploader PROVE Progress(v)'
  <2>1. CASE v = u
    <3>1. 0 <= Files[c] /\ Has(sets'[c], 0)
      BY FilesPaths DEF Has
    <3> QED
      BY <1>1, <2>1, <3>1 DEF Progress
  <2>2. CASE v # u
    <3>1. Progress(v) /\ agents'[v] = agents[v]
          /\ (agents[v].pc # "stopped" => agents[v].commit \in Commit)
      BY <1>1, <2>2 DEF WholeInv, MixInv, Deployed
    <3>2. CASE agents[v].commit = c
      BY <1>2, <2>2, <3>1, <3>2 DEF Progress
    <3>3. CASE agents[v].commit # c
      BY <1>2, <2>2, <3>1, <3>3 DEF Progress
    <3> QED
      BY <3>2, <3>3
  <2> QED
    BY <2>1, <2>2
<1>6. ASSUME NEW i \in DOMAIN queue' PROVE Asked(i)'
  <2> DEFINE v == queue[i].by
  <2>1. Asked(i) /\ i \in DOMAIN queue /\ v \in Uploader /\ txn' = txn
        /\ queue'[i].op = queue[i].op /\ queue'[i].by = v
        /\ queue'[i].file = queue[i].file /\ queue'[i].waited = queue[i].waited
        /\ agents'[v].commit = agents[v].commit /\ agents[v].commit \in Commit
        /\ (queue[i].waited => v # u /\ agents'[v] = agents[v])
    BY <1>1, <1>4 DEF WholeInv
  <2>2. CASE v # u /\ agents[v].commit = c
    <3>1. leases'[agents[v].commit].by # v /\ queue'[i] = queue[i]
      BY <1>2, <1>4, <2>1, <2>2
    <3> QED
      BY <2>1, <3>1 DEF Asked
  <2>3. CASE v # u /\ agents[v].commit # c
    <3>1. leases'[agents[v].commit] = leases[agents[v].commit] /\ queue'[i] = queue[i]
          /\ sets'[agents[v].commit] = sets[agents[v].commit]
      BY <1>2, <1>4, <2>1, <2>3
    <3> QED
      BY <2>1, <3>1 DEF Asked
  <2>4. CASE v = u /\ leases[c].by # u
    <3>1. queue'[i].old /\ ~queue'[i].waited
      BY <1>0, <1>4, <2>1, <2>4, AgedParts
    <3> QED
      BY <2>1, <3>1 DEF Asked
  <2>5. CASE v = u /\ leases[c].by = u
    <3>1. queue'[i] = queue[i] /\ ~queue[i].waited /\ sets'[c] = sets[c]
      BY <1>0, <1>2, <1>4, <2>1, <2>5, ClaimedSet DEF WholeInv
    <3> QED
      BY <1>1, <2>1, <2>5, <3>1 DEF Asked
  <2> QED
    BY <2>2, <2>3, <2>4, <2>5
<1>7. \A s \in saves' : s.waited => agents'[s.by].pc = "saving"
  <2>1. \A s \in saves : s.by \in Uploader /\ (s.waited => agents[s.by].pc = "saving")
    BY <1>0 DEF WholeInv, Save
  <2>2. \A s \in saves : s.waited => agents'[s.by].pc = "saving"
    BY <1>1, <2>1
  <2>3. CASE pc = "sending"
    BY <2>2, <2>3
  <2>4. CASE pc = "saving"
    <3>1. \A s \in saves' : s \in saves \/ s.by = u
      OBVIOUS
    <3> QED
      BY <1>1, <2>2, <2>4, <3>1
  <2> QED
    BY <2>3, <2>4
<1>8. txn'.on => Whole(txn'.row, agents'[queue'[1].by].commit)
  <2>1. txn.on => 1 \in DOMAIN queue
    BY <1>0, QueueParts DEF WholeInv, MixInv
  <2>2. txn' = txn /\ \A i \in DOMAIN queue : agents'[queue'[i].by].commit = agents[queue[i].by].commit
    BY <1>1, <1>4
  <2> QED
    BY <2>1, <2>2 DEF WholeInv
<1>9. \A i, j \in DOMAIN queue' :
         queue'[i].by = queue'[j].by /\ queue'[i].waited /\ queue'[j].waited => i = j
  BY <1>4 DEF WholeInv
<1> QED
  BY <1>3, <1>5, <1>6, <1>7, <1>8, <1>9 DEF WholeInv

LEMMA WholeStatus ==
    ASSUME WholeInv, MixInv', NEW u \in Uploader, Status(u)
    PROVE  WholeInv'
<1> DEFINE c == agents[u].commit
           emptied == sets[c].maps # NoSet.maps /\ Claimed(c, u).maps = NoSet.maps
<1>0. /\ agents \in [Uploader -> AgentState] /\ queue \in Seq(Message) /\ saves \subseteq Save
      /\ agents[u].pc = "asking" /\ c \in Commit /\ UNCHANGED <<rows, txn>>
  BY DEF WholeInv, MixInv, Shape, Status, Deployed
<1>1. ASSUME UNCHANGED <<sets, leases, saves, queue>>,
             \A v \in Uploader : agents'[v].commit = agents[v].commit,
             \A v \in Uploader \ {u} : agents'[v] = agents[v],
             agents'[u].pc \notin {"sending", "saving"}
      PROVE  WholeInv'
  <2>1. Kept
    BY <1>1 DEF Kept
  <2>2. \A i \in DOMAIN queue : queue[i].waited => agents'[queue[i].by].pc = "requested"
    BY <1>0, <1>1, QueueParts DEF WholeInv, Asked
  <2>3. \A s \in saves' : s.waited => agents'[s.by].pc = "saving"
    BY <1>0, <1>1 DEF WholeInv, Save
  <2> QED
    BY <1>0, <1>1, <2>1, <2>2, <2>3, WholeKept DEF WholeInv
<1>2. CASE agents' = [agents EXCEPT ![u].pc = "done"] /\ UNCHANGED <<sets, leases, saves, queue>>
  <2>1. "done" \in Stages
    BY DEF Stages
  <2> QED
    BY <1>0, <1>1, <1>2, <2>1, Onward
<1>3. CASE /\ ~sets[c].complete
           /\ sets' = [sets EXCEPT ![c] = Claimed(c, u)]
           /\ leases' = [leases EXCEPT ![c] = [by |-> u, left |-> LeaseUnits]]
           /\ saves' = IF emptied THEN saves \cup {[by |-> u, waited |-> TRUE]} ELSE saves
           /\ agents' = [agents EXCEPT ![u].pc = IF emptied THEN "saving" ELSE "sending",
                                       ![u].sent = 0]
           /\ queue' = IF leases[c].by # u THEN Aged(u) ELSE queue
  <2> HIDE DEF emptied
  <2>1. CASE emptied
    <3>1. agents' = [agents EXCEPT ![u].pc = "saving", ![u].sent = 0]
      BY <1>3, <2>1
    <3> QED
      BY <1>0, <1>3, <2>1, <3>1, WholeClaim
  <2>2. CASE ~emptied
    <3>1. agents' = [agents EXCEPT ![u].pc = "sending", ![u].sent = 0]
      BY <1>3, <2>2
    <3> QED
      BY <1>0, <1>3, <2>2, <3>1, WholeClaim
  <2> QED
    BY <2>1, <2>2
<1>4. CASE agents' = [agents EXCEPT ![u] = WaitOrGiveUp(@)] /\ UNCHANGED <<sets, leases, saves, queue>>
  <2>1. /\ agents'[u].pc \in {"waiting", "gaveup"}
        /\ \A v \in Uploader : agents'[v].commit = agents[v].commit
        /\ \A v \in Uploader \ {u} : agents'[v] = agents[v]
    BY <1>0, <1>4, WaitingAgent
  <2> QED
    BY <1>1, <1>4, <2>1
<1> QED
  BY <1>2, <1>3, <1>4 DEF Status

LEMMA WholeSaveEnds ==
    ASSUME WholeInv, MixInv', NEW s \in saves, SaveEnds(s)
    PROVE  WholeInv'
<1> DEFINE u == s.by
<1>0. /\ agents \in [Uploader -> AgentState] /\ queue \in Seq(Message) /\ saves \subseteq Save
      /\ u \in Uploader /\ "sending" \in Stages
      /\ saves' = saves \ {s} /\ UNCHANGED <<sets, leases, queue, txn>>
  BY DEF WholeInv, MixInv, Shape, Stages, SaveEnds, Save
<1>1. \/ s.waited /\ agents' = [agents EXCEPT ![u].pc = "sending"]
      \/ s.waited /\ agents' = Failed({u})
      \/ agents' = agents
  BY DEF SaveEnds
<1>2. s.waited => agents[u].pc = "saving" /\ agents[u].sent = 0
  BY <1>0 DEF WholeInv, Progress
<1>3. /\ \A v \in Uploader : agents'[v].commit = agents[v].commit
      /\ \A v \in Uploader \ {u} : agents'[v] = agents[v]
      /\ agents'[u] = agents[u] \/ (s.waited /\ (agents'[u].pc \in {"asking", "gaveup"}
                                                 \/ agents'[u].sent = 0))
  <2>1. CASE s.waited /\ agents' = [agents EXCEPT ![u].pc = "sending"]
    BY <1>0, <1>2, <2>1, Onward
  <2>2. CASE s.waited /\ agents' = Failed({u})
    BY <1>0, <2>2, FailedAgents
  <2> QED
    BY <1>1, <2>1, <2>2
<1>4. Kept
  BY <1>0 DEF Kept
<1>5. \A c \in Commit : Whole(rows'[c], c)
  <2>1. StoreSet(agents[u].commit, NewSet) \/ rows' = rows
    BY DEF SaveEnds
  <2>2. CASE StoreSet(agents[u].commit, NewSet)
    BY <2>2, NoSetType DEF StoreSet, WholeInv, Whole
  <2> QED
    BY <2>1, <2>2 DEF WholeInv
<1>6. \A i \in DOMAIN queue : queue[i].waited => agents'[queue[i].by].pc = "requested"
  <2>1. \A i \in DOMAIN queue : queue[i].by \in Uploader
                                /\ (queue[i].waited => agents[queue[i].by].pc = "requested")
    BY <1>0, QueueParts DEF WholeInv, Asked
  <2> QED
    BY <1>2, <1>3, <2>1
<1>7. \A t \in saves' : t.waited => agents'[t.by].pc = "saving"
  <2>1. ASSUME NEW t \in saves, t # s, t.waited
        PROVE  agents'[t.by].pc = "saving"
    <3>1. agents[t.by].pc = "saving" /\ t.by \in Uploader
      BY <1>0, <2>1 DEF WholeInv, Save
    <3>2. ~(s.waited /\ t.by = u)
      BY <1>0, <2>1 DEF Save
    <3> QED
      BY <1>3, <3>1, <3>2
  <2> QED
    BY <1>0, <2>1
<1> QED
  BY <1>0, <1>3, <1>4, <1>5, <1>6, <1>7, WholeKept DEF WholeInv

(* The broker has answered the request at the head of the queue. *)
LEMMA WholeAnswered ==
    ASSUME WholeInv, MixInv', Kept, queue # <<>>, queue' = Tail(queue), saves' = saves, ~txn'.on,
           \A c \in Commit : Whole(sets'[c], c) /\ Whole(rows'[c], c) /\ Whole(txn'.sets[c], c),
           NEW r, NEW u \in Uploader, r = Head(queue), u = r.by,
           \A v \in Uploader : agents'[v].commit = agents[v].commit,
           \A v \in Uploader \ {u} : agents'[v] = agents[v],
           \/ agents'[u] = agents[u]
           \/ r.waited /\ (agents'[u].pc \in {"asking", "gaveup", "done"} \/ Progress(u)')
    PROVE  WholeInv'
<1>0. agents \in [Uploader -> AgentState] /\ queue \in Seq(Message) /\ saves \subseteq Save
  BY DEF WholeInv, MixInv, Shape
<1>1. /\ r = queue[1] /\ 1 \in DOMAIN queue /\ Len(queue) \in Nat \ {0}
      /\ DOMAIN queue = 1..Len(queue) /\ DOMAIN queue' = 1..(Len(queue) - 1)
      /\ \A i \in DOMAIN queue' : queue'[i] = queue[i + 1]
  BY <1>0, TailParts, QueueParts
<1>2. \A i \in DOMAIN queue' : i + 1 \in DOMAIN queue /\ i + 1 # 1 /\ i \in Nat
  BY <1>1
<1>3. \A i \in DOMAIN queue' : /\ queue[i + 1].by \in Uploader
                               /\ queue[i + 1].waited /\ r.waited => queue[i + 1].by # u
  BY <1>0, <1>1, <1>2, QueueParts DEF WholeInv
<1>4. ASSUME NEW v \in Uploader PROVE Progress(v)'
  <2>1. CASE agents'[v] = agents[v] \/ agents'[v].pc \in {"asking", "gaveup", "done"}
    BY <2>1, ProgressKept
  <2> QED
    BY <2>1
<1>5. ASSUME NEW i \in DOMAIN queue' PROVE Asked(i)'
  <2>1. PICK j \in DOMAIN queue : j = i + 1
    BY <1>2
  <2>2. Asked(j) /\ queue'[i] = queue[j] /\ queue[j].by \in Uploader
        /\ (queue[j].waited => agents'[queue[j].by] = agents[queue[j].by])
    BY <1>1, <1>3, <2>1 DEF WholeInv
  <2>3. queue[j].waited => agents'[queue[j].by].pc = "requested"
    BY <2>2 DEF Asked
  <2> QED
    BY <2>2, <2>3, AskedKept
<1>6. \A i, j \in DOMAIN queue' :
         queue'[i].by = queue'[j].by /\ queue'[i].waited /\ queue'[j].waited => i = j
  <2> SUFFICES ASSUME NEW i \in DOMAIN queue', NEW j \in DOMAIN queue', queue'[i].by = queue'[j].by,
                      queue'[i].waited, queue'[j].waited
               PROVE  i = j
    OBVIOUS
  <2>1. i + 1 = j + 1
    BY <1>1, <1>2 DEF WholeInv
  <2> QED
    BY <1>2, <2>1
<1>7. \A s \in saves' : s.waited => agents'[s.by].pc = "saving"
  <2>1. Asked(1)
    BY <1>1 DEF WholeInv
  <2>2. r.waited => agents[u].pc = "requested"
    BY <1>1, <2>1 DEF Asked
  <2> QED
    BY <1>0, <2>2 DEF WholeInv, Save
<1> QED
  BY <1>4, <1>5, <1>6, <1>7 DEF WholeInv

(* A mutation begins its persist. *)
LEMMA WholeBegins ==
    ASSUME WholeInv, MixInv', Kept, ~txn.on, queue # <<>>, NEW c \in Commit,
           c = agents[queue[1].by].commit, Begins(c), UNCHANGED <<rows, saves, queue, agents>>,
           \A d \in Commit : Whole(sets'[d], d),
           (queue[1].op = "upload" /\ queue[1].waited /\ leases'[c].by = queue[1].by)
              => Has(sets'[c], queue[1].file)
    PROVE  WholeInv'
<1>0. agents \in [Uploader -> AgentState] /\ queue \in Seq(Message)
  BY DEF WholeInv, MixInv, Shape
<1>1. txn'.on /\ txn'.sets = sets /\ txn'.row = sets'[c]
  BY DEF Begins
<1>2. 1 \in DOMAIN queue /\ \A i \in DOMAIN queue : queue[i].by \in Uploader
  BY <1>0, QueueParts
<1>3. \A v \in Uploader : Progress(v)'
  BY ProgressKept
<1>4. ASSUME NEW i \in DOMAIN queue' PROVE Asked(i)'
  <2>1. Asked(i)
    BY DEF WholeInv
  <2>2. queue[i].waited => agents[queue[i].by].pc = "requested" /\ ~queue[i].old
    BY <2>1 DEF Asked
  <2>3. CASE i # 1
    BY <2>2, <2>3, AskedKept
  <2>4. CASE i = 1
    <3>1. queue[1].file \in Nat /\ Files[c] \in Nat
      BY <1>0, <1>2, QueueParts, FilesPaths
    <3>2. queue[1].op = "upload" => queue[1].file \in 1..Files[c]
      BY <2>1, <2>4 DEF Asked
    <3>3. (queue[1].op = "upload" /\ queue[1].waited /\ leases'[c].by = queue[1].by)
             => Has(sets'[c], queue[1].file - 1)
      <4>1. \A f \in 1..(queue[1].file - 1) : f \in 1..queue[1].file
        BY <3>1
      <4> QED
        BY <4>1, Zenon DEF Has
    <3>4. (queue[1].op = "complete" /\ ~queue[1].old /\ leases'[c].by = queue[1].by)
             => Has(sets'[c], Files[c])
      <4>1. leases[c].by = queue[1].by /\ queue[1].op = "complete" /\ ~queue[1].old => Has(sets[c], Files[c])
        BY <2>1, <2>4 DEF Asked
      <4> QED
        BY <1>2, <3>1, <4>1, HasKept
    <3> QED
      BY <2>2, <2>4, <3>2, <3>3, <3>4 DEF Asked
  <2> QED
    BY <2>3, <2>4
<1> QED
  BY <1>1, <1>3, <1>4 DEF WholeInv

LEMMA WholeMutate ==
    ASSUME WholeInv, MixInv', Mutate
    PROVE  WholeInv'
<1> DEFINE r == Head(queue)
           u == r.by
           c == agents[u].commit
<1>0. /\ agents \in [Uploader -> AgentState] /\ queue \in Seq(Message) /\ MixInv
      /\ queue # <<>> /\ ~txn.on
  BY DEF WholeInv, MixInv, Shape, Mutate
<1>1. r = queue[1] /\ 1 \in DOMAIN queue /\ u \in Uploader /\ r.file \in Nat /\ r.old \in BOOLEAN
  BY <1>0, QueueParts
<1>2. c \in Commit /\ Asked(1) /\ Files[c] \in Nat /\ u # NoOne
  BY <1>1, FilesPaths, SourceMapsAssumption DEF WholeInv, MixInv, Deployed
<1>3. CASE Uploads(u, c, r.file) /\ r.op = "upload" /\ Begins(c) /\ UNCHANGED <<rows, saves>>
  <2>1. /\ \A d \in Commit : leases'[d].by = leases[d].by
        /\ \A d \in Commit \ {c} : sets'[d] = sets[d]
        /\ ~sets'[c].complete
        /\ \A f \in Path : sets'[c].maps[f] = IF f = r.file THEN u ELSE sets[c].maps[f]
    BY <1>0, <1>1, <1>2, <1>3, MixUploads
  <2>2. Kept
    BY <1>2, <2>1 DEF Kept
  <2>3. \A d \in Commit : Whole(sets'[d], d)
    BY <2>1 DEF WholeInv, Whole
  <2>4. leases[c].by = u /\ UNCHANGED <<queue, agents>>
    BY <1>3 DEF Uploads, Holds
  <2>5. r.waited => Has(sets'[c], r.file)
    <3> SUFFICES ASSUME r.waited PROVE Has(sets'[c], r.file)
      OBVIOUS
    <3>1. r.file \in 1..Files[c] /\ Has(sets[c], r.file - 1)
      BY <1>1, <1>2, <1>3, <2>4 DEF Asked
    <3>2. ASSUME NEW f \in 1..r.file PROVE sets'[c].maps[f] # NoOne
      <4>1. f \in Path /\ (f = r.file \/ f \in 1..(r.file - 1))
        BY <1>1, <1>2, <3>1, FilesPaths
      <4> QED
        BY <1>2, <2>1, <3>1, <4>1 DEF Has
    <3> QED
      BY <3>2 DEF Has
  <2> QED
    BY <1>0, <1>1, <1>2, <1>3, <2>2, <2>3, <2>4, <2>5, WholeBegins
<1>4. CASE Completes(u, c, r.old) /\ r.op = "complete" /\ Begins(c) /\ UNCHANGED <<rows, saves>>
  <2>1. Complete(c, r.old) /\ leases[c].by = u /\ UNCHANGED <<queue, agents>>
    BY <1>4 DEF Completes, Holds
  <2>2. /\ sets'[c].maps = sets[c].maps /\ leases'[c] = NoLease /\ sets'[c].stray = r.old
        /\ \A d \in Commit \ {c} : \/ sets'[d] = sets[d] /\ leases'[d] \in {leases[d], NoLease}
                                   \/ sets'[d] = NoSet /\ leases'[d] = NoLease
                                   \/ sets'[d] = NoSet /\ leases'[d] = leases[d] /\ ~sets[d].there
    BY <1>0, <1>1, <1>2, <2>1, CompletedSets
  <2>3. NoLease.by = NoOne
    BY DEF NoLease
  <2>4. Kept
    <3>1. \A d \in Commit : ~sets[d].there => \A f \in Path : sets[d].maps[f] = NoOne
      BY <1>0 DEF MixInv, Good, Clean
    <3> QED
      BY <2>2, <2>3, <3>1 DEF Kept
  <2>5. ~r.old => Has(sets[c], Files[c])
    BY <1>1, <1>2, <1>4, <2>1 DEF Asked
  <2>6. \A d \in Commit : Whole(sets'[d], d)
    <3>1. Whole(sets'[c], c)
      BY <2>2, <2>5 DEF Whole, Has
    <3>2. ASSUME NEW d \in Commit \ {c} PROVE Whole(sets'[d], d)
      <4>1. Whole(NoSet, d) /\ Whole(sets[d], d)
        BY NoSetType DEF WholeInv, Whole
      <4>2. sets'[d] = sets[d] \/ sets'[d] = NoSet
        BY <2>2
      <4> QED
        BY <4>1, <4>2
    <3> QED
      BY <3>1, <3>2
  <2> QED
    BY <1>0, <1>1, <1>2, <1>4, <2>1, <2>4, <2>6, WholeBegins
<1>5. CASE Refuses(u, r) /\ UNCHANGED <<rows, saves>>
  <2>1. queue' = Tail(queue) /\ UNCHANGED <<sets, leases, txn, rows, saves>>
        /\ agents' = IF r.waited THEN Failed({u}) ELSE agents
    BY <1>5 DEF Refuses
  <2>2. Kept
    BY <2>1 DEF Kept
  <2>3. /\ \A v \in Uploader : agents'[v].commit = agents[v].commit
        /\ \A v \in Uploader \ {u} : agents'[v] = agents[v]
        /\ agents'[u] = agents[u] \/ (r.waited /\ agents'[u].pc \in {"asking", "gaveup"})
    BY <1>0, <1>1, <2>1, FailedAgents
  <2> QED
    BY <1>0, <1>1, <2>1, <2>2, <2>3, WholeAnswered DEF WholeInv
<1> QED
  BY <1>3, <1>4, <1>5, MutateCases

LEMMA WholePersisted ==
    ASSUME WholeInv, MixInv', Persisted
    PROVE  WholeInv'
<1> DEFINE r == Head(queue)
           u == r.by
           c == agents[u].commit
<1>0. /\ agents \in [Uploader -> AgentState] /\ queue \in Seq(Message)
      /\ queue # <<>> /\ txn.on /\ queue' = Tail(queue) /\ txn' = NoTxn
      /\ UNCHANGED <<sets, leases, saves>> /\ StoreSet(c, txn.row)
      /\ "sending" \in Stages /\ "done" \in Stages
  BY DEF WholeInv, MixInv, Shape, Persisted, Stages
<1>1. r = queue[1] /\ 1 \in DOMAIN queue /\ u \in Uploader /\ r.file \in Nat
      /\ r.op \in {"upload", "complete"}
  BY <1>0, QueueParts
<1>2. c \in Commit /\ Asked(1) /\ Files[c] \in Nat
  BY <1>1, FilesPaths DEF WholeInv, MixInv, Deployed
<1>3. Kept
  BY <1>0 DEF Kept
<1>4. \A d \in Commit : Whole(rows'[d], d)
  BY <1>0, <1>1, NoSetType DEF StoreSet, WholeInv, Whole
<1>5. \/ agents' = agents
      \/ r.waited /\ r.op = "upload"
         /\ agents' = [agents EXCEPT ![u].pc = "sending", ![u].sent = r.file]
      \/ r.waited /\ agents' = [agents EXCEPT ![u].pc = "done"]
  BY DEF Persisted
<1>6. ASSUME r.waited, r.op = "upload",
             agents' = [agents EXCEPT ![u].pc = "sending", ![u].sent = r.file]
      PROVE  /\ \A v \in Uploader : agents'[v].commit = agents[v].commit
             /\ \A v \in Uploader \ {u} : agents'[v] = agents[v]
             /\ agents'[u].pc = "sending" /\ agents'[u].sent = r.file
  <2> HIDE DEF r
  <2> QED
    BY <1>0, <1>1, <1>6 DEF AgentState
<1>7. ASSUME NEW v, v = u, r.waited, r.op = "upload",
             agents' = [agents EXCEPT ![u].pc = "sending", ![u].sent = r.file]
      PROVE  Progress(v)'
  <2>1. agents'[v].commit = c /\ agents'[v].pc = "sending" /\ agents'[v].sent = r.file
    BY <1>1, <1>6, <1>7
  <2>2. r.file \in 1..Files[c] /\ (leases[c].by = u => Has(sets[c], r.file))
    BY <1>0, <1>1, <1>2, <1>7 DEF Asked
  <2>3. r.file <= Files[c]
    BY <1>1, <1>2, <2>2
  <2> HIDE DEF r
  <2> QED
    BY <1>0, <1>7, <2>1, <2>2, <2>3 DEF Progress
<1>8. \A d \in Commit : Whole(txn'.sets[d], d)
  BY <1>0, NoTxnType, NoSetType DEF Whole
<1>9. CASE agents' = agents
  BY <1>0, <1>1, <1>3, <1>4, <1>8, <1>9, NoTxnType, WholeAnswered DEF WholeInv
<1>10. CASE r.waited /\ r.op = "upload"
            /\ agents' = [agents EXCEPT ![u].pc = "sending", ![u].sent = r.file]
  BY <1>0, <1>1, <1>3, <1>4, <1>6, <1>7, <1>8, <1>10, NoTxnType, WholeAnswered DEF WholeInv
<1>11. CASE r.waited /\ agents' = [agents EXCEPT ![u].pc = "done"]
  <2>1. /\ \A v \in Uploader : agents'[v].commit = agents[v].commit
        /\ \A v \in Uploader \ {u} : agents'[v] = agents[v]
        /\ agents'[u].pc = "done"
    BY <1>0, <1>1, <1>11, Onward
  <2> QED
    BY <1>0, <1>1, <1>3, <1>4, <1>8, <1>11, <2>1, NoTxnType, WholeAnswered DEF WholeInv
<1> QED
  BY <1>5, <1>9, <1>10, <1>11

LEMMA WholePersistFails ==
    ASSUME WholeInv, MixInv', PersistFails
    PROVE  WholeInv'
<1> DEFINE r == Head(queue)
           u == r.by
<1>0. /\ agents \in [Uploader -> AgentState] /\ queue \in Seq(Message)
      /\ queue # <<>> /\ txn.on /\ queue' = Tail(queue) /\ txn' = NoTxn
      /\ sets' = txn.sets /\ leases' = NoLeases /\ UNCHANGED <<rows, saves>>
  BY DEF WholeInv, MixInv, Shape, PersistFails
<1>1. u \in Uploader
  BY <1>0, QueueParts
<1>2. Kept
  BY <1>0, NoLeasesType DEF Kept
<1>3. /\ \A v \in Uploader : agents'[v].commit = agents[v].commit
      /\ \A v \in Uploader \ {u} : agents'[v] = agents[v]
      /\ agents'[u] = agents[u] \/ (r.waited /\ agents'[u].pc \in {"asking", "gaveup"})
  BY <1>0, <1>1, FailedAgents DEF PersistFails
<1>4. \A d \in Commit : Whole(txn'.sets[d], d)
  BY <1>0, NoTxnType, NoSetType DEF Whole
<1> QED
  BY <1>0, <1>1, <1>2, <1>3, <1>4, NoTxnType, WholeAnswered DEF WholeInv

LEMMA WholeOthers ==
    ASSUME WholeInv, MixInv', OtherMutationFails \/ Restart \/ Tick \/ UNCHANGED mapsVars
    PROVE  WholeInv'
<1>0. /\ agents \in [Uploader -> AgentState] /\ queue \in Seq(Message) /\ saves \subseteq Save
      /\ leases \in [Commit -> Lease]
  BY DEF WholeInv, MixInv, Shape
<1>1. CASE OtherMutationFails
  <2>1. leases' = NoLeases /\ UNCHANGED <<sets, rows, queue, txn, saves, agents>>
    BY <1>1 DEF OtherMutationFails
  <2>2. Kept
    BY <2>1, NoLeasesType DEF Kept
  <2> QED
    BY <1>0, <2>1, <2>2, QueueParts, WholeKept DEF WholeInv, Asked
<1>2. CASE Restart
  <2>1. /\ sets' = rows /\ leases' = NoLeases /\ queue' = <<>> /\ txn' = NoTxn /\ saves' = {}
        /\ rows' = rows
        /\ agents' = Failed({u \in Uploader : agents[u].pc \in {"requested", "saving"}})
    BY <1>2 DEF Restart
  <2>2. Kept
    BY <2>1, NoLeasesType DEF Kept
  <2>3. \A v \in Uploader : Progress(v)'
    BY <1>0, <2>1, <2>2, FailedAgents, ProgressKept
  <2>4. DOMAIN queue' = {} /\ ~txn'.on
    BY <2>1, NoTxnType
  <2>5. \A d \in Commit : Whole(sets'[d], d) /\ Whole(rows'[d], d) /\ Whole(txn'.sets[d], d)
    BY <2>1, NoTxnType, NoSetType DEF Whole, WholeInv
  <2> QED
    BY <2>1, <2>3, <2>4, <2>5 DEF WholeInv
<1>3. CASE Tick
  <2>1. /\ leases' = [c \in Commit |-> [leases[c] EXCEPT !.left = IF @ > 0 THEN @ - 1 ELSE 0]]
        /\ agents' = [u \in Uploader |-> IF agents[u].pc = "waiting"
                                     THEN [agents[u] EXCEPT !.pc = "asking"] ELSE agents[u]]
        /\ UNCHANGED <<sets, rows, queue, txn, saves>>
    BY <1>3 DEF Tick
  <2>2. Kept
    <3>1. ASSUME NEW l \in Lease
          PROVE  [l EXCEPT !.left = IF @ > 0 THEN @ - 1 ELSE 0].by = l.by
      BY DEF Lease
    <3> QED
      BY <1>0, <2>1, <3>1 DEF Kept
  <2>3. \A v \in Uploader : /\ agents'[v].commit = agents[v].commit
                            /\ agents'[v] = agents[v]
                               \/ (agents[v].pc = "waiting" /\ agents'[v].pc = "asking")
    <3>1. ASSUME NEW a \in AgentState
          PROVE  [a EXCEPT !.pc = "asking"].pc = "asking"
                 /\ [a EXCEPT !.pc = "asking"].commit = a.commit
      BY DEF AgentState
    <3> QED
      BY <1>0, <2>1, <3>1
  <2>4. \A i \in DOMAIN queue : queue[i].by \in Uploader
                                /\ (queue[i].waited => agents[queue[i].by].pc = "requested")
    BY <1>0, QueueParts DEF WholeInv, Asked
  <2>5. \A s \in saves : s.by \in Uploader /\ (s.waited => agents[s.by].pc = "saving")
    BY <1>0 DEF WholeInv, Save
  <2> QED
    BY <2>1, <2>2, <2>3, <2>4, <2>5, WholeKept DEF WholeInv
<1>4. CASE UNCHANGED mapsVars
  <2>1. UNCHANGED <<sets, leases, rows, queue, txn, saves, agents>>
    BY <1>4 DEF mapsVars
  <2>2. Kept
    BY <2>1 DEF Kept
  <2> QED
    BY <1>0, <2>1, <2>2, QueueParts, WholeKept DEF WholeInv, Asked
<1> QED
  BY <1>1, <1>2, <1>3, <1>4

LEMMA WholeStep == WholeInv /\ [MapsNext]_mapsVars => WholeInv'
<1> SUFFICES ASSUME WholeInv, [MapsNext]_mapsVars PROVE WholeInv'
  OBVIOUS
<1>1. MixInv'
  BY MixStep DEF WholeInv
<1>2. ASSUME NEW u \in Uploader, Status(u) \/ Send(u) \/ Timeout(u) \/ StopAgent(u)
      PROVE  WholeInv'
  BY <1>1, <1>2, WholeStatus, WholeSend, WholeLeaves
<1>3. ASSUME NEW s \in saves, SaveEnds(s) PROVE WholeInv'
  BY <1>1, <1>3, WholeSaveEnds
<1> QED
  BY <1>1, <1>2, <1>3, WholeMutate, WholePersisted, WholePersistFails, WholeOthers DEF MapsNext

(* completeSourceMaps marks a set as complete on the word of an agent: the *)
(* agent is right, and a complete set, in memory or stored, has every map  *)
(* of its build, although any agent may give up on any request that the    *)
(* broker still works on; unless the word is older than a lease that the   *)
(* agent has had to claim anew.                                            *)
THEOREM CompletedSetsAreWhole == MapsSpec => []CompleteIsWhole
<1>1. WholeInv => CompleteIsWhole
  BY DEF WholeInv, Whole, CompleteIsWhole
<1> QED
  BY <1>1, WholeInitial, WholeStep, PTL DEF MapsSpec
=============================================================================
