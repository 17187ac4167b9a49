------------------------------- MODULE LongPoll -------------------------------
(***************************************************************************)
(* GET /v1/probes/:id/data?waitSeconds=N: requests that wait for a probe's *)
(* first event beside the mutations that produce events, remove probes and *)
(* may be rolled back (packages/broker/src/index.ts: waitForEvents,        *)
(* registerActivityListener, signalActivity, dispose and the route).       *)
(*                                                                         *)
(* `listeners` maps a probe to a Set object.  A request keeps the object   *)
(* it registered in for its whole wait, so Sets have an identity here: the *)
(* request that created them.  Only the number of retained events matters. *)
(***************************************************************************)
EXTENDS Naturals, FiniteSets

CONSTANTS
    Probe, Request,
    NoSet,         \* no Set under this key
    RingCapacity   \* events kept per probe

ASSUME RingCapacityType == RingCapacity \in Nat \ {0}
ASSUME NoSetType == NoSet \notin Request

VARIABLES
    minted,    \* probe ids ever created
    removed,   \* recentlyRemovedProbes
    overdue,   \* probes whose TTL has run out
    broker,    \* probes, expired and events of BrokerState
    saved,     \* the snapshot of the mutation whose persist is awaited, or {}
    polls,     \* the requests: their stage, probe and Set, and `listeners`
    closed     \* dispose has run

vars == <<minted, removed, overdue, broker, saved, polls, closed>>

Brokers == [probes : SUBSET Probe, expired : SUBSET Probe,
            events : [Probe -> 0 .. RingCapacity]]
Stages == {"idle", "waiting", "resumed", "answered"}
Polls == [stage : [Request -> Stages], target : [Request -> Probe],
          set : [Request -> Request \cup {NoSet}],
          listeners : [Probe -> Request \cup {NoSet}]]

Init ==
    /\ minted = {}
    /\ removed = {}
    /\ overdue = {}
    /\ broker = [probes |-> {}, expired |-> {}, events |-> [p \in Probe |-> 0]]
    /\ saved = {}
    /\ polls \in [stage : {[r \in Request |-> "idle"]}, target : [Request -> Probe],
                  set : {[r \in Request |-> NoSet]}, listeners : {[p \in Probe |-> NoSet]}]
    /\ closed = FALSE

-----------------------------------------------------------------------------
Members(l, s) == {r \in Request : l.stage[r] = "waiting" /\ l.set[r] = s}

(* MUTANT: the key goes with the first waiter that leaves. *)
FinishDroppingKey(l, R) ==
    [l EXCEPT
       !.stage = [r \in Request |-> IF r \in R THEN "resumed" ELSE l.stage[r]],
       !.listeners = [p \in Probe |-> IF \E r \in R : l.target[r] = p
                                      THEN NoSet ELSE l.listeners[p]]]

(* finish: leave the Set, and drop the key once the Set is empty. *)
Finish(l, R) ==
    [l EXCEPT
       !.stage = [r \in Request |-> IF r \in R THEN "resumed" ELSE l.stage[r]],
       !.listeners = [p \in Probe |->
            IF \E r \in R : l.target[r] = p /\ Members(l, l.set[r]) \subseteq R
            THEN NoSet ELSE l.listeners[p]]]

(* signalActivity, for each probe of a set. *)
Signal(l, P) ==
    Finish(l, UNION {Members(l, l.listeners[p]) : p \in {q \in P : l.listeners[q] # NoSet}})

(* appendEvent, without its signal. *)
Appended(n) == IF n < RingCapacity THEN n + 1 ELSE n

Due(b) == (b.probes \ b.expired) \cap overdue

(* expireDueProbes, whose events signal like any other. *)
Expire(b) ==
    [b EXCEPT !.expired = b.expired \cup Due(b),
              !.events = [p \in Probe |-> IF p \in Due(b) THEN Appended(b.events[p])
                                                          ELSE b.events[p]]]

-----------------------------------------------------------------------------
(* The listener is installed, and nothing else looked at.  On its own it   *)
(* is also the MUTANT of RegisterActivityListener that does not look at    *)
(* the ring once the listener is there; hence its unused parameter.        *)
Register(l, b, r) ==
    LET p == l.target[r]
        s == IF l.listeners[p] = NoSet THEN r ELSE l.listeners[p]
    IN  [l EXCEPT !.stage = [l.stage EXCEPT ![r] = "waiting"],
                  !.set = [l.set EXCEPT ![r] = s],
                  !.listeners = [l.listeners EXCEPT ![p] = s]]

(* registerActivityListener: install the listener, then look at the ring. *)
RegisterActivityListener(l, b, r) ==
    IF b.events[l.target[r]] > 0 THEN Finish(Register(l, b, r), {r}) ELSE Register(l, b, r)

Answer(l, r) == [l EXCEPT !.stage = [l.stage EXCEPT ![r] = "answered"]]

(* The handler up to its await: 404, an immediate answer, or a wait. *)
Get(r) ==
    /\ ~closed
    /\ polls.stage[r] = "idle"
    /\ LET b == Expire(broker)
           l == Signal(polls, Due(broker))
       IN  /\ broker' = b
           /\ \/ polls' = Answer(l, r)
              \/ /\ polls.target[r] \in b.probes
                 /\ polls' = RegisterActivityListener(l, b, r)
    /\ UNCHANGED <<minted, removed, overdue, saved, closed>>

(* The handler after its await looks the probe up again. *)
Resume(r) ==
    /\ polls.stage[r] = "resumed"
    /\ broker' = Expire(broker)
    /\ polls' = Answer(Signal(polls, Due(broker)), r)
    /\ UNCHANGED <<minted, removed, overdue, saved, closed>>

(* MUTANT: the timer only works while the probe exists. *)
TimeoutOfProbe(r) ==
    /\ polls.stage[r] = "waiting"
    /\ polls.target[r] \in broker.probes
    /\ polls' = Finish(polls, {r})
    /\ UNCHANGED <<minted, removed, overdue, broker, saved, closed>>

(* The timer of the wait fires. *)
Timeout(r) ==
    /\ polls.stage[r] = "waiting"
    /\ polls' = Finish(polls, {r})
    /\ UNCHANGED <<minted, removed, overdue, broker, saved, closed>>

(* The client disconnects: the abort signal. *)
Abort(r) ==
    /\ polls.stage[r] = "waiting"
    /\ polls' = Finish(polls, {r})
    /\ UNCHANGED <<minted, removed, overdue, broker, saved, closed>>

-----------------------------------------------------------------------------
(* mutateDurably: one mutation at a time, its snapshot kept for a failure. *)
Mutate(b, active) ==
    /\ saved = {}
    /\ ~closed
    /\ saved' = {broker}
    /\ broker' = b
    /\ polls' = Signal(polls, active)
    /\ UNCHANGED <<overdue, closed>>

BeginCreate(p) ==
    /\ p \notin minted
    /\ minted' = minted \cup {p}
    /\ UNCHANGED removed
    /\ Mutate([broker EXCEPT !.probes = broker.probes \cup {p},
                             !.events = [broker.events EXCEPT ![p] = 0]], {})

(* MUTANT: deletion does not signal. *)
BeginDeleteSilently(p) ==
    /\ p \in broker.probes
    /\ removed' = removed \cup {p}
    /\ UNCHANGED minted
    /\ Mutate([broker EXCEPT !.probes = broker.probes \ {p},
                             !.expired = broker.expired \ {p},
                             !.events = [broker.events EXCEPT ![p] = 0]], {})

BeginDelete(p) ==
    /\ p \in broker.probes
    /\ removed' = removed \cup {p}
    /\ UNCHANGED minted
    /\ Mutate([broker EXCEPT !.probes = broker.probes \ {p},
                             !.expired = broker.expired \ {p},
                             !.events = [broker.events EXCEPT ![p] = 0]], {p})

(* ingest expires due probes before it appends. *)
BeginIngest(p) ==
    /\ p \in broker.probes
    /\ UNCHANGED <<minted, removed>>
    /\ LET b == Expire(broker) IN
         Mutate([b EXCEPT !.events = [b.events EXCEPT ![p] = Appended(@)]],
                Due(broker) \cup {p})

BeginSweep == Due(broker) # {} /\ UNCHANGED <<minted, removed>> /\ Mutate(Expire(broker), Due(broker))

(* The other handlers that expire due probes without persisting them: the  *)
(* list, the polls and an ingest that is refused.                          *)
Read ==
    /\ ~closed
    /\ Due(broker) # {}
    /\ broker' = Expire(broker)
    /\ polls' = Signal(polls, Due(broker))
    /\ UNCHANGED <<minted, removed, overdue, saved, closed>>

PersistOk ==
    /\ saved # {}
    /\ saved' = {}
    /\ UNCHANGED <<minted, removed, overdue, broker, polls, closed>>

(* loadSnapshot signals nobody, except for what expires on the way. *)
PersistFail ==
    /\ \E b \in saved :
         /\ broker' = Expire(b)
         /\ polls' = Signal(polls, Due(b))
    /\ saved' = {}
    /\ UNCHANGED <<minted, removed, overdue, closed>>

(* onClose awaits the queue; dispose aborts every wait. *)
Close ==
    /\ ~closed
    /\ saved = {}
    /\ closed' = TRUE
    /\ polls' = [Finish(polls, {r \in Request : polls.stage[r] = "waiting"})
                    EXCEPT !.listeners = [p \in Probe |-> NoSet]]
    /\ UNCHANGED <<minted, removed, overdue, broker, saved>>

(* Time passes the end of a probe's life. *)
Elapse(p) ==
    /\ p \in broker.probes \ overdue
    /\ overdue' = overdue \cup {p}
    /\ UNCHANGED <<minted, removed, broker, saved, polls, closed>>

Next ==
    \/ \E r \in Request : Get(r) \/ Resume(r) \/ Timeout(r) \/ Abort(r)
    \/ \E p \in Probe : BeginCreate(p) \/ BeginDelete(p) \/ BeginIngest(p) \/ Elapse(p)
    \/ BeginSweep
    \/ Read
    \/ PersistOk
    \/ PersistFail
    \/ Close

Spec == Init /\ [][Next]_vars

(* setTimeout fires, and a resolved promise resumes its handler. *)
LiveSpec == Spec /\ \A r \in Request : WF_vars(Timeout(r)) /\ WF_vars(Resume(r))

-----------------------------------------------------------------------------
(* The shape of the state; the ring never exceeds its capacity. *)
LongPollTypeOK ==
    /\ minted \subseteq Probe /\ removed \subseteq minted
    /\ overdue \subseteq Probe
    /\ broker \in Brokers
    /\ saved \subseteq Brokers /\ Cardinality(saved) <= 1
    /\ polls \in Polls
    /\ closed \in BOOLEAN

(* waitForEvents: no event slips between the check of the ring and the     *)
(* listener: a request that waits has nothing to read, rollbacks included. *)
NoLostWakeup ==
    \A r \in Request : polls.stage[r] = "waiting" => broker.events[polls.target[r]] = 0

(* A signal reaches every waiting request, and a key is kept only as long  *)
(* as somebody waits under it (pendingLongPollCount counts those).         *)
ListenersExact ==
    /\ \A r \in Request : polls.stage[r] = "waiting" =>
          polls.listeners[polls.target[r]] = polls.set[r]
    /\ \A p \in Probe : polls.listeners[p] # NoSet => Members(polls, polls.listeners[p]) # {}

(* The route answers 404 when the probe is removed during the wait: nobody *)
(* is left waiting for a deleted probe, although deletions and creations   *)
(* are rolled back without a signal.                                       *)
NobodyWaitsForDeleted ==
    \A r \in Request : polls.stage[r] = "waiting" => polls.target[r] \notin removed \ broker.probes

(* waitForEvents and its route: every request that waits is answered, by   *)
(* an event, its timeout, its client's disconnect or the shutdown, even    *)
(* when a rollback has taken its probe away without a signal.              *)
EveryRequestAnswered ==
    \A r \in Request : (polls.stage[r] \in {"waiting", "resumed"}) ~> (polls.stage[r] = "answered")
===============================================================================
