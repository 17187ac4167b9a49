----------------------------- MODULE SdkDelivery -----------------------------
(***************************************************************************)
(* How the Node agent delivers what it captures (packages/sdk-node/src:    *)
(* event-buffer.ts, ingest-isolation.ts and #flush, #stop of               *)
(* live-probe.ts; the Python and JVM agents use the same isolation).       *)
(*                                                                         *)
(* Events are numbered in the order the buffer is offered them.  Captures  *)
(* go on while a flush awaits the broker.  ingestIsolating recurses on the *)
(* halves of a refused batch; here `work` is its stack of batches still to *)
(* send, leftmost first.  Counter and metric aggregates become events when *)
(* a flush starts and are ordinary captures here.                          *)
(***************************************************************************)
EXTENDS Integers, Sequences, FiniteSets, SequencesExt

CONSTANTS
    NumEvents,     \* bound: events captured in a behaviour
    Probe,
    ProbeOf,       \* the probe of each event
    Size,          \* bytes of each event
    MaxBytes,      \* limits.maxQueueBytes
    ByteBudget,    \* bytes one flush may take
    MaxSplits,     \* MAX_INGEST_SPLITS
    MaxFailures    \* bound: requests that fail or are not answered

Event == 1 .. NumEvents

ASSUME NumEventsType == NumEvents \in Nat
ASSUME ProbeOfType == ProbeOf \in [Event -> Probe]
ASSUME SizeType == Size \in [Event -> Nat \ {0}]
ASSUME LimitsType == MaxBytes \in Nat \ {0} /\ ByteBudget \in Nat \ {0} /\ MaxSplits \in Nat
ASSUME MaxFailuresType == MaxFailures \in Nat

VARIABLES
    captured,   \* number of events offered to the buffer
    buffer,     \* #events, oldest first
    bytes,      \* #bytes
    dropped,    \* #dropped
    phase,      \* "running", "stopping" (#stopped is set) or "final" (last flush)
    flushing,   \* #flushPromise is pending
    work,       \* batches ingestIsolating has still to send
    splits,     \* what is left of its budget
    rejected, deferred,  \* its result so far
    gone,       \* probes the broker no longer has
    received,   \* how often the broker has taken each event
    unanswered, \* history: how often its answer got lost
    failures,   \* requests that failed so far
    batch,      \* history: what the current flush took from the buffer
    blamed      \* history: the current flush was refused for other fields

deliveryVars == <<captured, buffer, bytes, dropped, phase, flushing, work, splits,
          rejected, deferred, gone, received, failures, batch, blamed, unanswered>>
flushVars == <<flushing, work, splits, rejected, deferred, failures,
               batch, blamed, unanswered>>

Bytes(s) == SumFunction([i \in DOMAIN s |-> Size[s[i]]])
Prefix(s, n) == SubSeq(s, 1, n)

DeliveryInit ==
    /\ captured = 0
    /\ buffer = <<>>
    /\ bytes = 0
    /\ dropped = 0
    /\ phase = "running"
    /\ flushing = FALSE
    /\ work = <<>>
    /\ splits = MaxSplits
    /\ rejected = <<>>
    /\ deferred = <<>>
    /\ gone = {}
    /\ received = [e \in Event |-> 0]
    /\ failures = 0
    /\ batch = <<>>
    /\ blamed = FALSE
    /\ unanswered = [e \in Event |-> 0]

-----------------------------------------------------------------------------
(* EventBuffer *)

(* The loop of enqueue: the n oldest events make room. *)
Evicts(n, size) ==
    LET goesOn(i) == /\ bytes - Bytes(Prefix(buffer, i)) + size > MaxBytes
                     /\ i < Len(buffer)
    IN  ~goesOn(n) /\ \A i \in 0 .. n - 1 : goesOn(i)

(* enqueue *)
Enqueue(e) ==
    \/ /\ Size[e] > MaxBytes
       /\ dropped' = dropped + 1
       /\ UNCHANGED <<buffer, bytes>>
    \/ /\ Size[e] <= MaxBytes
       /\ \E n \in 0 .. Len(buffer) :
            /\ Evicts(n, Size[e])
            /\ buffer' = Append(SubSeq(buffer, n + 1, Len(buffer)), e)
            /\ bytes' = bytes - Bytes(Prefix(buffer, n)) + Size[e]
            /\ dropped' = dropped + n

(* The loop of takeBatch: the first event whatever its size, then what     *)
(* fits, until the budget is reached.                                      *)
Takes(n, budget) ==
    LET sum(i) == Bytes(Prefix(buffer, i))
        goesOn(i) == i < Len(buffer) /\ sum(i) < budget /\ sum(i + 1) <= budget
    IN  ~goesOn(n) /\ \A i \in 1 .. n - 1 : goesOn(i)

(* The loop of requeueFront: the newest events make room until n are left. *)
Keeps(n, events) ==
    LET goesOn(i) == Bytes(Prefix(events, i)) > MaxBytes /\ i > 0
    IN  ~goesOn(n) /\ \A i \in n + 1 .. Len(events) : goesOn(i)

(* recordRejected, then requeueFront. *)
Requeue(events) ==
    LET all == events \o buffer IN
    \E n \in 0 .. Len(all) :
        /\ Keeps(n, all)
        /\ buffer' = Prefix(all, n)
        /\ bytes' = Bytes(Prefix(all, n))
        /\ dropped' = dropped + Len(rejected) + Len(all) - n

-----------------------------------------------------------------------------
(* A probe hit, or a status transition, while the agent runs; stopping the *)
(* probe manager still reports statuses.                                   *)
Capture ==
    /\ phase # "final"
    /\ captured < NumEvents
    /\ captured' = captured + 1
    /\ Enqueue(captured + 1)
    /\ UNCHANGED <<phase, gone, received, flushVars>>

(* #flush up to its first request. *)
StartFlush ==
    /\ ~flushing
    /\ buffer # <<>>
    /\ \E n \in 1 .. Len(buffer) :
         /\ Takes(n, ByteBudget)
         /\ batch' = Prefix(buffer, n)
         /\ work' = <<Prefix(buffer, n)>>
         /\ buffer' = SubSeq(buffer, n + 1, Len(buffer))
         /\ bytes' = bytes - Bytes(Prefix(buffer, n))
    /\ flushing' = TRUE
    /\ splits' = MaxSplits
    /\ rejected' = <<>>
    /\ deferred' = <<>>
    /\ blamed' = FALSE
    /\ UNCHANGED <<captured, dropped, gone, received, failures, unanswered>>

(* #scheduleFlush *)
Flush == phase = "running" /\ StartFlush /\ UNCHANGED phase

(* #stop, once the pending flush has ended, flushes a last time. *)
StopFlushing ==
    /\ phase = "running"
    /\ phase' = "stopping"
    /\ UNCHANGED <<captured, buffer, bytes, dropped, gone, received, flushVars>>

FinalFlush == phase = "stopping" /\ phase' = "final" /\ StartFlush

Refusable(s) == ToSet(s) \cap {e \in Event : ProbeOf[e] \in gone} # {}

OnceMore(count, s) == [e \in Event |-> IF e \in ToSet(s) THEN count[e] + 1 ELSE count[e]]

(* 202: every event of the request is stored. *)
Delivered ==
    /\ work # <<>>
    /\ ~Refusable(Head(work))
    /\ received' = OnceMore(received, Head(work))
    /\ work' = Tail(work)
    /\ UNCHANGED <<captured, buffer, bytes, dropped, phase, flushing, splits,
                   rejected, deferred, gone, failures, batch, blamed, unanswered>>

(* Any failure but a 400: its events wait for the next flush. *)
Deferred ==
    /\ work # <<>>
    /\ failures < MaxFailures
    /\ failures' = failures + 1
    /\ deferred' = deferred \o Head(work)
    /\ work' = Tail(work)
    /\ \/ UNCHANGED <<received, unanswered>>
       \/ /\ ~Refusable(Head(work))
          /\ received' = OnceMore(received, Head(work))
          /\ unanswered' = OnceMore(unanswered, Head(work))
    /\ UNCHANGED <<captured, buffer, bytes, dropped, phase, flushing, splits,
                   rejected, gone, batch, blamed>>

(* MUTANT: the second half is forgotten. *)
HalvesFirstOnly(s) == <<SubSeq(s, 1, (Len(s) + 1) \div 2)>>

(* MUTANT: the last event is split off. *)
HalvesLopsided(s) == <<SubSeq(s, 1, Len(s) - 1), SubSeq(s, Len(s), Len(s))>>

Halves(s) ==
    LET middle == (Len(s) + 1) \div 2
    IN  <<SubSeq(s, 1, middle), SubSeq(s, middle + 1, Len(s))>>

(* 400, for an event or for another field of the request: give up on the *)
(* batch, or halve it while the budget lasts.                             *)
Refused ==
    /\ work # <<>>
    /\ blamed' = (blamed \/ ~Refusable(Head(work)))
    /\ \/ /\ Len(Head(work)) <= 1 \/ splits = 0
          /\ rejected' = rejected \o Head(work)
          /\ work' = Tail(work)
          /\ UNCHANGED splits
       \/ /\ Len(Head(work)) > 1 /\ splits > 0
          /\ splits' = splits - 1
          /\ work' = Halves(Head(work)) \o Tail(work)
          /\ UNCHANGED rejected
    /\ UNCHANGED <<captured, buffer, bytes, dropped, phase, flushing,
                   deferred, gone, received, failures, batch, unanswered>>

(* MUTANT: a batch that partly failed is requeued whole. *)
EndFlushWhole ==
    /\ flushing
    /\ work = <<>>
    /\ Requeue(IF deferred = <<>> THEN <<>> ELSE batch)
    /\ flushing' = FALSE
    /\ rejected' = <<>>
    /\ deferred' = <<>>
    /\ batch' = <<>>
    /\ UNCHANGED <<captured, phase, work, splits, gone, received, failures,
                   blamed, unanswered>>

(* MUTANT: #flushPromise is not cleared. *)
EndFlushPending ==
    /\ flushing
    /\ work = <<>>
    /\ Requeue(deferred)
    /\ rejected' = <<>>
    /\ deferred' = <<>>
    /\ batch' = <<>>
    /\ UNCHANGED <<captured, phase, flushing, work, splits, gone, received, failures,
                   blamed, unanswered>>

(* #flush after ingestIsolating. *)
EndFlush ==
    /\ flushing
    /\ work = <<>>
    /\ Requeue(deferred)
    /\ flushing' = FALSE
    /\ rejected' = <<>>
    /\ deferred' = <<>>
    /\ batch' = <<>>
    /\ UNCHANGED <<captured, phase, work, splits, gone, received, failures,
                   blamed, unanswered>>

(* DELETE /v1/probes/:id at the broker. *)
RemoveProbe(p) ==
    /\ p \notin gone
    /\ gone' = gone \cup {p}
    /\ UNCHANGED <<captured, buffer, bytes, dropped, phase, received, flushVars>>

DeliveryNext ==
    \/ Capture
    \/ Flush
    \/ StopFlushing
    \/ FinalFlush
    \/ Delivered
    \/ Deferred
    \/ Refused
    \/ EndFlush
    \/ \E p \in Probe : RemoveProbe(p)

DeliverySpec == DeliveryInit /\ [][DeliveryNext]_deliveryVars

(* The flush timer keeps firing, a started flush goes on, and outages end. *)
DeliveryFairness == WF_deliveryVars(Flush) /\ WF_deliveryVars(EndFlush) /\ WF_deliveryVars(Delivered \/ Refused)

-----------------------------------------------------------------------------
DeliveryTypeOK ==
    /\ captured \in 0 .. NumEvents
    /\ buffer \in Seq(Event)
    /\ bytes \in Nat
    /\ dropped \in Nat
    /\ phase \in {"running", "stopping", "final"}
    /\ flushing \in BOOLEAN
    /\ work \in Seq(Seq(Event))
    /\ splits \in 0 .. MaxSplits
    /\ rejected \in Seq(Event) /\ deferred \in Seq(Event)
    /\ gone \subseteq Probe
    /\ received \in [Event -> Nat] /\ unanswered \in [Event -> Nat]
    /\ failures \in 0 .. MaxFailures /\ blamed \in BOOLEAN
    /\ batch \in Seq(Event)

(* The account of the buffer is exact and within its limit, whatever was   *)
(* evicted, taken or requeued.                                             *)
BytesExact == bytes = Bytes(buffer) /\ bytes <= MaxBytes

Waiting ==
    ToSet(deferred) \cup (UNION {ToSet(work[i]) : i \in DOMAIN work}) \cup ToSet(buffer)
Answered == {e \in Event : received[e] > unanswered[e]}
Lost == (1 .. captured) \ (Answered \cup Waiting)

(* No event disappears unseen, and none is written off that arrived: what  *)
(* is neither waiting nor acknowledged is exactly what #dropped counts,    *)
(* once the flush that gave it up has ended.                               *)
LossesCounted == Cardinality(Lost) = dropped + Len(rejected)

(* Although refused batches are sent again in parts, and failed ones again *)
(* later, an event is stored twice only if an answer got lost, and never   *)
(* sent again once its answer has arrived.                                 *)
DeliveredOnce ==
    /\ \A e \in Event : received[e] <= unanswered[e] + 1
    /\ Answered \cap Waiting = {}

(* ingest-isolation.ts: halving isolates the offender.  With one refusable *)
(* event among at most 2^MaxSplits no other event is rejected.             *)
OffenderIsolated ==
    (/\ Cardinality({i \in DOMAIN batch : ProbeOf[batch[i]] \in gone}) <= 1
     /\ Len(batch) <= 2 ^ MaxSplits
     /\ ~blamed)
    => \A i \in DOMAIN rejected : ProbeOf[rejected[i]] \in gone

(* A running agent settles every event, which is delivered or given up:    *)
(* there is never one that waits for ever, and after the last failure and  *)
(* the last capture none waits.                                            *)
EventuallySettled ==
    []<>(\A e \in Event : \/ captured < e \/ received[e] > 0 \/ e \in Lost
                          \/ phase # "running")
==============================================================================
