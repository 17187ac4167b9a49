------------------------------ MODULE SdkProbes ------------------------------
(***************************************************************************)
(* The Node agent's probes: ProbeManager (sdk-node/src/probe-manager.ts)   *)
(* with the script registry, the token bucket, the event-loop safety       *)
(* monitor and the poll and stop of LiveProbe that drive it.               *)
(*                                                                         *)
(* Everything runs on one JavaScript thread, but the manager awaits the    *)
(* inspector's answers, and whatever else the process does happens in      *)
(* between: timers, poll responses, script events and pauses.  A           *)
(* continuation that is ready (NoJobs is false) runs before the next timer *)
(* or answer; script events and pauses come from the target's own code and *)
(* may come before it.                                                     *)
(*                                                                         *)
(* A definition d of Defs is what fingerprint() tells apart: Def[d] gives  *)
(* its probe id, the scripts its file is a suffix of, its position, its    *)
(* hit limit and whether it is a counter without a condition.  The events  *)
(* and statuses that these steps hand to the buffer are left to            *)
(* SdkDelivery; a step that only reports an error is left out.             *)
(***************************************************************************)
EXTENDS Naturals, Sequences, FiniteSets

CONSTANTS Probes, Defs, None, Def, Feeds,
          Scripts, PathLen, Positions, Snap, NoCode,
          Rate, MaxCaptures,
          MaxStuck,               \* how many breakpoints V8 may refuse to remove
          ScriptsDuringReconcile  \* does the target load code while a reconciliation awaits?

ASSUME DefAssumption ==
    /\ None \notin Probes \cup Defs \cup Scripts
    /\ Probes \cap {"reconcile", "retire", "suspend", "stop"} = {}
    /\ Def \in [Defs -> [id : Probes, scripts : SUBSET Scripts, pos : Positions,
                         limit : Nat \ {0}, bare : BOOLEAN]]
    /\ Feeds \subseteq [Probes -> Defs \cup {None}]
    /\ \A f \in Feeds, p \in Probes : f[p] # None => Def[f[p]].id = p
ASSUME V8Assumption ==
    /\ PathLen \in [Scripts -> Nat]
    /\ Snap \in [Positions -> Positions]
    /\ NoCode \subseteq Positions
ASSUME BoundsAssumption ==
    /\ Rate \in Nat \ {0} /\ MaxCaptures \in Nat \ {0} /\ MaxStuck \in Nat
    /\ ScriptsDuringReconcile \in BOOLEAN

VARIABLES
    loaded,     \* ScriptRegistry: the scripts V8 has reported
    desired,    \* #desired: the definition of each probe, None when absent
    installed,  \* #installed
    exhausted,  \* #exhausted: the definition that reached its hit limit
    arms,       \* the ensureArmed() under way for each probe (#installing)
    arming,     \* #arming: whose attempt at a location is in flight
    holders,    \* #byBreakpoint: keys and claims of each breakpoint
    byLocation, \* #byLocation
    live,       \* V8's breakpoints, named by the location asked for
    stuck,      \* breakpoints V8 refused to remove; nobody asks for that again
    posted,     \* commands the inspector has not answered, oldest first
    dropping,   \* breakpoints suspendAll() has still to remove
    rec,        \* the reconcile() under way
    captures,   \* hits captured, and not yet processed (setImmediate)
    tokens,     \* TokenBucket
    mode        \* suspended, failed, and how far stop() has come

vars == <<loaded, desired, installed, exhausted, arms, arming, holders,
          byLocation, live, stuck, posted, dropping, rec, captures, tokens, mode>>

Key == Scripts \X Positions
NoArm == [pc |-> "idle", def |-> None, key |-> None, bp |-> None, on |-> None]
NoRec == [pc |-> "idle", next |-> [p \in Probes |-> None], todo |-> {}]
Absent == [def |-> None, bp |-> None, hits |-> 0, pending |-> 0]
Nobody == [keys |-> {}, claims |-> {}]

\* Resolution of a file among the loaded scripts: the shortest path that ends
\* in it, or nothing when no script, or more than one equally short, does.
resolveBySuffix(d) ==
    LET matches == loaded \cap Def[d].scripts
        best    == {s \in matches : \A t \in matches : PathLen[s] <= PathLen[t]}
    IN  IF Cardinality(best) = 1 THEN CHOOSE s \in best : TRUE ELSE None

Registered(k) == holders[k].keys # {}
Installed(p)  == installed[p].def # None
Disarmed      == mode.suspended \/ mode.failed \/ mode.stop = "stopped"

\* No continuation is waiting to run on the thread.
NoJobs == /\ \A p \in Probes : arms[p].pc \notin {"woken", "claimed"}
          /\ rec.pc # "resumed"

TypeOK ==
    /\ loaded \subseteq Scripts
    /\ desired \in [Probes -> Defs \cup {None}]
    /\ exhausted \in [Probes -> Defs \cup {None}]
    /\ installed \in [Probes -> [def : Defs \cup {None}, bp : Key \cup {None},
                                 hits : Nat, pending : Nat]]
    /\ arms \in [Probes -> [pc : {"idle", "waiting", "woken", "setting", "clearing",
                                  "claimed", "releasing"},
                            def : Defs \cup {None}, key : Key \cup {None},
                            bp : Key \cup {None}, on : Probes \cup {None}]]
    /\ arming \in [Key -> Probes \cup {None}]
    /\ holders \in [Key -> [keys : SUBSET Key, claims : SUBSET Probes]]
    /\ byLocation \in [Key -> Key \cup {None}]
    /\ live \subseteq Key /\ stuck \subseteq Key
    /\ posted \in Seq([op : {"set", "remove"}, key : Key,
                       by : Probes \cup {"reconcile", "retire", "suspend", "stop"}])
    /\ dropping \subseteq Key
    /\ rec \in [pc : {"idle", "resumed", "awaiting"},
                next : [Probes -> Defs \cup {None}], todo : SUBSET (Probes \X Key)]
    /\ captures \in Seq([who : SUBSET Probes, fresh : BOOLEAN])
    /\ tokens \in 0..Rate
    /\ mode \in [suspended : BOOLEAN, failed : BOOLEAN,
                 stop : {"running", "stopping", "stopped"}]

Init ==
    /\ loaded = {}
    /\ desired = [p \in Probes |-> None]
    /\ installed = [p \in Probes |-> Absent]
    /\ exhausted = [p \in Probes |-> None]
    /\ arms = [p \in Probes |-> NoArm]
    /\ arming = [k \in Key |-> None]
    /\ holders = [k \in Key |-> Nobody]
    /\ byLocation = [k \in Key |-> None]
    /\ live = {} /\ stuck = {}
    /\ posted = <<>>
    /\ dropping = {}
    /\ rec = NoRec
    /\ captures = <<>>
    /\ tokens = Rate
    /\ mode = [suspended |-> FALSE, failed |-> FALSE, stop |-> "running"]

-----------------------------------------------------------------------------
(* The breakpoint registry *)

Command(op, k, by) == [op |-> op, key |-> k, by |-> by]

\* Captures no longer speak for the probes of P: their InstalledProbe objects
\* are no longer the installed ones.
Forget(P, cs) == [i \in DOMAIN cs |-> [cs[i] EXCEPT !.who = @ \ P]]
Stale(cs) == [i \in DOMAIN cs |-> [cs[i] EXCEPT !.fresh = FALSE]]

\* Probes P drop their claim on breakpoint k, and the last one takes the
\* breakpoint out of the registry (mutant: any one does).
LastClaimAny(k, P) == Registered(k) /\ holders[k].claims \cap P # {}
LastClaim(k, P) == Registered(k) /\ holders[k].claims \subseteq P
Unclaim(k, P) ==
    IF LastClaim(k, P)
    THEN /\ holders' = [holders EXCEPT ![k] = Nobody]
         /\ byLocation' = [l \in Key |-> IF l \in holders[k].keys /\ byLocation[l] = k
                                         THEN None ELSE byLocation[l]]
    ELSE /\ holders' = [holders EXCEPT ![k].claims = @ \ P]
         /\ UNCHANGED byLocation

\* The registration of an answered breakpoint, under the location asked for
\* and the one V8 moved it to, already claimed by the probe that asked.
Register(k, p) ==
    LET resolved == <<k[1], Snap[k[2]]>>
        keys     == {k} \cup {l \in {resolved} : byLocation[l] = None}
    IN  /\ holders' = [holders EXCEPT ![k] = [keys |-> keys, claims |-> {p}]]
        /\ byLocation' = [l \in Key |-> IF l \in keys THEN k ELSE byLocation[l]]

ClearRegistry ==
    /\ holders' = [k \in Key |-> Nobody]
    /\ byLocation' = [k \in Key |-> None]

\* External: V8 holds one breakpoint per position.
Taken(k) == \E l \in live \cup stuck : l[1] = k[1] /\ Snap[l[2]] = Snap[k[2]]

-----------------------------------------------------------------------------
(* Arming: ensureArmed, acquireBreakpoint, installBreakpoint *)

\* Asks V8 for the breakpoint; later arms of the location wait for this one.
Attempt(p, d, k) ==
    /\ posted' = Append(posted, Command("set", k, p))
    /\ arming' = [arming EXCEPT ![k] = p]
    /\ arms' = [arms EXCEPT ![p] = [NoArm EXCEPT !.pc = "setting", !.def = d, !.key = k]]

Claim(p, d, k) ==
    /\ holders' = [holders EXCEPT ![byLocation[k]].claims = @ \cup {p}]
    /\ arms' = [arms EXCEPT ![p] = [NoArm EXCEPT !.pc = "claimed", !.def = d, !.key = k,
                                                 !.bp = byLocation[k]]]

\* One round of the loops that arm what is desired: after a reconciliation,
\* after the cooldown, and whenever a script was parsed.
EnsureArmed(p) ==
    LET d == desired[p]
        s == resolveBySuffix(d)
        k == <<s, Def[d].pos>>
    IN
    /\ d # None /\ ~Disarmed
    /\ rec.pc = "idle" \/ ScriptsDuringReconcile
    /\ ~Installed(p) /\ arms[p].pc = "idle" /\ exhausted[p] # d
    /\ s # None
    /\ \/ /\ byLocation[k] # None
          /\ Claim(p, d, k)
          /\ UNCHANGED <<posted, arming>>
       \/ /\ byLocation[k] = None /\ arming[k] # None
          /\ arms' = [arms EXCEPT ![p] = [NoArm EXCEPT !.pc = "waiting", !.def = d,
                                                       !.key = k, !.on = arming[k]]]
          /\ UNCHANGED <<holders, posted, arming>>
       \/ /\ byLocation[k] = None /\ arming[k] = None
          /\ Attempt(p, d, k)
          /\ UNCHANGED holders
    /\ UNCHANGED <<loaded, desired, installed, exhausted, byLocation, live, stuck,
                   dropping, rec, captures, tokens, mode>>

\* The attempt a probe waited for has settled: it shares the breakpoint, or
\* tries for itself.
WaiterResumes(p) ==
    LET a == arms[p] IN
    /\ a.pc = "woken"
    /\ IF byLocation[a.key] # None
       THEN Claim(p, a.def, a.key) /\ UNCHANGED <<posted, arming>>
       ELSE Attempt(p, a.def, a.key) /\ UNCHANGED holders
    /\ UNCHANGED <<loaded, desired, installed, exhausted, byLocation, live, stuck, dropping,
                   rec, captures, tokens, mode>>

\* Mutants: the claim of an abandoned arm is kept; a suspension is overlooked.
FinishArmAbandoning(p) ==
    LET a    == arms[p]
        keep == desired[p] = a.def /\ mode.stop # "stopped" /\ ~mode.suspended
    IN
    /\ a.pc = "claimed"
    /\ IF keep
       THEN /\ installed' = [installed EXCEPT
                    ![p] = [def |-> a.def, bp |-> a.bp, hits |-> 0, pending |-> 0]]
            /\ arms' = [arms EXCEPT ![p] = NoArm]
            /\ UNCHANGED <<holders, byLocation, posted>>
       ELSE /\ arms' = [arms EXCEPT ![p] = NoArm]
            /\ UNCHANGED <<holders, byLocation, posted>>
            /\ UNCHANGED installed
    /\ UNCHANGED <<loaded, desired, exhausted, arming, live, stuck, dropping, rec, captures,
                   tokens, mode>>

FinishArmIgnoringSuspend(p) ==
    LET a    == arms[p]
        keep == desired[p] = a.def /\ mode.stop # "stopped"
    IN
    /\ a.pc = "claimed"
    /\ IF keep
       THEN /\ installed' = [installed EXCEPT
                    ![p] = [def |-> a.def, bp |-> a.bp, hits |-> 0, pending |-> 0]]
            /\ arms' = [arms EXCEPT ![p] = NoArm]
            /\ UNCHANGED <<holders, byLocation, posted>>
       ELSE /\ Unclaim(a.bp, {p})
            /\ IF LastClaim(a.bp, {p})
               THEN /\ posted' = Append(posted, Command("remove", a.bp, p))
                    /\ arms' = [arms EXCEPT ![p].pc = "releasing"]
               ELSE /\ arms' = [arms EXCEPT ![p] = NoArm]
                    /\ UNCHANGED posted
            /\ UNCHANGED installed
    /\ UNCHANGED <<loaded, desired, exhausted, arming, live, stuck, dropping, rec, captures,
                   tokens, mode>>

\* The claim is kept only if the probe is still wanted as it was.
FinishArm(p) ==
    LET a    == arms[p]
        keep == desired[p] = a.def /\ mode.stop # "stopped" /\ ~mode.suspended
    IN
    /\ a.pc = "claimed"
    /\ IF keep
       THEN /\ installed' = [installed EXCEPT
                    ![p] = [def |-> a.def, bp |-> a.bp, hits |-> 0, pending |-> 0]]
            /\ arms' = [arms EXCEPT ![p] = NoArm]
            /\ UNCHANGED <<holders, byLocation, posted>>
       ELSE /\ Unclaim(a.bp, {p})
            /\ IF LastClaim(a.bp, {p})
               THEN /\ posted' = Append(posted, Command("remove", a.bp, p))
                    /\ arms' = [arms EXCEPT ![p].pc = "releasing"]
               ELSE /\ arms' = [arms EXCEPT ![p] = NoArm]
                    /\ UNCHANGED posted
            /\ UNCHANGED installed
    /\ UNCHANGED <<loaded, desired, exhausted, arming, live, stuck, dropping, rec, captures,
                   tokens, mode>>

\* The attempt of p at k settles: it is no longer in flight, and those who
\* wait for it wake up.
Wake(p, as) == [q \in Probes |-> IF as[q].pc = "waiting" /\ as[q].on = p
                                 THEN [as[q] EXCEPT !.pc = "woken", !.on = None]
                                 ELSE as[q]]
Settled(p, k) == arming' = [arming EXCEPT ![k] = IF @ = p THEN None ELSE @]

\* The answer to setBreakpointByUrl.  External: V8 refuses a position that is
\* taken, may fail, and finds no location where there is no code.
AnswerSet ==
    LET c == Head(posted)
        p == c.by
        k == c.key
        none == k[2] \in NoCode
    IN
    /\ NoJobs /\ posted # <<>> /\ c.op = "set"
    /\ \/ /\ arms' = Wake(p, [arms EXCEPT ![p] = NoArm])
          /\ posted' = Tail(posted)
          /\ Settled(p, k)
          /\ UNCHANGED <<holders, byLocation, live>>
       \/ /\ ~mode.failed /\ ~Taken(k) /\ none
          /\ posted' = Append(Tail(posted), Command("remove", k, p))
          /\ arms' = [arms EXCEPT ![p].pc = "clearing"]
          /\ UNCHANGED <<holders, byLocation, live, arming>>
       \/ /\ ~mode.failed /\ ~Taken(k) /\ ~none
          /\ live' = live \cup {k}
          /\ Register(k, p)
          /\ arms' = Wake(p, [arms EXCEPT ![p] = [@ EXCEPT !.pc = "claimed", !.bp = k]])
          /\ posted' = Tail(posted)
          /\ Settled(p, k)
    /\ UNCHANGED <<loaded, desired, installed, exhausted, stuck, dropping, rec, captures,
                   tokens, mode>>

\* The answer to removeBreakpoint, and what waited for it: an arm that gives
\* its claim up, a location without code, a reconciliation, a retirement.  They
\* all go on as if the breakpoint were gone when V8 answers with an error; a
\* session that is given up (failed) has no breakpoints to keep.
AnswerRemove ==
    LET c == Head(posted)
        arm == c.by \in Probes
        p == c.by
    IN
    /\ NoJobs /\ posted # <<>> /\ c.op = "remove"
    /\ live' = live \ {c.key}
    /\ \/ UNCHANGED stuck
       \/ /\ ~mode.failed /\ Cardinality(stuck) < MaxStuck
          /\ stuck' = stuck \cup {c.key}
    /\ posted' = Tail(posted)
    /\ IF ~arm THEN UNCHANGED <<arms, arming>>
       ELSE IF arms[p].pc = "clearing"
       THEN arms' = Wake(p, [arms EXCEPT ![p] = NoArm]) /\ Settled(p, c.key)
       ELSE arms' = [arms EXCEPT ![p] = NoArm] /\ UNCHANGED arming
    /\ rec' = IF c.by = "reconcile" THEN [rec EXCEPT !.pc = "resumed"] ELSE rec
    /\ UNCHANGED <<loaded, desired, installed, exhausted, holders, byLocation, dropping,
                   captures, tokens, mode>>

-----------------------------------------------------------------------------
(* Polling and reconciliation *)

\* One installed probe that is not wanted as it is goes; the loop awaits that.
Uninstall(next, todo, cs) ==
    \E u \in todo :
        LET p    == u[1]
            k    == u[2]
            last == LastClaim(k, {p})
        IN
        /\ installed' = [installed EXCEPT ![p] = Absent]
        /\ captures' = Forget({p}, cs)
        /\ Unclaim(k, {p})
        /\ posted' = IF last THEN Append(posted, Command("remove", k, "reconcile"))
                     ELSE posted
        /\ rec' = [pc |-> IF last THEN "awaiting" ELSE "resumed", next |-> next,
                   todo |-> todo \ {u}]
        /\ UNCHANGED <<desired, exhausted>>

\* Only then is #desired replaced; EnsureArmed does the rest.
ReplaceDesired(next) ==
    /\ desired' = next
    /\ exhausted' = [p \in Probes |-> IF exhausted[p] = next[p] THEN exhausted[p] ELSE None]
    /\ rec' = NoRec
    /\ UNCHANGED <<installed, holders, byLocation, posted>>

UninstallThenReplace(next, todo, cs) ==
    \/ todo # {} /\ Uninstall(next, todo, cs)
    \/ todo = {} /\ ReplaceDesired(next) /\ captures' = cs

\* A poll answered with another version.
Reconcile(next) ==
    /\ NoJobs /\ rec.pc = "idle" /\ mode.stop = "running"
    /\ LET unwanted == {p \in Probes : Installed(p) /\ installed[p].def # next[p]}
       IN  UninstallThenReplace(next, {<<p, installed[p].bp>> : p \in unwanted},
                                IF next # desired THEN Stale(captures) ELSE captures)
    /\ UNCHANGED <<loaded, arms, arming, live, stuck, dropping, tokens, mode>>

ReconcileResumes ==
    /\ rec.pc = "resumed"
    /\ UninstallThenReplace(rec.next, rec.todo, captures)
    /\ UNCHANGED <<loaded, arms, arming, live, stuck, dropping, tokens, mode>>

ScriptParsed(s) ==
    /\ s \notin loaded /\ mode.stop = "running"
    /\ loaded' = loaded \cup {s}
    /\ UNCHANGED <<desired, installed, exhausted, arms, arming, holders, byLocation,
                   live, stuck, posted, dropping, rec, captures, tokens, mode>>

-----------------------------------------------------------------------------
(* Hits *)

\* Mutant: hits still on their way are not counted.
CandidatesIgnoringPending(k) == {p \in holders[k].claims :
                     /\ Installed(p) /\ ~Disarmed
                     /\ installed[p].hits < Def[installed[p].def].limit}

\* The probes a pause at breakpoint k counts for.
Candidates(k) == {p \in holders[k].claims :
                     /\ Installed(p) /\ ~Disarmed
                     /\ installed[p].hits + installed[p].pending < Def[installed[p].def].limit}

\* Probes P of breakpoint k have reached their limit; inst is #installed with
\* their hits counted.
Retire(k, P, inst) ==
    /\ installed' = [p \in Probes |-> IF p \in P THEN Absent ELSE inst[p]]
    /\ exhausted' = [p \in Probes |-> IF p \in P THEN inst[p].def ELSE exhausted[p]]
    /\ Unclaim(k, P)
    /\ posted' = IF P # {} /\ LastClaim(k, P)
                 THEN Append(posted, Command("remove", k, "retire"))
                 ELSE posted

AtLimit(P, inst) == {p \in P : inst[p].hits >= Def[inst[p].def].limit}

\* A pause within the rate: the values are captured, the target resumes, and
\* the hit is processed later (setImmediate).
PauseCaptured(k) ==
    LET who == Candidates(k) IN
    /\ k \in live /\ who # {} /\ mode.stop = "running"
    /\ tokens > 0 /\ Len(captures) < MaxCaptures
    /\ tokens' = tokens - 1
    /\ installed' = [p \in Probes |-> IF p \in who THEN [installed[p] EXCEPT !.pending = @ + 1]
                                      ELSE installed[p]]
    /\ captures' = Append(captures, [who |-> who, fresh |-> TRUE])
    /\ UNCHANGED <<loaded, desired, exhausted, arms, arming, holders, byLocation, live, stuck,
                   posted, dropping, rec, mode>>

\* A pause above the rate: only counters without a condition count it.
PauseOverBudget(k) ==
    LET counted == {p \in Candidates(k) : Def[installed[p].def].bare}
        inst    == [p \in Probes |-> IF p \in counted THEN [installed[p] EXCEPT !.hits = @ + 1]
                                     ELSE installed[p]]
        over    == AtLimit(counted, inst)
    IN
    /\ k \in live /\ counted # {} /\ mode.stop = "running" /\ tokens = 0
    /\ Retire(k, over, inst)
    /\ captures' = Forget(over, captures)
    /\ UNCHANGED <<loaded, desired, arms, arming, live, stuck, dropping, rec, tokens, mode>>

\* Two attempts to resume fail: the session is given up with everything in it.
\* The target also pauses, for nobody, at a breakpoint that could not be removed.
ResumeFails(k) ==
    /\ k \in live \cup stuck /\ k[2] \notin NoCode /\ mode.stop = "running" /\ ~mode.failed
    /\ mode' = [mode EXCEPT !.failed = TRUE, !.suspended = TRUE]
    /\ installed' = [p \in Probes |-> Absent]
    /\ captures' = Stale(Forget(Probes, captures))
    /\ ClearRegistry
    /\ live' = {} /\ stuck' = {}
    /\ UNCHANGED <<loaded, desired, exhausted, arms, arming, posted, dropping, rec, tokens>>

\* The oldest capture: a hit for the probes whose condition holds.
Process ==
    LET c     == Head(captures)
        valid == ~Disarmed /\ c.fresh
        less  == [p \in Probes |-> IF p \in c.who THEN [installed[p] EXCEPT !.pending = @ - 1]
                                   ELSE installed[p]]
    IN
    /\ NoJobs /\ captures # <<>>
    /\ \E hit \in SUBSET c.who :
         LET inst == [p \in Probes |-> IF p \in hit THEN [less[p] EXCEPT !.hits = @ + 1]
                                       ELSE less[p]]
             over == AtLimit(hit, inst)
         IN
         /\ hit # {} => valid
         /\ IF over = {}
            THEN installed' = inst /\ UNCHANGED <<exhausted, holders, byLocation, posted>>
            ELSE Retire(installed[CHOOSE p \in over : TRUE].bp, over, inst)
         /\ captures' = [i \in 1..(Len(captures) - 1) |-> Forget(over, captures)[i + 1]]
    /\ UNCHANGED <<loaded, desired, arms, arming, live, stuck, dropping, rec, tokens, mode>>

Refill ==
    /\ tokens < Rate
    /\ tokens' = tokens + 1
    /\ UNCHANGED <<loaded, desired, installed, exhausted, arms, arming, holders, byLocation,
                   live, stuck, posted, dropping, rec, captures, mode>>

-----------------------------------------------------------------------------
(* The safety monitor and stop *)

\* Event-loop lag: everything is disarmed at once, and the breakpoints are
\* removed one after the other.
SuspendAll ==
    /\ NoJobs /\ mode.stop = "running" /\ ~mode.suspended
    /\ mode' = [mode EXCEPT !.suspended = TRUE]
    /\ dropping' = dropping \cup {k \in Key : Registered(k)}
    /\ ClearRegistry
    /\ installed' = [p \in Probes |-> Absent]
    /\ captures' = Stale(Forget(Probes, captures))
    /\ UNCHANGED <<loaded, desired, exhausted, arms, arming, live, stuck, posted, rec, tokens>>

DropNext ==
    /\ \A i \in DOMAIN posted : posted[i].by # "suspend"
    /\ \E k \in dropping :
         /\ posted' = Append(posted, Command("remove", k, "suspend"))
         /\ dropping' = dropping \ {k}
    /\ UNCHANGED <<loaded, desired, installed, exhausted, arms, arming, holders, byLocation,
                   live, stuck, rec, captures, tokens, mode>>

\* The cooldown, seconds long, is over.  The in-process inspector has answered
\* what it was asked before that.
Rearm ==
    /\ NoJobs /\ mode.stop = "running" /\ mode.suspended /\ ~mode.failed
    /\ posted = <<>> /\ dropping = {}
    /\ mode' = [mode EXCEPT !.suspended = FALSE]
    /\ UNCHANGED <<loaded, desired, installed, exhausted, arms, arming, holders, byLocation,
                   live, stuck, posted, dropping, rec, captures, tokens>>

\* LiveProbe stops its timers and listeners and waits for the poll under way ...
BeginStop ==
    /\ mode.stop = "running"
    /\ mode' = [mode EXCEPT !.stop = "stopping"]
    /\ UNCHANGED <<loaded, desired, installed, exhausted, arms, arming, holders, byLocation,
                   live, stuck, posted, dropping, rec, captures, tokens>>

\* ... before it stops the manager, which removes all breakpoints at once.
Stop ==
    /\ NoJobs /\ mode.stop = "stopping" /\ rec.pc = "idle"
    /\ mode' = [mode EXCEPT !.stop = "stopped"]
    /\ \E removals \in [1..Cardinality({k \in Key : Registered(k)}) -> {k \in Key : Registered(k)}] :
         /\ \A i, j \in DOMAIN removals : removals[i] = removals[j] => i = j
         /\ posted' = posted \o [i \in DOMAIN removals |->
                                    Command("remove", removals[i], "stop")]
    /\ ClearRegistry
    /\ installed' = [p \in Probes |-> Absent]
    /\ desired' = [p \in Probes |-> None]
    /\ captures' = Stale(Forget(Probes, captures))
    /\ UNCHANGED <<loaded, exhausted, arms, arming, live, stuck, dropping, rec, tokens>>

-----------------------------------------------------------------------------
Next ==
    \/ \E p \in Probes : EnsureArmed(p) \/ WaiterResumes(p) \/ FinishArm(p)
    \/ AnswerSet \/ AnswerRemove
    \/ \E f \in Feeds : Reconcile(f)
    \/ ReconcileResumes \/ DropNext
    \/ \E s \in Scripts : ScriptParsed(s)
    \/ \E k \in Key : PauseCaptured(k) \/ PauseOverBudget(k) \/ ResumeFails(k)
    \/ Process \/ Refill \/ SuspendAll \/ Rearm \/ BeginStop \/ Stop

Spec == Init /\ [][Next]_vars
\* An answer, a ready continuation and the removals of a suspension get their turn.
Fairness == /\ \A p \in Probes : WF_vars(WaiterResumes(p) \/ FinishArm(p))
            /\ WF_vars(AnswerSet \/ AnswerRemove)
            /\ WF_vars(ReconcileResumes)
            /\ WF_vars(DropNext)
-----------------------------------------------------------------------------
(* Properties *)

\* Every probe that counts as armed has its breakpoint in V8 and its claim on
\* it, whatever probes share the line, come, go, or are retired by their hits.
InstalledHasBreakpoint ==
    \A p \in Probes : Installed(p) =>
        /\ p \in holders[installed[p].bp].claims
        /\ Registered(installed[p].bp)
        /\ installed[p].bp \in live

\* No breakpoint outlives its probes: each one in V8 is claimed by a probe
\* that is installed, or just about to be, or its removal is on its way; all
\* but those that V8 refused to remove.
NoOrphanBreakpoint ==
    \A k \in live :
        \/ k \in dropping
        \/ \E i \in DOMAIN posted : posted[i].op = "remove" /\ posted[i].key = k
        \/ /\ holders[k].claims # {}
           /\ \A p \in holders[k].claims :
                 installed[p].bp = k \/ (arms[p].pc = "claimed" /\ arms[p].bp = k)

\* A probe's hits and those still on their way never exceed its limit, and
\* pending counts exactly the captures that can still become hits.
HitLimitKept ==
    \A p \in Probes : Installed(p) =>
        /\ installed[p].hits + installed[p].pending <= Def[installed[p].def].limit
        /\ installed[p].pending =
               Cardinality({i \in DOMAIN captures : p \in captures[i].who})

\* A suspended or stopped agent leaves no breakpoint in the target but those
\* that V8 refused to remove.
EventuallyDetached ==
    (mode.suspended \/ mode.stop = "stopped") ~>
        (live = {} \/ ~(mode.suspended \/ mode.stop = "stopped"))

\* A probe that a poll no longer names is uninstalled when the reconciliation of
\* that poll is over: nothing is left armed that is not desired.
RemovedIsUninstalled ==
    rec.pc = "idle" => \A p \in Probes : Installed(p) => desired[p] # None
=============================================================================
