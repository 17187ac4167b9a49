# LiveProbe in TLA+

LiveProbe puts breakpoint-like probes into running programs. A *broker*
(TypeScript, `packages/broker`) keeps the probes, hands them to *agents* inside
or beside the target programs (Node, Python, JVM, native eBPF), and collects the
events the agents send back. People and their assistants talk to the broker over
HTTP, directly or through the MCP server.

This directory models the parts whose correctness depends on the order in which
things happen: what the broker remembers, what it stores, what agents are told,
when an agent's breakpoints are set and removed, what a hit captures, what becomes
of an event on its way, who may do what, and what a caller is told about it. Pure
parsing and formatting is left out. `PROJECT.json` gives, for every definition
that models code, the lines it stands for.

## 1. Inventory

### Broker (`packages/broker/src`)

| Part | State | Operations | What must hold |
|---|---|---|---|
| Probe state | probes, a version per service, an event ring per probe, logical statuses | create, delete, ingest, expire, list, poll, data | versions tell contents apart; nothing acknowledged is lost |
| Mutation queue | one promise chain, the snapshot of the mutation under way | `mutateDurably`: snapshot, mutate, await persist, reload the snapshot on failure | memory and store agree whenever nothing is under way |
| JSON store | one file, replaced by rename | persist everything, restore | as above |
| PostgreSQL store | rows per probe, service, event, status, native agent... | one persist per mutation that writes only *its* rows, restore | as above, for state no mutation names too |
| Timers | TTL sweep, periodic snapshot (JSON only) | both go through the queue | every TTL is enforced although writes fail |
| Native reconciliation | agents, process instances with their owner, statuses per probe, agent and instance, an assignment version per agent | register, replace instances, assignments, native ingest | one owner per process; ended probes stay ended; assignment versions tell contents apart |
| Removed probes | ids removed less than a grace period ago | remembered by delete, pruned by native ingest | late events of a removed probe do not take others down with them |
| Long poll | listener Sets per probe | wait, signal, time out, abort, dispose | no lost wake-up, no leaked listener, every request answered |
| Source maps | sets per service and commit, upload leases | status, upload, complete | one uploader at a time, sets never mixed, complete ones whole |
| Capabilities | reports per agent with a 45 s window | refreshed by polls and ingests | a probe needs what all live agents can do |
| Catalog and credentials | rows of projects, environments, services, credentials | create, archive, issue, revoke, authenticate | a revoked key is refused; archived things are not used |
| Audit trail | `audit_events` | attempt before, outcome after each change | no change without an attempt; the trail agrees with the answer |
| Authentication of people | membership cache, provisioned scopes | verify, ask Clerk, provision, choose an environment | a removed member is refused soon; nobody is served before the tenant exists |

Concurrency: Node runs one handler at a time, but every `await` lets others in.
Mutations queue behind one another; *reads do not join the queue*: they run while
a persist is awaited, see state that may be rolled back, and expire due probes in
it without storing that. Control-plane requests do not use the queue at all: they
interleave statement by statement in PostgreSQL.

### Agents and clients

| Part | State | Operations |
|---|---|---|
| Node SDK (`packages/sdk-node/src`) | version cursor, wanted and armed probes, shared breakpoints, captures waiting to be processed, event buffer bounded in bytes, rate limiter, safety monitor, source-map upload | poll and reconcile, arm when scripts appear, pause and capture, retire at the hit limit, suspend and rearm, flush with isolation of refused batches, upload maps, stop |
| Python SDK (`python/sdk`) | the same, on threads | the same |
| JVM bridge (`java/bridge`) | the same, over JDI | the same |
| Native agent (`native/agent`, `native/loader`, `native/bpf`) | discovered processes, attachments, a bounded send queue, a supervised loader | register, report instances, reconcile assignments, send |
| MCP server (`packages/mcp-server`) | the requests of tool calls under way | one or two broker requests per tool, each with a timeout |

Agents talk to the broker over HTTP only: requests fail, time out after the
broker has acted, and are repeated. Two agents may report the same process, one
of them late. The Node agent runs inside its target: scripts are parsed and
breakpoints are hit while it awaits the inspector.

### What is hard here

The full list, with lines and the properties aimed at each entry, is `hazards`
in `PROJECT.json`. The recurring themes: a rollback after others have read; a
store that writes less than memory changed; crashes between a change, its persist
and its answer; statuses out of order; deletion racing what is still in flight; a
bounded buffer refilled from both ends; a retry of what was already taken; a
wake-up between a check and a wait; a decision taken before an inspector's answer
and carried out after it; a lease outlived by its holder; a cached permission; a
budget that ends in the middle of a graph.

## 2. Modules

| Module | Models | Status |
|---|---|---|
| `BrokerState` | operators on the broker's memory: create, delete, ingest, expire, snapshot, restore | done |
| `DurableBroker` | `BrokerState` inside `mutateDurably`, both stores, failures, crashes, restarts, sweep, polling agents | done |
| `ProbeFeed` | abstract promise of polling: a feed whose version identifies its content | done, refined by `DurableBroker` |
| `DurableBrokerProofs`, `ProbeFeedProofs` | theorems about these three | done |
| `NativeProofs` | theorems about `NativeReconcile` | done |
| `EvidenceProofs` | theorems about `LongPoll` and `McpTools` | done |
| `SourceMapsProofs` | theorems about `SourceMaps` | done |
| `AccessProofs` | theorems about `Catalog` and `Access` | done |
| `SdkProofs` | theorems about `SdkProbes` and `SdkDelivery` | done |
| `CaptureProofs` | theorems about `SdkCapture` | done |
| `NativeReconcile` | native agents, ownership, assignments, latches, derived status, both stores, restarts | done |
| `LongPoll` | waiting data requests beside mutations and rollbacks | done |
| `SourceMaps` | the upload handshake on both sides: leases, retention, the queue and the persist outside it, rollbacks, restarts, retries | done |
| `Catalog` | projects, environments, services, credentials and their audit trail, statement by statement | done |
| `Access` | a person's request: membership cache, remote MCP endpoint, provisioning, choice of an environment | done |
| `SdkProbes` | `ProbeManager`: reconciliation, arming, shared breakpoints, hit limits, token bucket, suspension, stop | done |
| `SdkCapture` | what one hit reads within its limits, and where paths into it lead | done |
| `SdkSnapshot` | the tree that a snapshot shows of it | done |
| `SdkDelivery` | the Node agent's buffer, flush, `ingestIsolating`, stop | done |
| `McpTools` | the tools of the MCP server, their requests, timeouts and answers | done |
| `NativeAgent` | discovery, attachment life cycle, send queue, loader supervision | not begun |
| `Capabilities`, expressions | the 45 s window; evaluation against a reference definition | not begun |

`MC*` modules hold the finite instances. `DurableBroker` extends `BrokerState` and
instantiates `ProbeFeed`; the other components are separate, because they share
with the broker only what their module restates (a deletion, an ingest). Modules
without common state share an instance where one side of a system is asked about
together: in `MCSdkAgent`, `MCSdkCapture`, `MCEvidence` and `MCAccess` the variable
`part` chooses, once and for all, which of them a behaviour is about.

The plan has left the two modules not begun, and the hazards of `PROJECT.json` that no
property covers yet.

## 3. How modules correspond to the code

**DurableBroker.** `mem` is the `BrokerState` object, `disk` what a restore would
read. `Begin*` actions are what a route does inside `mutateDurably` up to the
await: take the snapshot (`inflight.before`), change memory, and fix what will be
written (`inflight.write`, a function of memory *after* the mutation and of the
store). `PersistOk` makes the write durable and acknowledges; `PersistFail`
reloads the snapshot, which expires due probes once more, as `loadSnapshot` does;
`Crash` may come at any time, before or after the write is durable; `CleanRestart`
is `onClose`, whose persist includes what reads expired. `Read` stands for every
handler that expires probes without storing it. `Poll` is `pollProbes` together
with the agent's cursor and replaced probe set. The JSON store writes everything;
`WriteProbe`, `WriteDelete`, `WriteIngest`, `WriteMaps` and `WriteAll` are the row
sets of the PostgreSQL store, including the clause that keeps a newer status row.

**NativeReconcile.** The queue is collapsed here: a mutation and its successful
persist are one step (`DurableBroker` is about the gap between them), so that the
state can hold two stores' worth of agents, instances, statuses and versions.
`Register`, `ReplaceInstances`, `Assignments` and `IngestNative` are the four
native routes, `Create`, `Delete` and `Expire` what reaches native state from
elsewhere, `Restart` a broker restart from the store, `AgentRestart` the loss of
an agent's cursor. A process instance is an id and a build; statuses are kept per
probe, agent and instance. `lost` records live probes whose events a refused batch
took down.

**LongPoll.** `listeners` maps a probe to a JavaScript `Set`; a request keeps the
object it joined, so Sets have an identity (the request that created them) and a
waiter may leave a Set that is no longer the one under its key. Mutations are cut
down to what they do to events, probes and signals.

**SourceMaps.** `Status` is the status route with the agent that asks: it claims,
keeps or waits for a lease, clears a set it takes over, and then persists that
*outside* the mutation queue (`saves`, `SaveEnds`). `Send` queues an upload or a
completion, `Mutate` runs the first of the queue up to its await, `Persisted` and
`PersistFails` end it, the latter with the rollback that also forgets every lease.
`Retained` commits are kept, the oldest set goes. Agents wait, retry and give up by
the one counter that `#syncSourceMaps` keeps. `Timeout` is the client's own timer of 5 s,
which every request has: the agent gives up on a request that the broker has taken and goes
on to its next attempt, while the request stays in the broker's queue. Two fields are
history: a request is `old` once its sender has claimed the commit anew, a set `stray` if an
old request completed it. The store is PostgreSQL; with the JSON
store the file of a save and of a queued persist would be one (see the hazards).
A map is known by its path and the agent that sent it, which is what `NotMixed`
tells apart.

**Catalog.** A request is a process whose `pc` says which statement is next: the
audited attempt, the operation (for `POST /v1/service-credentials` a lookup, the
registration of an unknown service and the insert), the audited outcome. `Attempt`
fails the request when the trail cannot be written; `Outcome` writes the outcome, and a
success that cannot be recorded becomes an error although the change stays. A call of a native agent that its handler refuses is recorded as `denied` (403) or
`error` (400, 404, 409), one that fails otherwise not at all. The route that creates a
project has a 404 for an unknown tenant, which no request meets: the migrations insert the
shared tenant, `ensureResourceScope` a person's before the request is served, and nothing
deletes one. The
cascades of archivals over rows and credentials are one transaction under the
advisory lock, hence one step. `late` marks calls that came after their key was
revoked. Denied requests of people without the role leave no trail, as in the code.
A credential for an environment that does not exist fails on its foreign key.

**Access.** `LookUp`, `ClerkLooks` and `ClerkAnswers`, the question to Clerk, what it finds and
the cache entry written when its answer arrives, are separate steps, so that answers overtake each other and an answer from
before a removal is cached after it; `gone` counts the time since the user was last
entitled. The session and the OAuth authenticator have a cache each (`cache`), and a
token is one of the two kinds. `resolver` says whether the broker was started with a
`CLERK_SECRET_KEY`; without it there is no OAuth, and a session's role is what its token
says (`ByToken`), for as long as Clerk lets a token live (`TokenUnits`). A request by way of the remote MCP endpoint authenticates twice, because
the tool calls the broker's own API with the token. `scope` is the shared promise in
`provisionedScopes`, which a failure removes.

**SdkProbes.** All of the manager's maps are variables; `posted` is what the
inspector has not answered, in order. `Reconcile` runs up to its first await and
`ReconcileResumes` from one await to the next; `EnsureArmed` may start whenever a
loop of `reconcile`, `rearm` or `onScriptAvailable` could reach the probe;
`WaiterResumes`, `AnswerSet` and `FinishArm` are the continuations of
`#acquireBreakpoint` and `ensureArmed` with all their checks for what changed
meanwhile. A pause is one step, as it is synchronous: `PauseCaptured` takes a token and
leaves a capture for `Process` (the `setImmediate`), `PauseOverBudget` counts a bare
counter, `ResumeFails` is the failure that disarms the agent. `SuspendAll`, `DropNext`,
`Rearm`, `BeginStop` and `Stop` are the safety monitor and the end. V8 is external: it
answers commands in order, may refuse a removal, which the code ignores
(`probe-manager.ts:887-891`; such breakpoints are `stuck`, and nobody asks for their removal
again), moves a position to the next one with code (`Snap`) or
finds none (`NoCode`). `Rearm` comes only when the inspector has answered everything,
since the cool-down is far longer than an answer takes. Two restrictions: statuses and
events that these steps produce are left to `SdkDelivery`; and the passing run lets no
script be parsed while a reconciliation awaits the inspector
(`ScriptsDuringReconcile = FALSE`). `sdk_ghost` shows what happens otherwise.

**SdkCapture, SdkSnapshot.** `program` is a paused program: a heap, redacted keys, a path
that a probe names, depth and budget. The objects of a heap are *mentions*: what V8 gives
an `objectId`, which is what `capture.ts:208` and `238` tell objects apart by. V8 mints a
new id for every mention, so that a shared object appears as several, a cycle as an endless
path of mentions that only the depth and the budget end, and a function or a symbol, which
has an id too, as an object (`capture.ts:218-221`). `PropertiesRead` and `PropertiesFailed` are the
callback of `getProperties` for the oldest task of the traversal, and `own` is the copy it
builds: `Selected` is what one answer is cut to (`maxProps` and one more, or `maxArray`
elements, by index), `ReadProperty` what becomes of one property. A redacted element leaves
a hole. `SerializeValue` (a module of its own, since it is recursive) gives the tree of a
snapshot with its markers for depth, width, cycles and truncation. The reference of
`SnapshotIsTruthful` is the same serializer applied to the mentions as V8 would go on giving
them (`RealOwn`): a snapshot may say less only where it carries a mark. What it does not
claim, that functions and cycles are shown as the protocol says, is stated as
`TraversalRulesFollowed`, over what the mentions are of (`Identity`, `Function`), and is
false (section 4). `PathsAreReached` compares both path
lookups, on what was captured and on what can be read of the heap (`ReadableOwn`, where an
inner scope hides the names of an outer one, also those of its variables that are cut).
Scalars stand for every primitive without an id and for accessors; redaction of values by pattern and string
limits are not modelled.

**SdkDelivery.** Events are numbers in capture order. `work` is the recursion of
`ingestIsolating` written as the stack of batches it has still to send, leftmost
first; `splits`, `rejected` and `deferred` are its budget and its result.
`Capture` may happen between any two requests of a flush. The broker's part is one
condition: a batch with an event of a removed probe is refused with 400.

**McpTools.** A tool call makes its request, or two when it creates a probe (first
the services, for the commit comparison). The broker is external: it handles a request
once or never, and does not notice that the caller has given up. `AbortRequest` is the
timer, `Headers` and `Body` the two halves of an answer, since the timer covers the
first only (it is cleared at `index.ts:1079`): content that never ends leaves a call at
`body` for ever. A removal that is answered well, but not with 204, is an error of the
broker. The nine tools that read, the five that remove and so on differ in their
path and schema; the run uses one of each way a tool treats its answer.

## 4. Runs

Passing runs:

| Run | Question |
|---|---|
| `durable_json` | JSON store, failing writes, crashes at every point, restarts, reads during an awaited persist: do memory and file agree whenever idle (`IdleInSync`), do acknowledged probes survive (`AckedSurvives`), are acknowledged events stored (`EventsDurable`), do versions go back when nothing is in flight (`VersionMonotonicWhenIdle`), and does the sweep alone, without any reader, expire every probe (`EventuallyExpired`)? |
| `durable_postgres` | What is acknowledged, for row sets that name only what a mutation touched and never the expiries that reads cause. |
| `poll_coherence` | Without faults, does the broker implement `ProbeFeed` (`ImplementsFeed`): is `unchanged` answered only to agents with the right probes (`PollCoherent`), and does every polling agent drop a deleted or expired probe (`GhostsRemoved`)? Two services, three probes, source maps. |
| `native_json` | Late, repeated and out-of-order statuses on two processes, restarts of broker and agent: assignments (`AssignmentsCoherent`, `AssignmentsConverge`) and latches (`EndedExactly`). |
| `native_agents` | Two agents report one process and send batches that still hold a deleted probe's events, up to and past the grace period: one owner (`OneOwner`), no live probe's evidence lost with a deleted one's (`NoCollateralLoss`). |
| `evidence` | Broker: no lost wake-up (`NoLostWakeup`), exact listeners (`ListenersExact`), nobody waits for a deleted probe (`NobodyWaitsForDeleted`), every request answered (`EveryRequestAnswered`), through rollbacks and a shutdown. MCP server: a call that ended well was carried out exactly once (`DoneExactlyOnce`), one that may still be carried out was answered as retryable (`LateEffectsAreRetryable`), every call is answered or left reading content that does not end (`EveryCallAnswered`). |
| `sdk_agent` | Probes: what counts as armed is armed (`InstalledHasBreakpoint`), no breakpoint outlives its probes (`NoOrphanBreakpoint`), no probe exceeds its limit (`HitLimitKept`), a suspension and a stop detach everything (`EventuallyDetached`). Delivery: every captured event is settled once outages end (`EventuallySettled`). Source maps: sets of two uploaders are never mixed (`NotMixed`), complete ones are whole although requests are given up on (`CompleteIsWhole`), an agent outlasts the lease of one that stopped (`EventuallyComplete`). |
| `sdk_hit` | Capture: a snapshot says nothing that is not so of the values V8 has mentioned (`SnapshotIsTruthful`), paths lead where they lead in the program (`PathsAreReached`). Delivery: losses counted exactly (`LossesCounted`), an event stored twice only when an answer got lost (`DeliveredOnce`), only the refused event rejected, wherever it is in the batch (`OffenderIsolated`). |
| `access` | Control plane: no change without an audited attempt (`ChangesAreAudited`), the trail agrees with the answer (`AnswerMatchesTrail`), a revoked key is refused (`RevokedIsRefused`). People: a removed member is refused once cache and delay, or the life of a token, have passed (`RemovedMemberRefused`), nobody is served before the tenant's rows exist (`ServedMeansProvisioned`). |

Runs that end in a counterexample, each a disagreement between the code and what
its documents say (quoted under `findings`):

| Run | Shows |
|---|---|
| `poll_rollback` | a failed persist takes a service version back after agents saw it; another mutation reuses it, and an agent is told `unchanged` although it runs the wrong probes |
| `sdk_ghost` | a script parsed while a reconciliation awaits the inspector re-arms, from the old list, a probe that is being removed; the agent runs it until the version moves again. `InstalledHasBreakpoint` fails then too |
| `watch_depth` | a watch is serialized deeper than it was captured: an object that was not read is shown as an empty one, without a mark |

Other disagreements met while modelling, which the modules exhibit but no run is
kept for:

* PostgreSQL does not store the version raised by completing source maps
  (`postgres.ts:1166`): `VersionMonotonicWhenIdle` with `Store = "postgres"` and a
  non-empty `MapServices`.
* An instance missing from one report loses its stored terminal statuses
  (`postgres.ts:1072`); after a restart the ended probe runs again: `EndedExactly`
  with `Store = "postgres"`.
* `ingest` (`index.ts:1817`) sets `armedAt` at every `armed` report, where
  `protocol.md:523-525` says it is set the first time. Under PostgreSQL
  (`postgres.ts:1772`) a status row with a later timestamp wins over a derived `armed`
  status of another instance, so that a restart loses `armedAt`.
* `recentlyRemovedProbes` is not restored (`index.ts:1530`): `NoCollateralLoss` with
  `CanRestart = TRUE`.
* A credential issued while its service or environment is archived stays active
  (`index.ts:4238`), where `protocol.md:700` says that archiving revokes them:
  `ArchivedHasNoCredential` in the instance of `access`. A request refused for its role
  leaves no trail, against `protocol.md:766-768`.
* `get_probe_data` offers to wait 30 seconds on a request that times out after 5
  (`mcp-server/src/index.ts:1857`, `716`): `WaitIsHonoured` in the instance of `evidence`.
* A `complete` request its agent has given up on (`broker-client.ts:356`) may be carried out
  after the agent has lost the lease, claimed it anew and so emptied the set, which then
  counts as complete without its files. `CompleteIsWhole` exempts exactly these sets
  (`stray`); without the exemption TLC finds it violated on the instance of `sdk_agent`. No
  document says what a late completion does.
* A cycle is never marked `circular` and a function never shown as `fn`, where
  `protocol.md:914-916` says so: the copy goes by the `objectId`, which is new at every
  mention (`capture.ts:208`, `238`), and makes an object of everything that has one
  (`capture.ts:218-221`). `TraversalRulesFollowed` in the instance of `sdk_hit`.
* A breakpoint that V8 does not remove stays: `removeBreakpoint`'s error is ignored
  (`probe-manager.ts:887-891`) and a later hit finds nobody to capture it.
* An arm that awaits the inspector when a poll's answer supersedes its definition ends
  during the reconciliation with the old definition (`probe-manager.ts:171-180`), so that
  `RemovedIsUninstalled` is violated after 13 steps even if no script is parsed meanwhile;
  `sdk_ghost` is the same with a script.
* `selectedDescriptors` cuts every scope to `maxProps` + 1 variables before the scopes of a
  frame are merged (`capture.ts:103`), so that a variable of an inner scope that is cut does
  not hide the outer one of its name, and a condition on the name reads the outer one
  without a mark; `capture.ts:35-38` says that "an inner binding that shadows an outer one
  of the same name wins". `PathsAreReached` in the instance of `sdk_hit` with
  `MaxProps = 0`; with the default of 50 it takes 52 variables in one block.
* Elements past `maxArray` are not read (`capture.ts:114`), so that a condition on one of
  them never matches; where the budget ends between two scopes of a frame
  (`capture.ts:146`) the frame lacks names without a mark; the last flush of a stopping
  agent sends one batch (`live-probe.ts:528`) and does not count the rest as dropped. No
  document speaks of these.
* The split budget of the isolation is spent depth first, so that a batch with several
  refused events may lose half of itself at once, where `IngestIsolation.java:25-27`
  says "gives up one level early, dropping a small sub-batch".

### Bounds

*Broker.* Two probes with different TTLs on one service are enough for every pair of
mutations to race and for one to be overdue while another is created; three probes
on two services add that services do not disturb each other. Clocks of 3 let a
TTL of 1 or 2 pass, and pass again after a restart. A ring of two is filled and cut by
three events. `MaxVersion` bounds histories, not single steps: four versions
hold a create, its rollback, its reuse and one more. Two processes of one agent, or two
agents of one process, are the least in which statuses disagree and ownership moves
and moves back; two probes in a batch, one of them deleted, are what `NoCollateralLoss`
is about. Two waiting requests on two probes let one waiter leave a Set while the other
stays in it, and let a rollback touch a probe nobody mutated.

*Agent.* `sdk_agent` has two probes with two definitions each, chosen so that they ask
for the same position, for one that V8 moves onto it, for none, and are found in one
script or two; limits of 1 and 2 with two captures under way reach a limit by
counted and by pending hits. Two uploaders of one commit, or of two of which one is
retained: a lease of one unit, two questions and two attempts after errors stand for the code's
six units of 20 s, ten questions and five attempts, so that, as there, an agent's questions
outlast a lease and an error is retried; one failed request,
one given up on, or a restart. V8 refuses one removal. Three
events for a buffer of two are enough for `EventuallySettled`; `sdk_hit` has six of
sizes 1, 2 and larger than the buffer of 4, which evict, overflow and requeue, and two
splits, what isolating one of four takes. The programs of `sdk_hit` are all heaps of
one object, one array and a function in three scopes of two frames with holes, sharing and
cycles (as mentions come, three deep, deeper than anything is read), shadowing, a redacted
element, and objects and a scope with more properties than are shown
and than are read, at depths 1 and 2 and budgets that end at a scope, in the middle of the
graph, and after it; five paths go to variables, into objects, around a cycle and into the
array.

*Control plane and clients.* Two requests interleave with each other at every
statement; one row of each kind and one credential suffice for them to meet, two failing
statements to lose an operation and the trail of it. For people, caches of two units
and a delay of one make an answer overtake another and outlive the membership; tokens live
three units, as long as both together. Tool
calls do not share state, so one at a time is enough.

Requests in `access` and agents in `native_agents` are interchangeable, and TLC explores one
of each pair of states that differ by an exchange; both runs check invariants only. In
`access` a view also merges states that differ only in what an ended request carried and
no property or later step reads.

Runs that turn deadlock checking off are those whose system stops: an agent
that has stopped, a broker that has closed with all requests answered, a finished
capture, maps that are uploaded.

### Fairness

* `Tick`, `McpTick`: the clock advances. `Poll`, `Assignments`, `Flush`, `Status`:
  timers of a running agent. `Timeout`, `AbortRequest`, `Resume`: `setTimeout` fires and
  a settled promise resumes its handler. Weak fairness each.
* `PersistOk \/ PersistFail`, `Persisted \/ PersistFails`, `SaveEnds`: an awaited write
  settles one way or the other; nothing is assumed about which.
* `BeginSweep`: strong fairness. The sweep is queued on a FIFO promise chain behind
  finitely many mutations, so it gets its turn, but while another mutation is under way
  it is not enabled, which weak fairness would let go on for ever. Because it may fail
  again and again, `EventuallyExpired` is stated for memory as readers see it.
  `durable_json` assumes nothing about agents (`SweepSpec`).
* `Delivered \/ Refused` in `SdkDelivery`: outages end (`MaxFailures` bounds them).
* `SdkProbes`: the inspector answers, and continuations run. Nothing is assumed about
  polls, pauses, scripts or the safety monitor.
* `SourceMaps`: `EventuallyComplete` is stated for agents whose requests do not fail
  (`errors`) and uploads that take less than a lease (`slow`), since nothing in the code
  would let them succeed otherwise.
* `McpTools`: the timer fires and settled promises resume. Neither that the broker handles a
  request nor that the content of its answer ends (`Body`) is assumed, and
  `EveryCallAnswered` allows for a call that stays at its content for ever.

## 5. Proofs

Checked by TLAPS. Each theorem holds for every value of the constants that satisfies the
named ASSUMEs of the modules (any number of probes, services, agents, requests and so on,
any TTL, capacity, period and budget), and with an extra hypothesis only where one is
stated below. All invariants follow the same plan: an inductive invariant that implies
the property, one lemma per action that shows what the action keeps, and below these,
lemmas about the operators on records (what an expiry, a restore, a `finish` or a merge
of statuses leaves alone), which carry most of the work.

**The broker** (`DurableBrokerProofs`, `ProbeFeedProofs`).

* `TypeCorrect`, `MemoryMatchesStore` (`IdleInSync`) and `AcknowledgedProbesSurvive`
  (`AckedSurvives`), for both stores, from

      IInv == TypeOK /\ IdleInSync /\ AwaitedInSync /\ AckedSurvives /\ ZeroUnlessStored

  `IdleInSync` alone is not inductive: what becomes of memory and store when a
  persist ends depends on what was fixed when it began. `AwaitedInSync` says so: the
  snapshot agrees with the store, and the pending write agrees with memory.
  `ZeroUnlessStored` says that a probe that is not there has no end time left over,
  so that a deleted and a never created probe look alike.
* `AcknowledgedEventsSurvive` (`EventsDurable`), for both stores. `RingInv` adds that
  the rings of unexpired probes agree in the same pairs (memory and store, snapshot and
  store, memory and pending write), that no ring is over the capacity, so that a reload
  cuts nothing, and that a probe that is not stored has an empty ring, which is what
  lets PostgreSQL create a probe without writing a ring.
* `IdleVersionsNeverGoBack` (`VersionMonotonicWhenIdle`), for the JSON store. `LagInv`
  bounds how far memory runs ahead of the file: by probes that reads expired, which are
  due in the file too, and by at most one version for each. A reload expires these
  again, and so catches up. For PostgreSQL the statement is false (section 4).
* `FeedCoherent`: in the abstract feed an agent that holds the current version holds the
  current content. `BrokerImplementsFeed` (`ImplementsFeed`): if writes do not fail and
  the broker does not crash, `DurableBroker` implements `ProbeFeed`: initial states map to
  initial states, every step to a step or a stutter. `PollingIsCoherent` (`PollCoherent`)
  follows. The assumption is necessary: `poll_rollback` is the counterexample without it.

**Native reconciliation** (`NativeProofs`).

* `NativeTypeCorrect` and `ProcessHasOneOwner` (`OneOwner`), for both stores and any
  restarts, from `BaseInv`, which says the same of the store's instances and adds that no
  status is dated in the future.
* `LiveEvidenceIsTaken` (`NoCollateralLoss`), while the broker does not restart: a probe
  deleted within the grace period is still remembered (`LossInv`). A restart does forget
  removals (section 4).
* `VersionsNeverGoBack`, `CurrentAgentRunsDesired` (`AssignmentsCoherent`) and
  `EndedAssignmentsStayEnded` (`EndedExactly`), for the JSON store and any restarts of
  broker and agents. `JsonDisk` says what a restart finds: the file lags behind memory by
  the probes that reads expired, and an agent's version by exactly the expiries that
  concern its instances. `CoherentInv` adds that no agent is ahead of the broker, so that
  a version is never used for two contents; `EndedInv` that recorded statuses and history
  agree for the probes there are, and that an id not given out yet has no history.

**Long poll and MCP server** (`EvidenceProofs`).

* `NoWakeupIsLost`, `ListenersFitWaits`, `NoWaitForDeleted` (`NoLostWakeup`,
  `ListenersExact`, `NobodyWaitsForDeleted`). That who waits has nothing to read is not
  inductive, since a rollback restores events without a signal: `PollInv` says it of every
  snapshot a rollback may return to as well (`Waits`), and relates snapshots to the present
  (`SnapshotOf`: what is empty now was empty then). `Fits` gives each Set one key.
* `McpTypeCorrect`, `ReportedIsDoneOnce`, `LateEffectIsRetryable` (`DoneExactlyOnce`,
  `LateEffectsAreRetryable`), from `Accounted`: per call, how often the broker has acted,
  whether it still may, and what the caller has been told.

**Source maps** (`SourceMapsProofs`).

* `OneBuildPerSet` (`NotMixed`). `MixInv` says it of the pending write and of what a
  rollback restores, and that the maps of a leased set are all from the holder of the
  lease, even after it has run out.
* `CompletedSetsAreWhole` (`CompleteIsWhole`), with the client's timeouts: `WholeInv` follows
  each agent's count of files sent against the set while it has the lease, through its
  queued requests, those it has given up on included; a request from before its sender's
  last claim is `old`, and says nothing of the set.

**Control plane** (`AccessProofs`).

* `CatalogTypeCorrect`, `EveryChangeIsAudited`, `TrailAgreesWithAnswer`,
  `RevokedKeyIsRefused` (`ChangesAreAudited`, `AnswerMatchesTrail`, `RevokedIsRefused`).
  `CatalogInv` says which steps a request of each kind may be at, what its trail holds at
  each of them, and that the key of a late call is revoked, since revocation is final.
* `RemovedMemberIsRefused` and `ServedIsProvisioned` (`RemovedMemberRefused`,
  `ServedMeansProvisioned`). `AccessInv` bounds the age of a cached membership and of an
  answer on its way against the time since the user was entitled (`Fresh`, `Careful`), in
  both caches and for a broker that goes by the token's role; a shared provisioning that is
  done has left the rows.

**Node agent** (`SdkProofs`).

* `ProbesTypeCorrect` and `HitsWithinLimit` (`HitLimitKept`). `ProbesInv` says that
  `pending` counts exactly the captures that wait for the probe, also for probes that are
  not installed (`HitInv`); that a probe is armed or installed, never both (`IdleArms`);
  and that each awaits at most one answer of the inspector, whose arm says which
  (`Awaited`), so that an answer always finds the arm it is meant for.
* `ArmedMeansBreakpoint` and `BreakpointMeansArmed` (`InstalledHasBreakpoint`,
  `NoOrphanBreakpoint`), if no script is parsed while a reconciliation awaits the
  inspector. `BreakpointInv` says that the registry names exactly the probes installed
  at a breakpoint or about to be (`ClaimInv`); that what is registered is in V8, what is
  in V8 is registered or leaving and never both, and a removal is asked for once
  (`LiveInv`); that a failed session holds nothing (`FailInv`); that what a reconciliation
  has still to uninstall is not being armed anew (`TodoInv`); and that the probes of one
  capture share a breakpoint (`LineInv`), which is why a retirement releases one
  breakpoint only. The hypothesis is what `TodoInv` needs, and both properties need it:
  without it `InstalledHasBreakpoint` is false (`sdk_ghost`), and with a third probe on a
  line of its own TLC finds `NoOrphanBreakpoint` violated after 23 steps. A probe armed
  from a superseded definition reaches its limit while the reconciliation still has it to
  uninstall; it is armed anew at the new line, the stale object is then uninstalled, and
  `#uninstall` (`probe-manager.ts:876-880`) deletes the new entry of the same id, whose
  breakpoint nobody releases.
* `LossesAreCounted` and `EventDeliveredOnce` (`LossesCounted`, `DeliveredOnce`).
  `DeliveryInv` says that no event waits in two places among the buffer, the stack of
  batches and what was deferred, that only captured events wait, that an event is received
  at most once more than answers for it got lost, and not even that while it waits, and
  that nothing is under way unless a flush is.
* `HalvingIsolates` (`OffenderIsolated`). `IsolationInv` follows the stack of halves: its
  parts are parts of the batch that share no event (`PartsOf`), and as long as a single
  event of at most `2 ^ MaxSplits` offends, the part it is in fits into the splits that
  are left, and what was given up is that event or nothing (`Isolating`). The provers know
  no powers: `PowerZero` and `PowerNext` get them from the number of subsets of a set.
* `BufferAccountExact`: the byte count that `EventBuffer` keeps by adding and subtracting
  (`event-buffer.ts:8-84`) is the sum of the sizes of the events in it, and within the
  limit, through evictions, batches and requeueing (`BytesExact`; with a wrong count the
  buffer would evict for ever or never). TLC has found it to hold on the instance of
  `sdk_hit`; no run is kept for it.

**Capture** (`CaptureProofs`).

* `CaptureIsSound` and `PathsLeadWhereTheyLead` (`PathsAreReached`). `CaptureInv` says that
  there is a depth for every object, one step apart along the queue (`Level`), so that the
  queue is breadth first; that an object is queued once and empty until it is read
  (`Queued`); that the innermost frame's scopes come first, in order (`ScopesFirst`); and
  that every container read so far holds, key by key, what the program holds, or the mark
  of the budget, or a container left empty at the depth nobody asks for (`Covers`, `Match`).
  One read of a property is the step (`OneRead`), of which `PropertiesRead` is a fold. A
  path then meets an object no deeper than the segments gone so far, hence never an empty
  one (`BothDescend`): this is what `CaptureDepth` is for.

  There are two hypotheses. `CutNamesAreFree`: no variable of an inner scope that the limit
  on properties cuts has the name of an outer scope's variable; without it the statement
  is false (section 4). `ScopesFit`: the budget holds the scopes of the innermost
  frame; it is 200 in the program (`probe-manager.ts:319`), and where it ends among these
  scopes names are missing without a mark (section 4).

The ASSUMEs are types of the parameters (finite sets of probes, agents and builds;
positive capacities and TTLs; at least one service and one tool; probe ids apart from the
names of the manager's own commands; of a paused program that a property has one value,
that scopes are no objects, that there is a frame, and that functions are mentions and no
arrays); TLC evaluates them in every run.

Where a statement needs induction over data (the sum of a sequence, `BufferAccountExact`)
the proof takes a least counterexample (`LeastNatural`), since the induction theorems of
the library cannot be instantiated here.

Folds over sequences (`FoldLeft`, `FlattenSeq`) are unfolded by way of the function they
are defined by: `FoldExists` builds it step by step, after which an induction over the
length goes through.

Only model-checked: `SnapshotIsTruthful`, whose serializer is recursive over a graph, out of
the prover's reach (what it is applied to, the copy, is covered by `CaptureIsSound`); and
the liveness properties, which with fairness and ENABLED are out of its reach too.

## 6. Abstractions, and what is not modelled

* A probe's definition, an event's payload and a status's detail are opaque: only
  identity, service, TTL, kind and timestamp are kept. Input validation is a
  precondition of the action it guards; the paths on which it fails change nothing
  but expiries, which `Read` covers.
* Resource scopes (organisation, project, environment) partition all state by key; the
  models of the data path are of one scope.
* The JSON file is replaced atomically (`rename`), a PostgreSQL persist is one
  transaction. A COMMIT whose answer is lost is not modelled, nor are two writers of the
  JSON store's temporary file.
* In `Catalog` one statement is one step: the overlap of two READ COMMITTED transactions
  is not modelled.
* `SourceMaps`: an agent gives up only on requests that the broker has taken (one that never
  arrives is a failed request), and the saves of one agent that nobody waits for any more
  count as one.
* Wall-clock time is a counter shared by broker and agents; agent timestamps may lie one
  tick back. A clock that is set back is not modelled.
* In `SdkProbes` the disconnect of the inspector after a stop, and what V8 does with a
  pause nobody listens to, are left out; a hit at a breakpoint that V8 refused to remove
  finds no probe and only resumes the target. In `SdkCapture` the checked budgets never end
  between two scopes of one frame, and at least the innermost frame is kept
  (`maxStackFrames`).
* Not modelled: the capability window (a filter over timestamped reports, of which no
  document says what it owes a service without reports); the parsers and evaluators of
  expressions beyond the paths they name; source-map resolution, DWARF and symbol
  parsing, V8, JDI and BPF mechanics (pure or external); the shared API key and token
  signatures; migrations, schemas, demos and scripts; the native agent beyond its
  cursor; the Python and JVM agents, which repeat the Node agent's protocol on threads.
