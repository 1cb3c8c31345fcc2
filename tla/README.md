# TLA+ models of the Simultica task system

Simultica lets coding agents work on issues. A Go server (`src/server`), run as
several replicas over one PostgreSQL database and an optional Redis, queues
tasks for agents. Daemons on users' machines claim tasks over HTTP, run an agent
CLI for each and report the outcome. Web, desktop and mobile clients talk to the
same HTTP API.

This directory models the parts where concurrency decides correctness. On the
server: the task queue, the service on top of it, the claim endpoint with its
cache, the periodic job scheduler. In the daemon: the pollers with the self-update
barrier. In the clients: the query cache that WebSocket events keep fresh, and in
the desktop application the tab store and the manager of the local daemon.
Everything is translated from the Go, SQL and TypeScript sources; `PROJECT.json`
maps each definition to the lines it stands for.

## 1. Inventory

| Component | State | Operations | Hard because | Correct if | Module |
|---|---|---|---|---|---|
| `agent_task_queue` (`pkg/db/queries/agent.sql`, `runtime.sql`, migration 037) | task rows; partial unique index on (issue, agent) for queued and dispatched rows | insert, retry insert, claim, reclaim, start, wait, complete, fail, bulk fail, cancels, reassign | replicas interleave statements; the claim decides on a snapshot | one task of an issue in flight per agent, outcomes final, retry chains sound | `TaskTable`, `SingleFlight` |
| task service (`internal/service/task.go`, `cmd/server/runtime_sweeper.go`, `handler/agent.go`) | status of agents and issues, local variables of handlers | enqueue, claim, redeliver, complete, fail and retry, sweep, cancel, archive, restore, refresh | several statements per handler, no transaction around them, handlers may be cut off | statuses go wrong in no unnamed way, one retry per failure, sweeps forget no issue, tasks end | `TaskQueue` |
| claim endpoint and cache (`service/empty_claim_cache.go`, `ClaimTaskForRuntime`, `mergeLegacyRuntimes`) | Redis version and verdict per runtime | bump, read, mark empty, list, claim, reclaim, merge | Redis and PostgreSQL are not atomic together; lost bumps and responses | no verdict hides a notified task; queued tasks are delivered | `EmptyClaim` |
| periodic jobs (`internal/scheduler`) | `sys_cron_executions`: row = lease = audit record | tick, stale sweep, plan, insert, steal, heartbeat, finish | replicas race, leases expire, late writers, an aging `now` | leases of punctual runners hold, attempts unique, outcomes owned, leases end | `CronLease` |
| daemon poll loop and updates (`daemon/daemon.go`, `auto_update.go`) | pollers, slot semaphore, `claimsInFlight`, `pauseClaims`, `activeTasks`, `updating`, root context | sync pollers, claim, hand off, self-update, requested update, restart, shutdown | goroutines, two counters under different locks, deferred calls | self-update interrupts nothing, slots and counters balance, shutdown ends | `ClaimBarrier` |
| daemon task runner (`handleTask`) | one task | start, wait for a directory, watch for cancellation, report | lost calls; the 90 s reclaim | a task is run once | planned |
| local path locks (`daemon/local_directory.go`) | mutex per real path | acquire, release | cancellation while waiting | exclusive, no lost wake-up | planned |
| runtime liveness (`handler/heartbeat_scheduler.go`, liveness store, sweeper) | last heartbeat in memory, Redis and database | record, flush, sweep | three clocks, batching | a live runtime is not set offline | planned |
| autopilots and automations | triggers, runs | tick, claim, dispatch | replicas race for a trigger | one run per occurrence | planned |
| workflow runs | runs, node states | start, submit, advance | concurrent submits | each node once | planned |
| requests relayed to a runtime (updates, model lists) | pending requests in memory or Redis | create, pop, report, time out | lost heartbeats and reports, several replicas | handed out once, ends | planned |
| Lark integration | inbound messages, connection leases, batches | dedupe, acquire, renew, flush | redelivery, lease takeover | handled once | planned |
| realtime hub, daemon WebSocket | clients, rooms | subscribe, broadcast | slow clients | nobody relies on delivery | planned last |
| client query cache (`packages/core/realtime`, `api/ws-client.ts`, mutations, `use-issue-timeline.ts`) | cache entries with their stale marks and reads in flight, debounce timers, the socket | event handlers, invalidation, optimistic mutation and rollback, reconnect, workspace switch | answers, events, responses and rollbacks arrive in any order; nothing polls | at rest an entry shows what its client was told of | `ClientCache` |
| desktop tabs (`stores/tab-store.ts`, `platform/navigation.tsx`, `use-tab-router-sync.ts`) | tab groups per workspace, a memory router per tab, refs of mounted tabs, persisted state | open, close, move, pin, switch workspace, push, replace, back, validate, migrate, rehydrate | store, router and React keep three copies of one fact; callbacks outlive their tab | groups well-formed and kept to their workspace, restart loses nothing, history honest | `TabStore` |
| desktop daemon manager (`main/daemon-manager.ts`) | shown state, auth verdict, deferred restart, guard, config files, sidecar | poll, start, stop, restart, version check, sync and clear token, reauthenticate | async functions interleave at awaits; only some take the guard; the daemon dies or boots on its own | daemon runs with the signed-in user's token, shown state converges | `DesktopDaemon` |
| handlers, auth, CRUD, views, agent CLIs, docs | per request | | | | not modelled |

How they meet. Every task operation of the server ends in a statement of
`TaskTable`. An enqueue inserts a row, bumps the runtime's cache version and
sends a wakeup. A daemon's poller claims through `ClaimTaskForRuntime`, which
consults the cache and then `ClaimTask`. Reports come back through `StartTask`,
`CompleteTask`, `FailTask`; sweepers replace the reports that never come. The
scheduler shares only the database with them. Handlers publish an event after each
commit; the hub passes it to the clients of the workspace, whose cache handles it
(`ClientCache`). The desktop application starts and stops the daemon whose pollers
`ClaimBarrier` describes, and gives it its token (`DesktopDaemon`).

## 2. Modules

```
SingleFlight  <-- refines --  TaskTable  <-- extends, refines --  TaskQueue
       EmptyClaim      CronLease      ClaimBarrier
       ClientCache     TabStore       DesktopDaemon
```

`MCxxx` modules hold instances for TLC, `xxxProofs` the proofs.

**TaskTable.** `task` is the table, a row having status, agent, runtime, source
columns (`link`), attempt, parent and failure reason; `rowLock` holds the rows
locked by a claim. One action per SQL statement. `ClaimAgentTask` is two steps:
under READ COMMITTED its `NOT EXISTS` reads a snapshot, and only the row it picks
is locked. Timeouts are "any set of rows with the right status". Priority and age
order of the claim are left open. `ReclaimStaleDispatchedTaskForRuntime` delivers a
dispatched row once more; it writes `dispatched_at` only, so in the table it is a
stutter, and its effect, that the dispatch timeout starts anew, is in the fairness of
`TaskQueue`.

**SingleFlight.** The promise of the queue: jobs in lanes (agent, issue), taken
by at most one claim, one of a lane at a time, done for good. A job that was taken may be
delivered again by the reclaim; it does not become open again.

**TaskQueue.** Adds the handlers. A handler is a program counter between
statements: `EnqueueRead`, `EnqueueInsert`; `ClaimCount`, `ClaimTake`,
`ClaimDispatch`; `Redeliver`, `Respond`; `FailTask`, `FailTaskRetry`; the loop of
`HandleFailedTasks` (`BatchRetry`, `BatchIssue`, `BatchActive`, `BatchReset`,
`BatchEnd`); cancels; archive and restore; and the status refresh that ends nearly all
of them. `RefreshAgentStatusFromTasks` is one UPDATE, yet two steps: its `EXISTS` is
evaluated on the snapshot of the statement (`RefreshRead`), which may then wait for the
agent row (`RefreshWrite`), so an older reading can be written last. `Drop` cuts a
handler off anywhere. Two variables are history: `overtaken`, the handlers whose
refresh another one got ahead of, and `missed`, the agents whose last refresh due was
lost. The switches `MayDrop`, `MayArchive` and `ReportsFailures` choose which
disturbances a run contains; overlapping refreshes are in every run.

**EmptyClaim.** Each Redis command and SQL statement of the claim endpoint is a
step, with any number of claims and enqueues in flight. `row` abstracts a task
row to what the endpoint sees; `left` is a row that a daemon started or somebody
cancelled, `dropped` one deleted with its runtime. Keys may expire, reads may
fail, `INCR`s may be lost (`MayLoseBump`), runtimes may be merged (`MayMerge`).

**CronLease.** One job and scope, with a clock in the database. A tick keeps the
time it read (`now`) while the clock moves on. The lease token is the attempt
number, since both change together. `onTime` and `due` are history: whether a
runner's heartbeats have been punctual, and when the next is due. The model time
unit is a second.

**ClaimBarrier.** Pollers, task goroutines, the self-update, the requested
update and the poll loop, at the granularity of `claimMu` sections, atomics and
channel operations. A poller may act on a context cancelled a moment ago, as in
Go's `select`. `RestartWorks` says whether `os.Executable` may fail.

**ClientCache.** A behaviour follows one cache entry, of a kind that stands for the
way its key is kept fresh (`kind`). What a resource holds is the set of changes
made to it. The operators of the first part are the query library as the code uses
it: setting data clears the stale mark, a read overwrites what was merged meanwhile,
an invalidation restarts a read but joins a first one. The server commits, then
publishes, and acknowledges a socket before it registers it. `told` is history: the
changes the client heard of, by an event, a reconnect or a response. `overlooked` is
history too: the changes the code is known to lose, each by one of five named
operators (`Doomed`, `Unfounded`, `Wiped`, `Undone`, and a failed read); the
property says that nothing else is lost.

**TabStore.** `store` is the Zustand store; an operator named after a store method
maps a store to a store, an action is an event handler followed by `Commit`, which is
what React does next (mounts, unmounts, runs the effects of the visible tab). A tab
has a router (stack and position), the position the store believes in, and `ref`, the
position `useTabRouterSync` counts while mounted. `stray` and `kept` are history: they
mark tabs that the code itself lets into a foreign workspace, and tabs whose router
moved unseen. Any tab's adapter may be used at any time: components of a hidden tab
still hold it. `Saved` are the persisted states a process may start from, of any of the
three versions; `SavedAssumption` says what every version wrote: rows of tabs under
workspace slugs, with one tab per id. Nothing is assumed of their order, of the active
tab or of the workspace of a path: that is what migrations and `merge` repair. The loops
of both are `Filtered`, the elements at a set of positions in increasing order.

**DesktopDaemon.** An asynchronous function is a program, the sequence of its
stretches between awaits; `ops` are the calls in flight. `mgr` has the module-level
variables of `daemon-manager.ts`, `disk` the tokens in the Desktop's and the CLI's
config and the sidecar with the user's id, `daemon` the process behind the health
port, `forks` processes that have not bound it yet. A user's tokens have two
generations, of which the first may be revoked. The programs are written out as
tuples, so that the proofs can name each point a call stands at. `muddled` is history: an account was
changed while another call was at the daemon, or a step failed.

## 3. Runs

| Run | Instance | Shows |
|---|---|---|
| TaskTable | 1 agent, 1 issue, 1 chat, 2 runtimes, 3 rows | `IssueSingleFlight`, `RetryLineage`, `OutcomeIsFinal`, refinement of `SingleFlight` |
| TaskQueue | 2 handlers, 2 chat tasks, 1 agent of capacity 1; reported and swept failures, drops, archives, lost and repeated deliveries | `StatusReconciled`, `SingleRetry`, `CapacityOvershoot`, the service uses the table only through its statements; `Settles`: every task ends, unless redelivered for ever |
| QueueSweep | 2 handlers, 3 rows, 2 agents on 1 issue, silent daemons | `NoStuckIssue` and `StatusReconciled` under all sweeps |
| EmptyClaim | 2 rows, 2 runtimes, 2 claims | `QueuedIsClaimable`, `VerdictSound` |
| EmptyClaimDelivers | 1 row, 2 runtimes, 1 claim, lost bumps, merges | `QueuedIsDelivered` |
| CronLease | 2 replicas, 2 plans, clock to 6, a latest_only and an every_plan job | `LeaseKept`, `EachAttemptOnce`, `OwnOutcome`, `LeaseEnds` |
| ClaimBarrier | 2 pollers, 2 slots, 2 task goroutines | `NothingInterrupted`, `SlotsConserved`, `CountersPaired`, `NoAddBesideWait`, `BarrierReleased`, `ShutdownEnds` |
| ClientCache | 4 kinds of entry, 2 changes by others (one of a single field), 1 mutation, 1 broken socket or workspace switch | `CacheConverges` |
| TabStore | 2 workspaces, 2 pages, 3 tabs, 4 persisted states | `PathInGroup`, `PinnedParked`, `HistoryHonest`, `RestartKeepsTabs` |
| DesktopDaemon | 2 users, 2 calls in flight, 2 user actions or faults | `CredentialsFollowUser`, `StatusConverges`, `DeferredRestartFires` |
| QueueOvertaken | 2 handlers, 1 row, no drops, no archive | `NoStaleWorking` violated |
| DaemonHandover | DesktopDaemon without any fault | `NoInheritedCredentials` violated |

The violated ones are disagreements of section 4.

`StatusReconciled` states exactly how far the derived status can be trusted. A status
stays wrong in three ways: the handler that owed the refresh was dropped, `ArchiveAgent`
cancelled the tasks, or a refresh wrote an outdated reading after another refresh of the
agent had written (`missed` records each at the step that does it). For every other
agent a wrong status has a handler on its way to refresh it, by reading the tasks or with
a reading that is right; and a refresh that nobody overtook ends the exception.
`NoStaleWorking` is the promise without the third exception, and fails.

Every property of a passing run has a mutant: a definition marked `mutant` in
the module changes one action the way a plausible bug would, and TLC then finds
the property violated.

### Bounds, and why they suffice

The constants marked "bounds the model" are the only bounds. Three rows are the
least for a retry beside a newly queued task of the same issue (`QueueSweep`, where two
agents share the issue); two are enough for a second retry to show, since `SingleRetry`
also counts the handlers about to insert one. `TaskQueue` has chat tasks because no
index keeps them apart: two claims that race do exceed a capacity of one, which two tasks
of one issue could not. What only issue tasks have, the index and the issue's status, is
in `TaskTable` and `QueueSweep`. Two handlers, claims or replicas give every pairwise
race, and a third repeats races between two, because handlers meet only in the rows.
Two plans of a job allow a tick to carry an old time from one plan into the next; the
clock of 6 leaves room for a lease to expire, be swept, retried and expire again. Two pollers and slots let one poller
claim while another is being handed its task. `ClientCache`: two changes and one mutation
give every order of an event, an answer and a response; one break suffices, as a
second one starts from a state the first already reaches. `TabStore`: `MaxTabs` is 3
(a foreign or unseen tab counts twice), `MaxExtra` 1 history entry beyond one per tab:
enough for three plain tabs, pinned or not, or a plain one beside a foreign one, and
for a step back and forth. An update also requires an id that no tab has: `createId`
never runs out of them, four ids with three tabs do not either.
`DesktopDaemon`: `MaxCalls` is 2 (a sync leaves room for the restart it fires,
`RoomToSync`; at most one poll is in flight), `MaxEvents` 2 logins, clicks, faults or
tasks beyond the session the program starts with. The theorems of section 5 have none
of these bounds.

### Fairness

*Settles*: handlers make progress (a request that dies is `Drop`) and the sweeper's
ticker fires for ever, so a row that stays in its status outlives its timeout and
is swept, with one exception. A runtime that polls reclaims a dispatched row every 90 s
and the reclaim refreshes `dispatched_at`, so the dispatch timeout of 300 s never passes
for a row that is delivered again and again: every response is lost, or
`MarkTaskWaitingLocalDirectory` failed and the daemon asks on. Such a row stays
dispatched for as long as this goes on. Hence neither the fairness of the sweep
(`SF(SweptWith(t)) \/ RedeliveredForEver(t)`) nor `Settles` claims anything of a row
that is redelivered for ever; of a row redelivered finitely often `Settles` says that it
ends. `FailStaleTasks` ignores waiting rows on purpose; a waiting daemon is
assumed to get its lock or restart. *QueuedIsDelivered*: a live runtime is polled,
claims end by their timeouts, TTLs pass; events that may go wrong each time
(a response, a cache miss, the agent having room) are assumed not to go wrong for
ever. *LeaseEnds*: tickers fire, handlers end by `RunTimeout`, the sweep does not
fail for ever. *ShutdownEnds*: goroutines run, an upgrade and a claim end by their
timeouts; a task need not end unless its context is cancelled, and the loop waits
30 s at most. *StatusConverges* and *DeferredRestartFires* (`DaemonFairness`): timers
fire, awaited calls return (each has a timeout in the code), the daemon leaves its
preflight and its tasks end; nothing is asked of the user, and faults are bounded.

## 4. Where the code and its comments disagree

* **DaemonHandover** (run). `App.tsx:274-276` says that a logout stops the daemon so
  that a later login as somebody else never inherits credentials. `clearToken`
  removes the sidecar with the previous user's id, so the next `syncToken` sees no
  change of user and restarts nothing. The stop that follows is refused while another
  guarded call runs, and the refusal is ignored; or it finds no daemon because the one
  being started has not bound its port. Then the first user's daemon goes on under
  the second user's session. `CredentialsFollowUser` is the part of the promise that
  holds.
* **QueueOvertaken** (run). `task.go:949-950`: the refresh after a claim "avoids a stale
  unconditional working write racing after a just-cancelled claim". `NoStaleWorking`: the
  claim's refresh has read `working`; a cancel ends the task and refreshes to `idle`; the
  claim's refresh then writes `working`, and an agent without a task shows it until its
  next task.

The following were found in the same way; each is the named definition, checked
in the configuration of the named run with the change given.

* `ChatSingleFlight` of `TaskTable` (TaskTable, two rows). `agent.sql:305` says chat
  tasks are serialised by `chat_session_id`. The claim checks this on a snapshot, and
  the unique index that closes the same gap for issues does not cover chats.
* `NoStuckIssue` (QueueSweep with `ReportsFailures = TRUE`). `task.go:1684-1686` says
  all callers, `FailTask` included, funnel through `HandleFailedTasks`. `FailTask`
  does not: an issue whose last task is reported failed stays `in_progress`.
* `StaleNeedsRepair` (CronLease with `JobSpecs <- OneNonReentrant`). `spec.go:144-147`
  says a stale lease of a job that must not be re-entered requires manual repair. The
  sweep leaves `next_retry_at` NULL, which the claim treats as due.
* `BarrierReleased` (ClaimBarrier with `RestartWorks = FALSE`). `daemon.go:1801-1803`
  asks that the barrier be released on every non-restart exit path. If
  `os.Executable` fails after a successful upgrade, the barrier stays up.
* `NoTabLeaks` (TabStore). `tab-store.ts:51-55` calls tabs of one workspace in another's
  group "impossible by construction". A link in content opens in the active group
  whatever its workspace (`desktop-layout.tsx:109`), and a callback of a hidden tab
  navigates it by the workspace active now (`navigation.tsx:107`).

Read in the code, without a property:

* `spec.go:154`: "Empty slice disables retry"; `retryDelay` returns 0 for it and the
  row is retried at once.

## 5. Proofs

A theorem holds for every value of the constants that satisfies the module's named
`ASSUME`s, which TLC evaluates on every run: sets of actors and rows are finite where
something is counted (`Handlers`, `Pollers`, `Tasks`, `Slots`, `OpIds` as `1..MaxCalls`),
and `None` is not one of the things it stands beside; persisted tab states have the
shape their version wrote (`SavedAssumption`). Where a theorem has a further
hypothesis it is part of its statement and named below. Every safety theorem has
the same shape: an invariant, `Init => Inv`, `Inv /\ [Next]_vars => Inv'` with one
lemma per action (or per effect several actions share), and `Inv => property`. The
invariants were checked by TLC as invariants of the runs before they were proved.

**TaskTableProofs.** `FlightInv` adds two facts to `IssueSingleFlight`:
`UniquePending` (the index holds for every pair of queued or dispatched rows) and
`LockSound` (a claim's locked row is still queued, and no row of its lane is
owned). `LockSound` is the argument: between the claim's snapshot and its write
nobody can make a row of the lane owned, since a row becomes owned only from
queued, and the lane's one queued row is the locked one. All but a few statements are shown to be
instances of `Move`, so that one lemma covers them. From `FlightInv` follow
`TableTypeCorrect`, `SingleFlightHolds`, `OutcomesFinal` and
`TableImplementsSingleFlight` (initial states and steps of the table map to those of
`SingleFlight`). `RetriesContinueFailures` proves `RetryLineage` with `LineageInv`:
a row with a parent keeps agent, issue and attempt of its creation, and its parent,
once failed, stays failed.

**TaskQueueProofs.** `QueueInv` joins the table's invariants with `HandlersOK`: what a
handler carries from one statement to the next stays true although others move on,
because it carries failed rows, which no statement touches again. From it:
`ServiceOnlyUsesStatements` (every step of the service is a step of the table or
leaves it alone, a refinement), hence `ServiceKeepsSingleFlight`; `RetriedAtMostOnce`
(every failed row was handed to exactly one handler, by the statement that failed
it: the half `RetryOwned` of `SingleRetry`); `CapacityBounded` (the owned rows of an agent plus the claims
beyond their count, with cardinalities of finite sets). `StatusNeverLost` is
`StatusReconciled` without any hypothesis: drops, archives and overlapping refreshes are
all in it. `StatusReconciled` is not inductive, since a refresh may end that carried an
outdated reading while it was not yet overtaken. `StatusInv` adds the missing fact: if
a handler not in `overtaken` holds a reading that is no longer right, then another
handler is still to refresh that agent, namely the one whose statement changed the
tasks. When that one writes, the first becomes overtaken; when the first writes before
it, it is still on its way. A step either leaves an agent's tasks and readings alone
(`Unaffected`) or is followed by its own refresh (`StatusMove`). `NoIssueStuck` is proved
under `SweptAndFinished` (failures come from the sweepers and no handler is dropped), the
values the run `QueueSweep` gives the switches: with reported failures it is false
(section 4).

**EmptyClaimProofs.** `NoStalledTask` and `TagsSound`, for `~MayLoseBump` and
`~MayMerge` (with either, the property is false and the TTL takes over:
`QueuedIsDelivered`). The invariant says that a verdict about to be written either
carries an outdated version or was taken when no notified task was queued.
`ClaimTypeCorrect` and `TagsNeverAhead` need neither hypothesis.

**CronLeaseProofs.** `LeaseNeverLost`, `AttemptsRunOnce`, `OutcomesOwned`,
`CronTypeCorrect`. The invariant orders the times: `now` of a tick <= clock <= next
heartbeat due of a punctual runner <= its `stale_after`; hence no comparison
`stale_after < now`, in the sweep or in a steal, can succeed against it.

**ClaimBarrierProofs.** `BarrierInv` says what each program counter holds: a claim in
flight, a slot, a place in `taskWG`; that the two counters are the numbers of those who
will decrement them; and that only the holder of `updating` moves the barrier.
`SelfUpdateInterruptsNothing` follows since the barrier is raised under `claimMu`
with both counters zero and no claim can be entered behind it; `ClaimsCounted`,
`NoSlotLost` and `WaitWithoutAdd` are parts of it. `BarrierGivenBack` assumes
`RestartWorks`; without it the code leaves the barrier up (section 4).

**ClientCacheProofs.** `EntriesConverge`. `CacheInv` says of every change an entry
lacks what will still bring it (`Deferred`, `Missing`, `AwaitsEvents`: a debounce timer, a
read that started late enough, a stale mark honoured on mount, an event on its
way, a reconnect, a mutation that has not settled) or that its loss is recorded in
`overlooked` (`Excused`); `FetchCovers` says what a read in flight is bound to show, `Wiring`
which timers and sockets belong to a live client.

**DesktopDaemonProofs.** `CredentialsFollow` and `DaemonTypeCorrect`. Calls are
programs, so the invariant lists where a call of each kind can stand (`Stands`), and
ties the guard to one call and the unbound processes to calls that wait for them.
`Accounts` is the argument, as long as nothing is `muddled`: a call that rewrites the
config is alone (`Exclusive`) and works for the signed-in user (`ForUser`); once its
write, or its sidecar, is behind it the token and the sidecar are that user's
(`ConfigRight`, `SidecarRight`, `OwnToken`); while nobody is signed in no call may
start a process (`SignedOut`); and a daemon with another user's token has a call about
to replace it (`Repairs`): a sync that found another user in the sidecar, the
restart it fired, or a logout. In a settled state no such call is left.

**TabStoreProofs.** `StoreInvariant`, and from it all five properties. `StoreInv` says of
every group that its tabs are typed, distinct and have the pinned ones first, and of
every tab what ties the four copies of its position together: `AtHome` (path and router
in the group's workspace, unless `stray`), `Trail` (stored history and router, if
`kept`) and, while React has the tab mounted, `Counted` (the refs of `useTabRouterSync`
and the stored history). `Counted` is why the invariant is needed: a push writes what
the refs count, so `HistoryHonest` alone is not inductive. The argument has three
layers. Array operations (`Filtered`, `RemoveAt`, `InsertAt`, append) keep `TabsGood`;
each store method maps a good store to a good store (`...Good`), in a context that names
the mounted workspace and, between the two steps of `OpenLink`, the one tab that is about
to be marked; `CommitGood` ends every action. `Filtered` has no recursion: `RankOnto` shows that
counting the kept positions numbers them, by cardinalities of finite sets. On the way each
method is shown `Steady`, not to take the visible pinned tab forward to another page:
`PinnedStays` (`PinnedParked`). `TabTypeSafe`, `PathsInGroup` and `HistoryTrue` are parts of `StoreInv`.
`RestartLosesNothing` is a fact about every good store: filtering an interval keeps a
segment (`FilteredSegment`), pinned tabs are a prefix, so merge rebuilds each group as it
was saved. In all of them the bounds `MaxTabs` and `MaxExtra` play no part; an action
needs only that some id is left to hand out.

Two attempts failed for a reason and changed the model. `StatusReconciled` was
not inductive with two agents: a batch between two iterations holds rows whose agents it
will refresh, which `WillReconcile` now says. `CacheConverges` was false with two
overlapping mutations of one's own: the rollback of the one puts the other's patch
back after the server refused it, and a later event's merge clears the mark that
would have refetched it; this is what `useUpdateIssue` does, and a named loss now
(`Wiped`).

Only model-checked. Liveness, out of the prover's reach: `Settles`, `QueuedIsDelivered`,
`LeaseEnds`, `ShutdownEnds`, `StatusConverges`, `DeferredRestartFires`.

## 6. Not modelled

Contents of tasks, messages and results; permissions; events to clients; Redis
failing altogether (then the cache is off and every poll goes to PostgreSQL);
isolation anomalies other than the two named ones (the claim's snapshot, the
overlapping refresh); clock skew between database and replicas in the scheduler
(it uses the database clock, except for `finished_at` when reading the clock
fails). In `TaskQueue` the rerun endpoint is its two parts, cancel and enqueue.

Some hazards are losses the code accepts: the property that names one excepts it and
shows that nothing else goes wrong beside it. Not caught, therefore, although modelled:

* the retry that is lost with a handler dropped after the terminal UPDATE (`Settles`
  and `StatusReconciled` follow the task and the agent, not the retry);
* a lease used up before its first heartbeat (`LeaseKept` is about runners `onTime`);
* a row redelivered for ever (`Settles`);
* tabs moved by a late callback or opened by a link (`stray`, excepted by `PathInGroup`;
  `NoTabLeaks` has no exception and fails, section 4), a hidden pinned tab moved by a late callback
  (`PinnedParked` is about the visible tab) and the history buttons of a tab whose
  router moved unseen (`kept`, excepted by `HistoryHonest`);
* an account change that overlaps another call (`muddled`, excepted by
  `CredentialsFollowUser`; `NoInheritedCredentials` has no exception and fails);
* "starting" shown for ever once the attempt's one token probe is spent, or with no
  attempt to time (`Agrees`);
* a daemon that is busy at every poll: `DeferredRestartFires` has finitely many tasks;
* events the client was never told of, and the losses `Doomed`, `Wiped`, `Unfounded`
  and `Undone` (`CacheConverges`).

`PROJECT.json` says so at each of these hazards. `BarrierReleased` passes only where
`os.Executable` works, `NoStuckIssue` only where failures come from the sweepers; section
4 has the rest.

In the clients: titles, icons and the search part of a path; overlays; the profile
resolution, log tail, preferences and quit hook of the daemon manager. In
`ClientCache` an event published while the client is not registered is one it was
never told of: events lost between `auth_ack` and the registration
(`hub.go:807`, `:839`), before the first connection of a new `WSClient`, and for the
keys a reconnect does not invalidate (chat messages and pending chat tasks, pins,
timelines not mounted) are seen only by a later event or read. Also left out:
`useReorderPins`, which has no `onSettled`, so that two overlapping failures leave a
rejected order (`packages/core/pins/mutations.ts:50-66`); `handleSend` in the chat
window, which writes the pending task after awaiting the request and may do so after
`chat:done`; and the debounce by prefix, which runs only the last handler it was
given.

Most of the TypeScript is not modelled at all, and cannot be with profit: about
165,000 lines, nearly all of them components that render what the cache holds, forms,
translations and one function per endpoint (`packages/core/api/client.ts`,
`packages/views`, `apps/web`, `apps/mobile`). They keep no state whose steps
interleave beyond what the three client modules cover, and a model of their layout
would only repeat it. The share of the lines that the definitions stand for is
therefore small, and is meant to be.

## 7. Plan

Done, in order of importance: task table, service, claim cache, cron leases,
claim barrier; then the clients' cache, the tab store and the daemon manager. Next:

1. `LocalPathLock`: mutual exclusion and no lost wake-up of `LocalPathLocker`,
   against an abstract lock; proof of mutual exclusion.
2. `DaemonTask`: `handleTask` against the table's statements with lost calls, the
   90 s reclaim and a failing `MarkTaskWaitingLocalDirectory`; composes
   `EmptyClaim`'s view with the runner.
3. `RuntimeLiveness`: heartbeat batches, Redis keys, offline sweep; a live runtime
   is not swept, tasks of a dead one are failed.
4. Lark: inbound deduplication and the connection lease hub; message batches.
5. Relayed runtime requests; workflow runs; autopilot triggers; webhook deduplication.
6. Clients: that every change is eventually told (`ClientCache` with the gaps named
   above closed one by one); the optimistic pin order; the pending chat task.
7. Proofs: every safety and action property a run checks has a theorem, liveness apart. Next is
   the refinement of an abstract store by `TabStore`: a bag of (workspace, page)
   tabs that only closing, validation and logout shrink.
