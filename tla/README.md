# a2a-bridge: a TLA+ model of its core

a2a-bridge accepts A2A requests over HTTP and runs them on agents that speak ACP (child
processes), an HTTP API or that live in containers. This directory holds TLA+ models of the
parts that carry its concurrent state, the TLC configurations that check them on small
instances, and proofs, checked by TLAPS, that some of the properties hold for every instance.

`PROJECT.json` maps each definition to the lines it models and lists runs, mutants, findings,
hazards and theorems. All paths below are relative to the repository.

## 1. Inventory

| component | where | state | operations | who calls it |
|---|---|---|---|---|
| Warm session manager | `crates/bridge-coordinator/src/session_manager.rs`, guard in `dispatch.rs` | one table behind an async mutex: live handles, tombstones, cleanup retries | checkout, checkout of an existing session, governed claim, cancel, release, clear, compact, inject, idle reap, cleanup settlement | inbound server, detached tasks; calls the agent's backend off the lock |
| Agent registry | `crates/bridge-registry/src/registry.rs` | a copy-on-write map id -> slot; per slot: lazy backend cell, keyed cells, lease count, epoch, flags | resolve, admitted resolve, bind, resolve bound, apply (reload), invalidate, invalidate bound, idle watch, drain | session manager, workflow executor |
| Coordinator turn loop | `bridge-coordinator/src/{lib,dispatch,events}.rs` | per turn: stream, cancel token | prompt, translate events, complete | inbound server |
| Detached tasks | `bridge-coordinator/src/detached.rs`, task operations of `coordinator.rs` | task rows, checkpoints and attempt summaries in the store; tokens and runners in memory | submit, run, commit, cancel, resume, boot reconciliation | inbound server, batches |
| Batches | `bridge-coordinator/src/batch.rs` | batch record, semaphore of permits, cancel token | submit, admit, cancel, resume | command line, inbound server |
| Task store | `bridge-core` ports, `bridge-store` | rows; every update conditional on the row's state | insert, compare-and-set transitions, leases, recovery scans | detached tasks, batches, executor |
| Workflow executor | `bridge-workflow/src/executor.rs`, `fanout.rs`, `scheduler_arbitration.rs`, `cancellation_settlement.rs` | node tables and tokens, the fan-out controller, a pending barrier, retained completions, deadlines | schedule, wait, arbitrate, cancel, trigger, publish, finish; run one node with retries and settlement | detached tasks, command line |
| Flights | `bridge-core/src/*flight*.rs` | one shared future with an owner and joiners | start, join, cancel, settle | backends, executor |
| Turn liveness and timers | `bridge-core` | idle and absolute deadlines | touch, expire | turn loop |
| Permission registry | `bridge-core/src/permission.rs` | pending requests by key with a token | register, resolve, cancel context, reap on drop | backends, session manager |
| Backends | `bridge-acp`, `bridge-api`, `bridge-container` | provider sessions | configure, reconcile, prompt, cancel, release, retire | session manager, executor, registry |
| Worktrees and custody | `bridge-worktree` | locks and records on disk | publish, take custody, sweep, restore | controller, executor |
| Servers, translation, CLI | `bridge-a2a-inbound`, `bridge-a2a-outbound`, `bin/a2a-bridge` | none of their own that matters here | routing, parsing, wiring | clients |

The complete list, with the reason for each part that is not modelled, is `components` in
`PROJECT.json`.

What is hard in this code:

- Session manager: every backend call runs between two holds of the table's mutex. What the
  first hold saw may be stale at the second. Session ids are `ctx-<context>-g<generation>` and
  a fresh handle starts again at generation 0, so an old teardown and a new session may share
  an id. Cancels and releases that arrive while a call owns the handle are deferred as a flag
  that the owner must honour on each of its exits. Producers of cancelled turns live on, with a
  token somebody must fire before the session is released. Request futures are dropped when a
  client disconnects.
- Registry: resolvers take no lock. Correctness rests on the order of sequentially consistent
  accesses (lease counted before the flags are read, claim published before the count is read),
  on `Notify` registrations placed between two reads of the count, and on who retires a
  backend whose spawn ended after the drain had looked.
- Detached tasks and batches: an outcome is committed in three transactions, with a crash, a
  cancellation or a failed call between any two; the admission loop uses records it read before
  it waited for a permit; readers settle a batch behind its back; boot acts on lists it read at
  its start.
- Scheduler: one loop waits on eight arms. Several are ready in one wake-up, the losers must
  not be lost, and a token may be cancelled from outside between any two of its readings, while
  the loop itself cancels the same token. A pending barrier holds completions back.
- Custody: crashes between two writes on disk, locks that are refused rather than awaited.

What makes each part correct: the session manager gives a context to one owner at a time and
never lets two uses of one backend session meet; the registry never retires a backend in use
and always asks one that is out of use to retire; the store-backed parts end each task exactly once
across crashes, under one runner at a time; a workflow run ends with one honest terminal for
each node; flights and settlements have one owner to the end; permissions answer the
request that is current.

## 2. Modules

| module | what it is |
|---|---|
| `WarmSession` | the session manager and the completion guard of a dispatched turn |
| `SessionSlot` | what the manager promises per context: a slot with one exclusive owner |
| `MCWarmSession` | instances for TLC |
| `WarmSessionProofs`, `WarmLifeProofs`, `WarmSlotProofs` | proofs about `WarmSession`: types, tables and claims; handles and their turns; owners and the refinement of `SessionSlot` |
| `Registry` | the registry for one agent id |
| `MCRegistry` | instances for TLC |
| `RegistryProofs` | proofs about `Registry` |
| `TaskStore` | the durable rows and what each transaction makes of them |
| `Detached` | runners, cancellation and boot of detached tasks; extends `TaskStore` |
| `Batch` | batches and the whole process with its crashes; extends `Detached` |
| `TaskLife` | what a client may rely on: the statuses of tasks and batches only move forward |
| `MCBatch` | instances for TLC |
| `BatchProofs`, `BatchLifeProofs`, `BatchCapProofs` | proofs about `Batch`: attempts and evidence; what clients read and what is left to settle; the two caps |
| `Scheduler` | the scheduling loop of one workflow run |
| `MCScheduler` | instances for TLC |
| `SchedulerProofs` | proofs about `Scheduler` |

### WarmSession

A step is one hold of the table's mutex together with the await before it, so the
interleavings are those the mutex allows. State:

- `handle[c]` is `SessionTable.live`: state, generation, fingerprint, current operation, the
  deferred expiry flag, the operations whose tokens it retains (`aborts`), the governed marker,
  the queued summary (`seed`, as the generation it opens) and injects, and whether its lease
  was retired. `tomb`, `retry` are the tombstones and the retry capabilities.
- `flights` and `cancels` are detached tasks: a cleanup awaiting `release_session_checked`, and
  a cancel awaiting `backend.cancel`.
- `call[p]` is a request future between two lock holds: its `pc` names the await it is at.
- `turn[o]` is the producer of operation `o` with its completion guard, or a governed claim;
  its intent is the three-valued atomic on which a failure observer and a successor race.

Fingerprints are functions from fields to values: which fields differ, and whether a field is
unset, is all the code looks at. Backend calls succeed or fail freely. The `pc` "teardown"
stands for the release of a session whose claim was refused or expired. An operation minted
for an idle handle names no turn and is `NoOp`.

The manager is the one `SessionManager::new` builds: without a permission registry. Parent and
child registrations and read-only listings are left out.

### SessionSlot

Per context a slot that is vacant, idle, owned, closing or failed and a generation. A closing
slot can only become vacant or failed; nobody owns it meanwhile; the generation grows by one
and only under an owner. `ImplementsSlot` is the refinement: `Expiring` tombstones and handles
are closing, claimed and running handles are owned.

### Registry

One agent id. Every sequentially consistent access of the resolve and bind paths, of the
watcher and of the drain is a step. An entry object, compared by address in the code, is its
slot and version. The acquisition epoch is only compared with the value the slot's one watcher
read, so it is a bit: bumped since then. The `OnceCell` of a slot is `cells[s][SharedCell]`; a
keyed cell is its key and the number of evictions the key has seen. Writers hold `write_lock`
from the publication of the new map (`Publish`) to the store of the retired flag
(`MarkRetired`); resolvers run between the two.

A bound use is resolved the way the executor does it; its holder may also call
`invalidate_bound` with it, and keeps its lease until it is dropped. The retirement issued by a resolver that lost a race (`RaceLoss`) takes
effect when it is issued. Asking a backend to retire (`retire_join_or_refuse`) retires it, or the
backend refuses (`resource_flight_v1`) or fails and stays up (`"refused"`); the callers discard
the answer and nobody asks for it again, as the refusal tests in `registry.rs` (from line 2504)
assert. The registry's duty is therefore to ask, and `OrphanFree` and `BackendsAsked` say that it
does; `HeldAlive` says that it does not ask while the backend is held. Several agent ids share only `write_lock`, so one id shows every
interleaving but the wait for another id's writer, which the fairness of `MarkRetired` covers.

### TaskStore, Detached, Batch

The store is SQLite: a call is one transaction and one step. A row is its status, whether its
terminal projection is still hidden (`terminal_projection_ready = 0`), the ordinal of the
attempt its locator names, whether that locator is marked as without telemetry, and the
checkpoint of the workflow's terminal node, the only one recovery decides on. `summary[t][a]` is
attempt `a` in the workflow history.

`Detached` adds the volatile state: `runners` (one record per live runner, its `pc` the
transaction it makes next), `tok` (`workflow_cancels`), `flips` (cancellations that have fired
the token and not yet flipped the row), `submitting`, and `boot`, the phase of the boot sequence
and what it still has to do. A runner writes the checkpoint, the hidden terminal row, the
evidence and the publication; a refused commit is tried once more as Failed; a runner that
unwinds leaves a finalizer nobody joins. The workflow itself is the step from "run" to "commit":
what it returns is chosen. `Scheduler` says which outcomes there are.

`Batch` adds `adm[b]`, the admission loop await by await (`permit`, `admit`, `claim`, `spawn`,
`created`, `check`, `finalize`, `select`, `rollup`), `btok` its token, `bfire` a `cancel_batch`
between its compare-and-set and the firing of the token, and `poll` a reader about to settle the
batch. `Crash` keeps the rows and loses everything else; boot then settles hidden rows, publishes
from checkpoints, ends active summaries, gives up orphans, resumes tasks under the cap and hands
each active batch to a new loop with its Working children to resume and its missing children to
create. Shutdown is a cancellation of each task and a crash.

Left out: attempt identities, which collide only if random UUIDs do; the contents of snapshots,
except that one may be unreadable; progress hubs and subscribers; a failing re-read of a status
just before a spawn. Further:

- The model boots as a server without a budget policy. With one, `main.rs:11785` skips recovery
  altogether and leaves every record as it was; nothing here is said of such a server.
- A submission or resumption whose structured reservation is invalid, collides or meets an
  unsupported history configuration ends as Interrupted without a runner (`coordinator.rs:2564`,
  `2571-2608`; `detached.rs:5782-5804`, `5854-5881`). The resumption's case is, but for the number
  of the attempt, the giving up of `BootSoloClaim`. The submission's writes with the
  unconditional `set_terminal` (`sqlite.rs:5018`), which would replace the Canceled of a client
  that canceled meanwhile; it depends on the installed history and not on the order of steps.
- The checkpoint reconciliation leaves alone rows whose snapshot it cannot decode or whose
  candidate chain is unfinished (`detached.rs:4746-4753`, `4786-4789`) and boot goes on; the model
  has rows it can decide.

`ImplementsLife` is the refinement: a client reads `public(t)`, which shows a hidden terminal
row as Working, and the batch's status.

### Scheduler

The loop is one task: a step ends where it awaits, or where a cancellation from outside, seen or
not, makes a difference. `st[n]` is where a node is: idle, running or skipping (in `inflight`),
ready, processed, retained while a barrier is pending, done. `result[n]` is what it returned and
later its terminal. `ctl` is the fan-out controller with the grace timer, `bar` the pending
barrier, its acknowledgement and the evidence held back for the trigger's node. `cause` and
`root` are the bookkeeping of who canceled what; `external`, which no code reads, records
whether anybody outside did. The clock is before the cutoff or has reached it, the grace is set
or due: `<=` and `>` at the cutoff are the choice of which nodes of a batch are `late`.

`Top`, the select (`WakeCompletion`, `WakeControl`), the arm taken (`ActDrain` .. `ActWait`), one
`ProcessNode` per completion, `Finalize`, `Publish` are one turn of the loop, `Finish` what
follows it. An arm that is ready for certain before the wait keeps later arms from being
selected. Every exit of the loop with `InvalidStateTransition` leads to `pc = "broken"`.

Left out: `run_node` (retries, accounting, the settlement of one canceled node), which is the
choice of a result; candidate publication and the harvest audit; resume seeds (a run whose
trigger was committed is not resumable, so a run starts without a trigger); a consumer that
drops the stream. A timed-out node counts as Failed, which is how the controller treats it.

## 3. Runs

Distinct states are those TLC reports; symmetry permutes callers and is used only for safety.

| run | question | bounds |
|---|---|---|
| `warm_core` | Do the ordinary operations, with checkout and clear futures dropped at any await, keep the table sound, claims exact, deferred expiries alive, successors safe, backend calls apart, and the slot implemented? | one context, two calls, four operations, two requests |
| `warm_governed` | Does everything that is not free have an owner, does a governed claim own its handle from claim to settlement, is each live producer reachable? | one context, two calls, three operations |
| `warm_live` | Does every claim, cleanup and deferred expiry settle, and does a summary reach a turn? | one call, two operations: a governed one then a reconciling checkout, or a fresh checkout |
| `reg_idle` | Resolves and binds against the idle watcher, with dropped futures (2.3 M states) | two tasks, two slots, one key |
| `reg_bound` | Bound uses against edits and evictions (215 k) | three tasks, two slots, one edit and one eviction per slot |
| `reg_live` | Are backends asked to retire and resolves answered across reloads, even if leases leak? (168 k) | two tasks, two slots, no keys (no bound uses), grace deadline |
| `reg_idle_live` | Does an unused slot go away and does the drain miss no wakeup? (32 k) | two tasks, two slots, no deadline |
| `batch_core` | Through cancellations, panics, a failing call and a crash at any step: does each task end once, under one runner, with its evidence, within the permits, and is nothing left behind? (1.3 M) | a batch of two items or a task of its own; one crash, one fault, one permit, concurrency 2, cap 1 |
| `batch_live` | Does the admission loop never wedge, and does a fired token stop the batch? | two crashes, no fault, one permit, concurrency 2, readers that settle |
| `batch_cancel` | finding 1 | concurrency 1, one crash |
| `sched_core` | Does a run end with every node accounted for, every cancellation with its true cause and effect, nothing started late? (390 k) | four nodes: two sources, a chain behind the first, a terminal that joins both branches; one checkout; legacy, manual and automatic activation, with the policies and both syntheses |
| `sched_evidence` | finding 2 | as `sched_core` |

Why the bounds are enough to be interesting: contexts do not interact except through the one
mutex, so one context is the general case; two calls are enough for every race of a claim with
one rival, because a third call is refused by the state the first leaves, while cancels,
releases and reaps need no call slot and race freely; three or four operations allow a turn,
a successor and a late completion of the first. In the registry two slots are a swap and its
aftermath; two tasks are the initializer and a rival (three in `reg_bound`).

Tasks of their own take no permits and meet batches only in the store and in boot, whose phases
handle one row at a time, so `batch_core` is constrained to behaviours with one kind (`Apart`). One permit and
concurrency 2 make a batch wait for itself; the concurrency therefore never binds in these runs,
and that it is kept rests on `CapsAreKept`. `batch_core` has no readers that settle: they are in
`batch_live`, and the theorems about `RestSettles` and `ImplementsLife` include them. `MaxCrash`, `MaxFault` and `Cap` bound crashes,
failing calls and resumed attempts; the last is the code's own cap, at its smallest value that
still lets a task be resumed and then given up.

In the scheduler two nodes run at the same time, so that one can trigger, complete or be late
while the other runs, a third becomes ready from a publication, and the fourth inherits a failure
or a degradation through one or two steps. `Outcomes` has every result of a node; the owner may
cancel at any step, before the start too.

Deadlock is not checked: callers may stop coming, and bounded counters end every behaviour.

### Fairness

`WarmSession`: weak fairness for each call between its awaits, for completions, governed
claims and flights: the backend answers, and a spawned task is polled. A turn ends on its own
only when its token fired; nothing is assumed of callers, operators or a prompt that runs.
`Registry`: weak fairness for tasks, watchers, drains and the writer's second half. Strong
fairness for taking the cell, because the cell's semaphore queues waiters in order; and for
dropping a lease, only in the runs without the grace deadline: a bound use whose spawns fail is
dropped by its executor, not retried for ever. With the deadline nothing is assumed of holders.
`Batch`: weak fairness for a runner that has to commit, for a runner whose token fired, for the
admission loop, for started cancellations and readers, and for boot. A workflow nobody canceled
may run for ever; `NeverWedged` therefore asks for a workflow at work, not for the batch's end.
`Scheduler`: weak fairness for the loop's own steps, for an arm that stays ready, for the clock,
and for the return of nodes whose token was cancelled or that are skipped. A node nobody canceled
may run for ever: with the scheduler active the cutoff ends the run all the same.

## 4. Findings

1. `batch_cancel`: `cancel_batch` is said to settle the batch as canceled. After a crash the
   Working children of a batch are queued for resumption. If the batch is canceled while some of
   them wait for a permit, the loop stops admitting and leaves without them: the rows stay
   Working, nobody runs them, and the batch stays Canceling until the next boot.
2. `sched_evidence`: the trigger is said to be attached to the `NodeFinished` of the node that
   triggered the policy. If a sibling completes in the wake-up in which the barrier answers, the
   completion is handled first, the barrier is no longer pending, and the loop publishes the
   retained node without terminal, trigger and barrier result; its evidence is put back one
   round too late. A detached runner then checkpoints that node as one without a terminal,
   beside the checkpoint the barrier wrote.

Found with other settings of the same modules, each by changing constants of a configuration:

- `TokenReachable` fails with compactions (`WarmGoverned` with operations checkout, existing,
  cancel and compact, three operations). `fire_lingering_turn_abort` says every path that
  releases the session must fire the retained tokens first; `compact_session_prepared` releases
  the old session without doing so, and its own comment defers this.
- `HasOwner` fails with `Droppable = {"checkout"}`: a client that disconnects during
  `configure_session` leaves the handle `Configuring` with no owner, although the settlement is
  said to run always. The server guards compact, and only compact, against this.
- `HeldAlive` fails in `RegBound` with operations resolve and apply: a resolver that finds its
  slot retired asks the shared backend to retire at once, under another resolver's lease, although
  ADR 0005 says that retirement waits for the leases to drain.
- `BackendsAsked` fails in `RegIdleLive` with operations bind and evict and one eviction
  (`MaxRekey = 1`): the drain of an evicted
  keyed backend waits for the count of the whole slot, which uses that all end can keep above
  zero for ever; only the force deadline, meant for leaked leases, ends it.
- `OrphanFree` fails in `RegIdle` when `await_writer` is droppable: a resolver that initialized
  the cell after the drain had looked, and is dropped while it waits for a contended
  `write_lock`, leaves a backend nobody asks to retire.
- A backend that refuses retirement, or fails in it, is logged and left running out of the map:
  no drain, resolver or timer asks it again.
- A bound use may spawn into a slot whose forced drain is over, so the runs with bound uses have
  no deadline.
- Under fixed grace a completion past the cutoff that shares its wake-up with the barrier's
  answer is reported as canceled by itself (`CanceledNode`): the answer wins the arbitration,
  and the cutoff that made it late has not yet been recorded as the cause.
- The wait arm of the scheduler reads the clock after the warning arm did. When it wins on the
  boundary it takes the cleanup deadline with it, and only a later cancellation arms one again.

## 5. Proofs

The theorems hold for every value of the constants that satisfies the assumptions of the modules:

- `ConstantsAssumption` (`WarmSession`), `RegistryAssumption` (`Registry`).
- `StoreAssumption`, `DetachedAssumption`, `BatchAssumption`: the tasks and batches of one
  behaviour are finitely many, a batch has items, no two share one, no item is also submitted on
  its own (ids are fresh UUIDs), `NoTask` names no task, the two caps are positive.
- `GraphAssumption` (`Scheduler`): the graph is finite and acyclic with one sink, which is what
  the workflow's validation accepts.

### Warm sessions

- `TypeCorrect` (`WarmSessionProofs`): `Spec => []TypeOK`. `TypeOK` is inductive as it stands.
  One lemma per action; the helper lemmas say what `TakeClaim`, `MintTurn`,
  `fire_lingering_turn_abort` and `reserve_successor` return.
- `TablesSound`, `FlightsExact` (`WarmSessionProofs`): `Spec => [](TableExclusive /\ TombstoneOwned)`. Neither is
  inductive: a completion may expire a handle only if the handle is live, and for governed
  handles this follows from the marker. The strengthening adds that a handle with a governed
  marker is running. With it each step either leaves the maps of a context alone, moves its
  handle to a tombstone with a new flight, settles its flight, or retries it; and one lemma
  shows that each of these shapes preserves the conjunction.
- `ClaimsExact` (`WarmSessionProofs`): `Spec => []ClaimExact`, from
  `ClaimInv == TableInv /\ ClaimExact`. Every step is, for the claims, a bystander, or takes a
  claim on a handle in no claimed state (which, by `ClaimExact` itself, nobody has claimed), or
  lets one call go on with or end its own claim, or starts or ends a cancel flight. `TableInv`
  is needed for the steps of turns: a governed completion touches a running handle only.
- `DeferralsKept`, `SuccessorsSafe`, `GovernedClaimsExact`, `BackendSerialized`, `TokensReachable`
  (`WarmLifeProofs`): from `ClaimInv /\ LifeInv`. None is inductive, since they are about pairs of
  pieces of state that different actors write: a handle, and the turns that ran, run or will run
  it. `LifeInv` says what every handle owes to the turns (`HandleFit`: its operation and its tokens
  are minted, a free one remembers nothing, an idle one names no operation, the runner is a turn of
  its own generation, the other retained operations are reserved once there is a successor) and
  what every turn owes to its handle (`TurnFit`: an operation not minted yet has not started, a
  governed claim holds its handle, which has not retained it yet). A lock hold edits one handle and
  the turns of its context (`Frame`); the edit lemmas (`UngovernedEdit`, `SteadyEdit`, `GoneEdit`,
  `MoveLife`, `MintLife`, `GovernedClaimLife`) reduce each action to the facts it must establish.
- `TokensReachable` assumes `"compact" \notin Operations`, as the code does not promise more: a
  compaction releases the old session without firing the tokens retained on it (section 4).
  The run that checks the property, `WarmGoverned`, is an instance.
- `OwnersKnown` (`WarmSlotProofs`): from `OwnInv` on top. What a call remembers over its awaits
  agrees with the handle it claimed (`KeyFit`: the operation of a configure, the generation or its
  successor of a clear and a compaction), and a claimed handle has its call or flight (`Tended`).
  It assumes `Droppable = {}`; with dropped futures it is false (section 4).
- `SummariesKept` and `FollowsSlot` (`WarmSlotProofs`): the action property and the refinement of
  `SessionSlot`, for all operations and dropped futures. The strengthening is small
  (`TombsEmpty`: no tombstone, no generation of one), but both need nearly all of the layers
  below: that a slot is never opened beside a tombstone (`TableExclusive`), that a vacant one has
  generation 0 (`VacantEmpty`), that a settlement finds its own handle (`ClaimExact`) and renews it
  by one generation (`KeyFit`), that a minted or governed operation was not retained before
  (`Minted`, `ClaimFit`). Every lock hold edits one handle, swaps it for a tombstone or moves a
  tombstone (`Visible`), and each of these is a step of the slot.

### Registry

- `RegistryTypeCorrect`, `LeasesExact`, `IdleClaimExclusive`: from the first layer
  `RegistryInv == TypeOK /\ Captured /\ CountExact /\ IdlePc /\ IdleExclusive`. `CountExact` is
  needed for types: a count that is not exact could go below zero. `Captured` says that a task
  past the load refers to a real slot, and `IdlePc` when the claim flag may be up. Each step of a
  task is shown to keep, take or drop exactly one lease, each step of a writer, watcher or drain
  to change none; the cardinality argument is then made once for the three cases. Exclusion is
  Dekker's argument: the claim is published before the count is read, the lease counted before
  the claim is read.
- `AdmittedIsExact`, `NoOrphans`, `HeldIsAlive`: from the second layer. `CellInv` relates tasks,
  cells and drains: what a task's place says of its cell, one initializer per cell, a drain for
  exactly the retired slots and the evicted cells, and a watcher between claim and swap holds
  `write_lock` on the mapped slot. `UseInv` adds who may use what: a drain that has stopped
  waiting has no user left (the count was zero, and a use that is granted later looks at the
  retired flag first), a backend out of use that was not asked is owed its request, one that was asked has no user,
  whatever it answered. A task's
  step is one of nine shifts of its own record and cell; a step outside the tasks renews a slot,
  evicts a cell, retires a slot or moves a drain.

`NoOrphans` and `HeldIsAlive` have hypotheses on the constants, because the code does not promise
more. A resolver dropped while it waits for `write_lock` takes with it the knowledge that its
backend landed late; a force deadline asks whatever the slot holds to retire while a bound use may still
be spawning, and under whoever holds a use; and a resolver that lost the race against a reload
asks the shared backend to retire at once, also under a bound use of the same slot. The runs that check
the two properties, `RegBound` and `RegIdle`, are instances of these hypotheses, and their union
covers both forms of the second one.

### Detached tasks and batches

- `BatchTypeCorrect`, `AttemptsExclude`, `EvidenceFirst` (`BatchProofs`): from
  `Inv == TypeOK /\ RowInv /\ RunnerInv /\ BootInv /\ LoopInv /\ RoleInv`. Exclusion is not inductive: a
  runner is added by a submission, by boot or by a loop, in a step that does not look whether
  there is one already. `RoleInv` says what a task looks like while somebody is about to start or
  resume it, and that nobody runs it; `BootInv` and `LoopInv` say that these holders exclude each
  other, across a crash too. `RowInv` relates a row to its history. A step concerns one task at
  most, so the invariant is shown for that task from the step's effect.
- `HiddenRowsOwned`, `RestIsSettleable`, `FollowsTaskLife` (`BatchLifeProofs`): from `LifeInv` on
  top of `Inv`. It says that a hidden row has a runner on the way to publish it, what a token, a
  drain flag or a status read earlier implies of the batch's row now, and that an unsettled item
  of a Working batch is run by somebody or still with the loop. The first two are about
  behaviours in which no call has failed (`faults = 0`): after a failed store call the code logs
  and leaves the row to the next boot. `FollowsTaskLife` has no such condition: it is the
  refinement of `TaskLife`, initial states and every step.
- `CapsAreKept` (`BatchCapProofs`): from `CapInv` on top of `Inv`. The counts the code keeps are
  those of children in flight and of permits; that they bound what executes needs `RunCovered`:
  an item that executes is in flight in its loop. Moving an item from the admitting loop to the
  children leaves the sum of the two, the permits held, as it is.

### Scheduler

- `SchedulerTypeCorrect`, `RunsEndAccounted`, `CancellationIsExact`, `NothingStartsLate`
  (`SchedulerProofs`): from a conjunction of named parts, for every acyclic graph. `NodeInv`: a node's place
  determines what its result can be, and it is past idle exactly when its inputs are published,
  until scheduling stops. `PhaseInv`: nothing waits where the loop would not look again, so no
  exit with `InvalidStateTransition` is reached. `ControlInv`, `StopInv`: controller, barrier,
  timer and the reasons to stop agree. `RootInv`, `ReachInv`: whom a cancellation is blamed on and
  whom it has reached. `HealthInv`, `EvidenceInv`: what is reported. `RunsEndAccounted` promises
  evidence for every node but the one that triggered the policy: for that one finding 2 is a
  counterexample. The rank of the graph is used
  once: a run whose nodes in flight are done and that was not stopped has no idle node, for a
  lowest one would have had its inputs.

### Only model-checked

Liveness and everything under fairness (`ClaimsSettle`, `CleanupSettles` and the like), which the
prover cannot do. `OrphanFree`, `HeldAlive`, `TokenReachable` and `HasOwner` outside the hypotheses
above do not hold. Every other property of the passing runs is the property of a theorem.

## 6. Plan

Parts to model next: `run_node` with the settlement of a canceled node; flights and the
turn's deadlines; the permission registry and its composition with `WarmSession`; worktree
custody locks with a crash between steps; the controller's merge transaction.

## 7. Not modelled

Wire formats, SQL, file-system walks, processes and signals, HTTP, logging, metrics and
configuration are data or operating-system effects with no state of their own that the
properties distinguish. Backends appear as calls that succeed or fail at some later time, and that may refuse to retire. Time
is the nondeterministic passing of a deadline.
