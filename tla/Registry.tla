------------------------------ MODULE Registry ------------------------------
(***************************************************************************)
(* The agent registry of bridge-registry (registry.rs), for one agent id.  *)
(*                                                                         *)
(* The registry maps the id to a slot.  A slot spawns its backend lazily   *)
(* in a cell, counts leases on it and is retired, never reused, when a     *)
(* reload, an invalidation or the idle watcher swaps it out.  Resolvers    *)
(* take no lock: they load the mapped slot, take a lease and look at the   *)
(* slot's flags, each a sequentially consistent access and a step of its   *)
(* own here.  Writers hold write_lock.                                     *)
(*                                                                         *)
(* Entry objects are compared by address in the code: an object is the     *)
(* pair of its slot and its version in that slot.  The acquisition epoch   *)
(* is only ever compared with the value the slot's one watcher read, so it *)
(* is the bit "bumped since the watcher read it".                          *)
(***************************************************************************)
EXTENDS Naturals, FiniteSets

CONSTANTS
    Caller,         \* tasks that resolve or bind the agent
    Key,            \* digests of frozen provider effects
    Shared,         \* the name of a slot's shared cell
    Scopes,         \* subset of BOOLEAN: may bound uses of a slot be keyed
    Operations,     \* "resolve", "admitted", "bind", "apply", "edit", "invalidate",
                    \* "evict" (invalidate_bound), "idle"
    GraceExpires,   \* may the force deadline of a drain pass
    Droppable,      \* the awaits at which a resolving future may be dropped
    MaxSlot,        \* bound: slot instances
    MaxVersion,     \* bound: config-only edits of one slot
    MaxRekey        \* bound: evictions of one keyed cell

Slot == 1..MaxSlot
NoSlot == 0
CellId == (Key \cup {Shared}) \X (0..MaxRekey)
SharedCell == <<Shared, 0>>
NoEntry == <<NoSlot, 0>>

ASSUME RegistryAssumption ==
    /\ Shared \notin Key
    /\ Scopes \subseteq BOOLEAN /\ Scopes # {}
    /\ GraceExpires \in BOOLEAN
    /\ Droppable \subseteq {"cell", "spawn", "await_writer"}
    /\ IsFiniteSet(Caller)
    /\ MaxSlot \in Nat \ {0} /\ MaxVersion \in Nat /\ MaxRekey \in Nat

VARIABLES
    mapped,     \* State.slots[id], or NoSlot
    used,       \* slots created so far
    writer,     \* the slot the holder of write_lock is swapping out, or NoSlot
    slot,       \* the slots' fields
    cells,      \* the slots' cells: OnceCell and the backend in it
    watch,      \* idle watchers
    drain,      \* detached retirement tasks, by slot and cell (SharedCell: the whole slot)
    caller      \* resolving, binding and lease-holding tasks

vars == <<mapped, used, writer, slot, cells, watch, drain, caller>>

SlotRecord ==
    [version: Nat, keyed: BOOLEAN, retired: BOOLEAN, leases: Nat, stale: BOOLEAN,
     idle: BOOLEAN, rekeyed: [Key -> 0..MaxRekey]]
CellState == {"empty", "spawning", "live", "refused", "retired"}
WatchPc == {"off", "start", "leases", "parked", "clock", "lock", "claim_leases",
            "claim_epoch", "swap", "retire", "ended"}
DrainPc == {"off", "check", "register", "parked", "retire", "retire_keyed", "ended"}
CallerPc == {"ready", "load", "cell", "spawn", "count", "bump", "check_idle",
             "check_retired", "revalidate", "await_writer", "retire", "bound", "held"}
CallerRecord ==
    [pc: CallerPc, bind: BOOLEAN, slot: Nat, version: Nat, cell: CellId, init: BOOLEAN,
     want: Nat \X Nat]

Idle == [pc |-> "ready", bind |-> FALSE, slot |-> NoSlot, version |-> 0, cell |-> SharedCell,
         init |-> FALSE, want |-> NoEntry]
NewSlot(keyed) == [version |-> 0, keyed |-> keyed, retired |-> FALSE, leases |-> 0,
                   stale |-> FALSE, idle |-> FALSE, rekeyed |-> [k \in Key |-> 0]]

-----------------------------------------------------------------------------
(* Leases *)

\* Notify::notify_waiters: wake the idle watcher and the drains registered on a slot.
Woken(w) == IF w.pc \in {"leases", "clock", "parked"} THEN [w EXCEPT !.woken = TRUE] ELSE w
notify_waiters(s) ==
    /\ watch' = [watch EXCEPT ![s] = Woken(@)]
    /\ drain' = [drain EXCEPT ![s] = [x \in CellId |-> Woken(@[x])]]

goto(p, pc) == caller' = [caller EXCEPT ![p].pc = pc]

\* Fault: a dropped lease is not counted down.
release_leaks(p) == notify_waiters(caller[p].slot) /\ UNCHANGED slot

\* Drop for LeaseGuard: the count goes down, then the waiters are notified.
release(p) ==
    /\ slot' = [slot EXCEPT ![caller[p].slot].leases = @ - 1]
    /\ notify_waiters(caller[p].slot)

\* Fault: the lease is not counted.
AcquireCount_uncounted(p) ==
    /\ caller[p].pc = "count"
    /\ goto(p, "bump")
    /\ UNCHANGED <<mapped, used, writer, slot, cells, watch, drain>>

\* LeaseGuard::acquire: count the lease, then bump the epoch.
AcquireCount(p) ==
    /\ caller[p].pc = "count"
    /\ slot' = [slot EXCEPT ![caller[p].slot].leases = @ + 1]
    /\ goto(p, "bump")
    /\ UNCHANGED <<mapped, used, writer, cells, watch, drain>>

AcquireBump(p) ==
    /\ caller[p].pc = "bump"
    /\ slot' = [slot EXCEPT ![caller[p].slot].stale = TRUE]
    /\ goto(p, "check_idle")
    /\ UNCHANGED <<mapped, used, writer, cells, watch, drain>>

-----------------------------------------------------------------------------
(* resolve, resolve_admitted, bind_entry_use *)

\* A task starts: want is the entry object it was admitted with, if any.
Start(p) ==
    /\ caller[p].pc = "ready"
    /\ \/ /\ "resolve" \in Operations
          /\ caller' = [caller EXCEPT ![p].pc = "load"]
       \/ /\ "admitted" \in Operations /\ mapped # NoSlot
          /\ caller' = [caller EXCEPT ![p].pc = "load",
                                      ![p].want = <<mapped, slot[mapped].version>>]
       \/ /\ "bind" \in Operations
          /\ caller' = [caller EXCEPT ![p].pc = "load", ![p].bind = TRUE]
    /\ UNCHANGED <<mapped, used, writer, slot, cells, watch, drain>>

\* Fault: an admitted resolution takes whatever entry the agent has by now.
admitted_matches_any(k) == TRUE

\* The admitted entry object must still be the mapped slot's entry.
admitted_matches(k) == k.want \in {NoEntry, <<mapped, slot[mapped].version>>}

\* The top of both loops: capture the mapped slot, or report an unknown agent.  A resolve
\* also captures the entry to spawn from.
Load(p) ==
    LET k == caller[p] IN
    /\ k.pc = "load"
    /\ caller' = [caller EXCEPT ![p] =
          IF mapped = NoSlot \/ ~admitted_matches(k) THEN Idle
          ELSE [@ EXCEPT !.slot = mapped, !.pc = IF k.bind THEN "count" ELSE "cell"]]
    /\ UNCHANGED <<mapped, used, writer, slot, cells, watch, drain>>

\* start_idle_watch, as the watcher table it leaves.
start_idle_watch(s) ==
    IF "idle" \in Operations /\ watch[s].pc = "off" /\ ~slot[s].retired
    THEN [watch EXCEPT ![s].pc = "start"] ELSE watch

\* OnceCell::get_or_try_init: take the backend, or become the one initializer, or wait.
GetOrInit(p) ==
    LET k == caller[p]  x == cells[k.slot][k.cell] IN
    /\ k.pc = "cell" /\ x # "spawning"
    /\ IF x = "empty"
       THEN /\ cells' = [cells EXCEPT ![k.slot][k.cell] = "spawning"]
            /\ goto(p, "spawn")
       ELSE /\ goto(p, IF k.bind THEN "held" ELSE "count")
            /\ UNCHANGED cells
    /\ watch' = IF k.bind /\ x # "empty" THEN start_idle_watch(k.slot) ELSE watch
    /\ UNCHANGED <<mapped, used, writer, slot, drain>>

\* The spawn returned.  A failed one leaves the cell empty; a bound use keeps its lease.
Spawned(p, ok) ==
    LET k == caller[p] IN
    /\ k.pc = "spawn"
    /\ cells' = [cells EXCEPT ![k.slot][k.cell] = IF ok THEN "live" ELSE "empty"]
    /\ caller' = [caller EXCEPT ![p] =
          IF ok THEN [@ EXCEPT !.init = ~k.bind, !.pc = IF k.bind THEN "held" ELSE "count"]
          ELSE IF k.bind THEN [@ EXCEPT !.pc = "bound"] ELSE Idle]
    /\ watch' = IF ok /\ k.bind THEN start_idle_watch(k.slot) ELSE watch
    /\ UNCHANGED <<mapped, used, writer, slot, drain>>

\* Fault: a lease taker does not look at the watcher's claim.
sees_claim_blind(k) == FALSE

sees_claim(k) == slot[k.slot].idle

\* Back to the top of the loop, with nothing captured.
again(p) == caller' = [caller EXCEPT ![p] = [Idle EXCEPT !.pc = "load", !.bind = caller[p].bind,
                                                         !.want = caller[p].want]]

\* With the lease counted, look at the idle watcher's claim and back off if there is one.
CheckIdle(p) ==
    LET k == caller[p] IN
    /\ k.pc = "check_idle"
    /\ IF sees_claim(k)
       THEN release(p) /\ IF k.bind THEN again(p) ELSE goto(p, "await_writer")
       ELSE goto(p, "check_retired") /\ UNCHANGED <<slot, watch, drain>>
    /\ UNCHANGED <<mapped, used, writer, cells>>

\* ... and at the retired flag.  A resolve is done here; a bind goes on.
CheckRetired(p) ==
    LET k == caller[p]  s == k.slot IN
    /\ k.pc = "check_retired"
    /\ IF slot[s].retired
       THEN release(p) /\ IF k.bind THEN again(p) ELSE goto(p, "retire")
       ELSE /\ goto(p, IF k.bind THEN "revalidate" ELSE "held")
            /\ watch' = IF k.bind THEN watch ELSE start_idle_watch(s)
            /\ UNCHANGED <<slot, drain>>
    /\ UNCHANGED <<mapped, used, writer, cells>>

\* Fault: a resolver that backed off leaves a backend it spawned too late to the drain.
late_spawn_ignored(k) == FALSE

\* A backend this resolver spawned may have landed after the drain looked at the cell.
late_spawn(k) == slot[k.slot].retired /\ k.init

\* retire_join_or_refuse on the backends of the cells X of a slot.  A backend may refuse (its
\* resource flight) or fail to retire; every caller discards the result, so a refused backend
\* runs on and is asked again only by a caller of its own.  retire() is idempotent.
retire_join_or_refuse(s, X) ==
    \E refusing \in SUBSET X :
        cells' = [cells EXCEPT ![s] =
                     [x \in CellId |-> IF x \notin X \/ @[x] \notin {"live", "refused"} THEN @[x]
                                       ELSE IF x \in refusing THEN "refused" ELSE "retired"]]

\* The idle watcher's verdict is final once write_lock is free.
AwaitWriter(p) ==
    LET k == caller[p] IN
    /\ k.pc = "await_writer" /\ writer = NoSlot
    /\ IF late_spawn(k) THEN retire_join_or_refuse(k.slot, {k.cell}) ELSE UNCHANGED cells
    /\ again(p)
    /\ UNCHANGED <<mapped, used, writer, slot, watch, drain>>

\* Fault: the loser of the race leaves the backend to the drain.
RaceLoss_skips(p) ==
    /\ caller[p].pc = "retire"
    /\ again(p)
    /\ UNCHANGED <<mapped, used, writer, slot, cells, watch, drain>>

\* The race-loss path of resolve: have the backend retire at once and try again.
RaceLoss(p) ==
    /\ caller[p].pc = "retire"
    /\ retire_join_or_refuse(caller[p].slot, {caller[p].cell})
    /\ again(p)
    /\ UNCHANGED <<mapped, used, writer, slot, watch, drain>>

\* bind_entry_use captures the entry object and revalidates the captured slot: still mapped
\* and still not retired.
Revalidate(p) ==
    LET k == caller[p]  s == k.slot IN
    /\ k.pc = "revalidate"
    /\ IF mapped = s /\ ~slot[s].retired
       THEN /\ caller' = [caller EXCEPT ![p].pc = "bound", ![p].version = slot[s].version]
            /\ UNCHANGED <<slot, watch, drain>>
       ELSE release(p) /\ again(p)
    /\ UNCHANGED <<mapped, used, writer, cells>>

\* resolve_bound: the cell of the frozen effect's key, or the shared cell.  The slot is the
\* bound one, retired or not.
ResolveBound(p) ==
    LET k == caller[p]  s == k.slot IN
    /\ k.pc = "bound"
    /\ \E key \in Key :
          caller' = [caller EXCEPT ![p].pc = "cell",
                        ![p].cell = IF slot[s].keyed THEN <<key, slot[s].rekeyed[key]>>
                                    ELSE SharedCell]
    /\ UNCHANGED <<mapped, used, writer, slot, cells, watch, drain>>

\* The holder is done: the Resolved or the BoundEntryUse is dropped, and its lease with it.
Done(p) ==
    /\ caller[p].pc \in {"bound", "held"}
    /\ release(p)
    /\ caller' = [caller EXCEPT ![p] = Idle]
    /\ UNCHANGED <<mapped, used, writer, cells>>

\* A resolving future dropped at an await: waiting for the cell, spawning (the cell stays
\* uninitialized) or waiting for write_lock.
DropFuture(p) ==
    LET k == caller[p] IN
    /\ k.pc \in Droppable /\ ~k.bind
    /\ cells' = IF k.pc = "spawn" THEN [cells EXCEPT ![k.slot][k.cell] = "empty"] ELSE cells
    /\ caller' = [caller EXCEPT ![p] = Idle]
    /\ UNCHANGED <<mapped, used, writer, slot, watch, drain>>

-----------------------------------------------------------------------------
(* Writers *)

\* Fault: a removed agent's slot stays in the map.
Publish_keeps(next, keyed) ==
    /\ next = NoSlot \/ (next = used + 1 /\ next \in Slot)
    /\ mapped' = IF next = NoSlot THEN mapped ELSE next
    /\ writer' = mapped
    /\ used' = IF next = NoSlot THEN used ELSE next
    /\ slot' = IF next = NoSlot THEN slot ELSE [slot EXCEPT ![next] = NewSlot(keyed)]

\* Publish the next state with one store.  The slot it replaces is marked retired next, by
\* the same holder of write_lock.
Publish(next, keyed) ==
    /\ next = NoSlot \/ (next = used + 1 /\ next \in Slot)
    /\ mapped' = next
    /\ writer' = mapped
    /\ used' = IF next = NoSlot THEN used ELSE next
    /\ slot' = IF next = NoSlot THEN slot ELSE [slot EXCEPT ![next] = NewSlot(keyed)]

\* apply with another spawn-frozen identity, or with the entry removed or added.
ApplyReplace ==
    /\ "apply" \in Operations /\ writer = NoSlot
    /\ \/ mapped # NoSlot /\ Publish(NoSlot, FALSE)
       \/ \E keyed \in Scopes : Publish(used + 1, keyed)
    /\ UNCHANGED <<cells, watch, drain, caller>>

\* apply with a config-only edit: the same slot, with another entry object.
ApplyReuse ==
    /\ "edit" \in Operations /\ writer = NoSlot
    /\ mapped # NoSlot /\ slot[mapped].version < MaxVersion
    /\ slot' = [slot EXCEPT ![mapped].version = @ + 1]
    /\ UNCHANGED <<mapped, used, writer, cells, watch, drain, caller>>

\* invalidate: a cold slot for the same entry.
Invalidate ==
    /\ "invalidate" \in Operations /\ writer = NoSlot
    /\ mapped # NoSlot
    /\ Publish(used + 1, slot[mapped].keyed)
    /\ UNCHANGED <<cells, watch, drain, caller>>

\* invalidate_bound by a holder of a bound use whose entry is still the live one: evict the
\* key's cell, or swap the slot.  (Evicting a key nobody has resolved yet does nothing in the
\* code; here it renames a cell that stays empty.)
InvalidateBound(p, key) ==
    LET k == caller[p]  s == k.slot  x == <<key, slot[s].rekeyed[key]>> IN
    /\ "evict" \in Operations /\ writer = NoSlot
    /\ k.bind /\ k.pc \in {"bound", "held"}
    /\ mapped = s /\ k.version = slot[s].version /\ ~slot[s].retired
    /\ IF slot[s].keyed
       THEN /\ slot[s].rekeyed[key] < MaxRekey
            /\ slot' = [slot EXCEPT ![s].rekeyed[key] = @ + 1]
            /\ drain' = [drain EXCEPT ![s][x].pc = "check"]
            /\ UNCHANGED <<mapped, used, writer>>
       ELSE Publish(used + 1, slot[s].keyed) /\ UNCHANGED drain
    /\ UNCHANGED <<cells, watch, caller>>

\* retired.store and spawn_retirement, which wakes the watcher, end the writer's section.
MarkRetired ==
    /\ writer # NoSlot /\ watch[writer].pc \notin {"claim_leases", "claim_epoch", "swap"}
    /\ slot' = [slot EXCEPT ![writer].retired = TRUE]
    /\ watch' = [watch EXCEPT ![writer] = IF @.pc = "retire" THEN [@ EXCEPT !.pc = "ended"]
                                          ELSE Woken(@)]
    /\ drain' = [drain EXCEPT ![writer] =
                    [x \in CellId |-> IF x = SharedCell THEN [pc |-> "check", woken |-> FALSE]
                                      ELSE Woken(@[x])]]
    /\ writer' = NoSlot
    /\ UNCHANGED <<mapped, used, cells, caller>>

-----------------------------------------------------------------------------
(* Retirement tasks *)

drainGoto(s, x, pc) == drain' = [drain EXCEPT ![s][x] = [pc |-> pc, woken |-> FALSE]]

\* wait_for_slot_drain: look at the count ...
DrainCheck(s, x) ==
    /\ drain[s][x].pc = "check"
    /\ drainGoto(s, x, IF slot[s].leases = 0 THEN "retire" ELSE "register")
    /\ UNCHANGED <<mapped, used, writer, slot, cells, watch, caller>>

\* Fault: the count is not looked at again after registering.
DrainRegister_parks(s, x) ==
    /\ drain[s][x].pc = "register"
    /\ drainGoto(s, x, "parked")
    /\ UNCHANGED <<mapped, used, writer, slot, cells, watch, caller>>

\* ... register for wakeups and look again ...
DrainRegister(s, x) ==
    /\ drain[s][x].pc = "register"
    /\ drainGoto(s, x, IF slot[s].leases = 0 THEN "retire" ELSE "parked")
    /\ UNCHANGED <<mapped, used, writer, slot, cells, watch, caller>>

\* Fault: the first lease drop ends the wait.
DrainWake_first(s, x) ==
    /\ drain[s][x].pc = "parked" /\ drain[s][x].woken
    /\ drainGoto(s, x, "retire")
    /\ UNCHANGED <<mapped, used, writer, slot, cells, watch, caller>>

\* ... and park until a lease drops or the grace deadline passes.
DrainWake(s, x) ==
    /\ drain[s][x].pc = "parked"
    /\ \/ drain[s][x].woken /\ drainGoto(s, x, "check")
       \/ GraceExpires /\ drainGoto(s, x, "retire")
    /\ UNCHANGED <<mapped, used, writer, slot, cells, watch, caller>>

\* Have the cell's backend retire if it was spawned; the slot's own task goes on to the keyed
\* cells.
DrainRetire(s, x) ==
    /\ drain[s][x].pc = "retire"
    /\ retire_join_or_refuse(s, {x})
    /\ drainGoto(s, x, IF x = SharedCell THEN "retire_keyed" ELSE "ended")
    /\ UNCHANGED <<mapped, used, writer, slot, watch, caller>>

\* The keyed cells in the slot's map, read once, are asked to retire after the shared one.
DrainRetireKeyed(s) ==
    /\ drain[s][SharedCell].pc = "retire_keyed"
    /\ retire_join_or_refuse(s, {<<k, slot[s].rekeyed[k]>> : k \in Key})
    /\ drainGoto(s, SharedCell, "ended")
    /\ UNCHANGED <<mapped, used, writer, slot, watch, caller>>

-----------------------------------------------------------------------------
(* The idle watcher of a slot *)

watchGoto(s, pc) == watch' = [watch EXCEPT ![s] = [pc |-> pc, woken |-> FALSE]]

\* Register for wakeups, end if the slot is retired, and read the epoch.
WatchStart(s) ==
    /\ watch[s].pc = "start"
    /\ IF slot[s].retired THEN watchGoto(s, "ended") /\ UNCHANGED slot
       ELSE watchGoto(s, "leases") /\ slot' = [slot EXCEPT ![s].stale = FALSE]
    /\ UNCHANGED <<mapped, used, writer, cells, drain, caller>>

\* Then read the count: park while the slot is in use, else start the clock.
WatchLeases(s) ==
    /\ watch[s].pc = "leases"
    /\ watch' = [watch EXCEPT ![s].pc = IF slot[s].leases > 0 THEN "parked" ELSE "clock"]
    /\ UNCHANGED <<mapped, used, writer, slot, cells, drain, caller>>

\* Woken by a lease drop or a retirement: start again.
WatchWake(s) ==
    /\ watch[s].pc \in {"parked", "clock"} /\ watch[s].woken
    /\ watchGoto(s, "start")
    /\ UNCHANGED <<mapped, used, writer, slot, cells, drain, caller>>

\* A whole time-to-live passed without a wakeup; a use it missed shows in count or epoch.
WatchExpires(s) ==
    /\ watch[s].pc = "clock"
    /\ watchGoto(s, IF slot[s].leases > 0 \/ slot[s].stale THEN "start" ELSE "lock")
    /\ UNCHANGED <<mapped, used, writer, slot, cells, drain, caller>>

\* retire_idle_slot: with write_lock, end if this slot is no longer the live one, else claim.
WatchLock(s) ==
    /\ watch[s].pc = "lock" /\ writer = NoSlot
    /\ IF mapped # s \/ slot[s].retired
       THEN watchGoto(s, "ended") /\ UNCHANGED <<writer, slot>>
       ELSE /\ used + 1 \in Slot
            /\ writer' = s
            /\ slot' = [slot EXCEPT ![s].idle = TRUE]
            /\ watchGoto(s, "claim_leases")
    /\ UNCHANGED <<mapped, used, cells, drain, caller>>

\* Fault: the watcher ends although the slot stays in use.
withdraw_ends(s) ==
    /\ slot' = [slot EXCEPT ![s].idle = FALSE]
    /\ writer' = NoSlot
    /\ watchGoto(s, "ended")

\* claim_idle finds a lease: withdraw the claim and keep watching.
withdraw(s) ==
    /\ slot' = [slot EXCEPT ![s].idle = FALSE]
    /\ writer' = NoSlot
    /\ watchGoto(s, "start")

\* claim_idle, having published the claim, reads the count and then the epoch.
ClaimLeases(s) ==
    /\ watch[s].pc = "claim_leases"
    /\ IF slot[s].leases = 0 THEN watchGoto(s, "claim_epoch") /\ UNCHANGED <<writer, slot>>
       ELSE withdraw(s)
    /\ UNCHANGED <<mapped, used, cells, drain, caller>>

ClaimEpoch(s) ==
    /\ watch[s].pc = "claim_epoch"
    /\ IF ~slot[s].stale THEN watchGoto(s, "swap") /\ UNCHANGED <<writer, slot>>
       ELSE withdraw(s)
    /\ UNCHANGED <<mapped, used, cells, drain, caller>>

\* Publish a cold slot for the same entry; MarkRetired follows.
WatchSwap(s) ==
    /\ watch[s].pc = "swap"
    /\ Publish(used + 1, slot[s].keyed)
    /\ watchGoto(s, "retire")
    /\ UNCHANGED <<cells, drain, caller>>

-----------------------------------------------------------------------------
(* Specification *)

Init ==
    /\ mapped = 1 /\ used = 1 /\ writer = NoSlot
    /\ \E keyed \in Scopes : slot = [s \in Slot |-> NewSlot(keyed)]
    /\ cells = [s \in Slot |-> [x \in CellId |-> "empty"]]
    /\ watch = [s \in Slot |-> [pc |-> "off", woken |-> FALSE]]
    /\ drain = [s \in Slot |-> [x \in CellId |-> [pc |-> "off", woken |-> FALSE]]]
    /\ caller = [p \in Caller |-> Idle]

ResolveStep(p) ==
    \/ Load(p) \/ GetOrInit(p) \/ \E ok \in BOOLEAN : Spawned(p, ok)
    \/ AcquireCount(p) \/ AcquireBump(p) \/ CheckIdle(p) \/ CheckRetired(p)
    \/ Revalidate(p) \/ AwaitWriter(p) \/ RaceLoss(p)

DrainStep(s, x) ==
    DrainCheck(s, x) \/ DrainRegister(s, x) \/ DrainWake(s, x) \/ DrainRetire(s, x)

WatchStep(s) ==
    \/ WatchStart(s) \/ WatchLeases(s) \/ WatchWake(s) \/ WatchExpires(s)
    \/ WatchLock(s) \/ ClaimLeases(s) \/ ClaimEpoch(s) \/ WatchSwap(s)

Next ==
    \/ \E p \in Caller : \/ Start(p) \/ ResolveStep(p) \/ ResolveBound(p) \/ Done(p)
                         \/ DropFuture(p) \/ \E key \in Key : InvalidateBound(p, key)
    \/ ApplyReplace \/ ApplyReuse \/ Invalidate \/ MarkRetired
    \/ \E s \in Slot : \/ WatchStep(s) \/ DrainRetireKeyed(s)
                       \/ \E x \in CellId : DrainStep(s, x)

Spec == Init /\ [][Next]_vars

\* Tasks are polled, spawns and lock waits end, timers fire, and a cell's initializers queue
\* fairly (the cell's semaphore is a queue).  A lease is only assumed to be dropped where no
\* force deadline is there to do without it; that a bound use whose spawns keep failing is
\* dropped takes the strong form.
Fairness ==
    /\ \A p \in Caller : /\ WF_vars(ResolveStep(p)) /\ SF_vars(GetOrInit(p))
                         /\ GraceExpires \/ SF_vars(Done(p))
    /\ WF_vars(MarkRetired)
    /\ \A s \in Slot : /\ WF_vars(WatchStep(s)) /\ WF_vars(DrainRetireKeyed(s))
                       /\ \A x \in CellId : WF_vars(DrainStep(s, x))

FairSpec == Spec /\ Fairness

-----------------------------------------------------------------------------
(* Properties *)

\* The types of the registry's fields and of the tasks on it: every count is a natural number, so no
\* lease is dropped twice, and every slot and cell a task refers to exists.
TypeOK ==
    /\ mapped \in Slot \cup {NoSlot} /\ used \in Slot /\ writer \in Slot \cup {NoSlot}
    /\ slot \in [Slot -> SlotRecord]
    /\ cells \in [Slot -> [CellId -> CellState]]
    /\ watch \in [Slot -> [pc: WatchPc, woken: BOOLEAN]]
    /\ drain \in [Slot -> [CellId -> [pc: DrainPc, woken: BOOLEAN]]]
    /\ caller \in [Caller -> CallerRecord]

\* Past the check of the idle claim, with the lease still counted.
Granted(p) ==
    \/ caller[p].pc \in {"check_retired", "revalidate", "bound", "held"}
    \/ caller[p].bind /\ caller[p].pc \in {"cell", "spawn"}
Leased(p) == Granted(p) \/ caller[p].pc \in {"bump", "check_idle"}
Holders(s) == {p \in Caller : Leased(p) /\ caller[p].slot = s}

\* The count that decides retirement is the number of leases out, across backed off, retried
\* and failed uses.
CountExact ==
    \A s \in Slot : slot[s].leases = Cardinality(Holders(s))

\* From the moment the idle watcher has read a zero count under its claim, nobody is granted a
\* lease on that slot and nobody holds one: the claim and the lease see each other.
IdleExclusive ==
    \A s \in Slot : slot[s].idle /\ watch[s].pc \in {"claim_epoch", "swap", "retire", "ended"} =>
        \A p \in Caller : Granted(p) => caller[p].slot # s

\* The backend of a resolved use that is still held has not been retired, and not been asked to.
HeldAlive == \A p \in Caller : caller[p].pc = "held" =>
                 cells[caller[p].slot][caller[p].cell] = "live"

\* An admitted resolution, after any number of retries, is on the slot of the very entry object
\* it was admitted with.
AdmittedExact ==
    \A p \in Caller : caller[p].pc = "held" /\ caller[p].want # NoEntry =>
        caller[p].want[1] = caller[p].slot

\* A backend of a slot or a key that was taken out of use, which nobody has asked to retire yet.
Doomed(s, x) ==
    /\ cells[s][x] = "live"
    /\ slot[s].retired \/ (x[1] \in Key /\ x[2] < slot[s].rekeyed[x[1]])

\* The tasks that still have to ask the backend of a doomed cell to retire: a drain that has not yet
\* looked at it, or the resolver that is about to find the slot retired.
DrainOwes(s, x) ==
    \/ drain[s][x].pc \notin {"off", "retire_keyed", "ended"}
    \/ /\ drain[s][SharedCell].pc \notin {"off", "ended"}
       /\ x[1] \in Key /\ x[2] = slot[s].rekeyed[x[1]]
ResolverOwes(p, s, x) ==
    LET k == caller[p] IN
    /\ k.slot = s /\ k.cell = x /\ ~k.bind
    /\ \/ k.pc \in {"count", "bump", "check_idle"} /\ k.init
       \/ k.pc \in {"check_retired", "retire"}
       \/ k.pc = "await_writer" /\ k.init

\* No backend taken out of use is forgotten: as long as nobody has asked it to retire there is a
\* task that will (retire_join_or_refuse), even when its spawn ended after the drain had looked
\* at the cell.  What the backend answers is its own: one that refuses or fails keeps running.
OrphanFree ==
    \A s \in Slot, x \in CellId : Doomed(s, x) =>
        DrainOwes(s, x) \/ \E p \in Caller : ResolverOwes(p, s, x)

\* Every backend of a retired slot or an evicted cell, whenever it was spawned, is asked to
\* retire, by the drain or by the resolver whose spawn came too late for the drain.  One that
\* accepts is then gone; a refusal or an error is discarded and may leave the backend running.
BackendsAsked == \A s \in Slot, x \in CellId : Doomed(s, x) ~> ~Doomed(s, x)

\* Every resolve returns, however often a reload or an invalidation retires the slot it loaded.
ResolveReturns ==
    \A p \in Caller : caller[p].pc = "load" ~> caller[p].pc \in {"ready", "held", "bound"}

\* A spawned slot that nobody uses does not stay: its watcher cannot miss the last lease drop.
IdleRetires ==
    \A s \in Slot : []<>~(/\ mapped = s /\ slot[s].leases = 0 /\ used < MaxSlot
                         /\ \E x \in CellId : cells[s][x] = "live")

=============================================================================
