------------------------------- MODULE Batch -------------------------------
(***************************************************************************)
(* Batches of bridge-coordinator (batch.rs) composed with the detached     *)
(* tasks that run their items: the admission loop of each batch, the       *)
(* shared permits, cancellation, the readers that settle a batch lazily,   *)
(* crashes, and the boot that resumes what a crash left behind.            *)
(*                                                                         *)
(* An item is the task that runs it: the store holds at most one row for   *)
(* an item of a batch.  Items are interchangeable, so the queues of the    *)
(* loop are sets and the item at the front is any of them.                 *)
(***************************************************************************)
EXTENDS Detached

CONSTANTS
    Concurrency,    \* the batches' concurrency
    Permits         \* the permits of the serve-wide semaphore

ASSUME BatchAssumption == Concurrency \in Nat \ {0} /\ Permits \in Nat \ {0}

VARIABLES
    adm,        \* the admission loops: run_admission's locals
    btok,       \* batch_cancels: the batch's token, once inserted
    bfire,      \* cancel_batch calls about to look the token up
    poll        \* batch_status: the status a reader found settleable

vars == <<row, summary, batch, runners, tok, flips, submitting, boot, faults, crashes,
          adm, btok, bfire, poll>>

LoopPc == {"none", "register", "top", "permit", "admit", "claim", "spawn", "created",
           "check", "finalize", "drain", "select", "settle", "cas"}
LoopRecord ==
    [pc: LoopPc, queue: SUBSET Task, pending: SUBSET Task, inflight: SUBSET Task,
     item: Task \cup {NoTask}, drain: BOOLEAN, failed: BOOLEAN, told: BOOLEAN,
     seen: BatchStatus]
NoLoop == [pc |-> "none", queue |-> {}, pending |-> {}, inflight |-> {}, item |-> NoTask,
           drain |-> FALSE, failed |-> FALSE, told |-> FALSE, seen |-> "none"]
NewLoop(pc, queue, pending) ==
    [NoLoop EXCEPT !.pc = pc, !.queue = queue, !.pending = pending]

\* A permit is held for every child in flight, and by a loop that is admitting one.
Admitting == {"admit", "claim", "spawn", "created", "check", "finalize"}
PermitsHeld == Cardinality(UNION {adm[b].inflight : b \in Batch})
                 + Cardinality({b \in Batch : adm[b].pc \in Admitting})

Init ==
    /\ row = [t \in Task |-> NoRow]
    /\ summary = [t \in Task |-> [a \in Attempt |-> "none"]]
    /\ batch = [b \in Batch |-> "none"]
    /\ runners = {} /\ tok = [t \in Task |-> "none"] /\ flips = {} /\ submitting = {}
    /\ boot = Up /\ faults = 0 /\ crashes = 0
    /\ adm = [b \in Batch |-> NoLoop] /\ btok = [b \in Batch |-> "none"]
    /\ bfire = {} /\ poll = [b \in Batch |-> "none"]

-----------------------------------------------------------------------------
(* run_batch, cancel_batch, batch_status *)

\* run_batch: the plan's row first, then the token and the loop.
RunBatch(b) ==
    /\ "batch" \in Operations
    /\ boot.phase = "up" /\ batch[b] = "none"
    /\ batch' = [batch EXCEPT ![b] = "Working"]
    /\ adm' = [adm EXCEPT ![b] = NewLoop("register", {}, Items[b])]
    /\ UNCHANGED <<row, summary, taskVars, btok, bfire, poll>>

Register(b) ==
    /\ adm[b].pc = "register"
    /\ btok' = [btok EXCEPT ![b] = "live"]
    /\ adm' = [adm EXCEPT ![b].pc = "top"]
    /\ UNCHANGED <<storeVars, taskVars, bfire, poll>>

\* cancel_batch: the compare and set first, then the token, if it is there.
CancelBatch(b) ==
    /\ "cancel_batch" \in Operations
    /\ boot.phase = "up" /\ batch[b] # "none" /\ b \notin bfire
    /\ cancel_batch_if_working(b)
    /\ bfire' = bfire \cup {b}
    /\ UNCHANGED <<row, summary, taskVars, adm, btok, poll>>

CancelBatchFire(b) ==
    /\ b \in bfire
    /\ bfire' = bfire \ {b}
    /\ btok' = [btok EXCEPT ![b] = IF @ = "live" THEN "fired" ELSE @]
    /\ UNCHANGED <<storeVars, taskVars, adm, poll>>

\* batch_status: a reader that finds the batch settleable settles it, by compare and set.
Poll(b) ==
    /\ "poll" \in Operations
    /\ boot.phase = "up" /\ poll[b] = "none"
    /\ \E s \in BatchStatus : Settleable(b, s)
    /\ poll' = [poll EXCEPT ![b] = batch[b]]
    /\ UNCHANGED <<storeVars, taskVars, adm, btok, bfire>>

SettledAs(s) == IF s = "Canceling" THEN "Canceled" ELSE "Completed"

PollSettle(b) ==
    /\ poll[b] # "none"
    /\ settle_batch_if_status(b, poll[b], SettledAs(poll[b]))
    /\ poll' = [poll EXCEPT ![b] = "none"]
    /\ UNCHANGED <<row, summary, taskVars, adm, btok, bfire>>

-----------------------------------------------------------------------------
(* run_admission: one iteration, await by await *)

goto(b, pc) == adm' = [adm EXCEPT ![b].pc = pc]

\* Cancel the tokens of the children in flight.
Tell(b) == tok' = [t \in Task |-> IF t \in adm[b].inflight /\ tok[t] = "live"
                                  THEN "fired" ELSE tok[t]]

\* The guard of the 'admit loop.
MayAdmit(b) ==
    LET l == adm[b] IN
    /\ ~l.drain /\ ~l.failed /\ btok[b] # "fired"
    /\ Cardinality(l.inflight) < Concurrency
    /\ l.queue \cup l.pending # {}

\* What follows when nothing is admitted: leave, drain, or wait for a child or the token.
Top(b) ==
    LET l == adm[b]
        cancelled == btok[b] = "fired"
    IN
    /\ l.pc = "top"
    /\ \/ MayAdmit(b) /\ goto(b, "permit") /\ UNCHANGED tok
       \/ /\ ~MayAdmit(b) /\ l.inflight = {}
          /\ l.pending = {} \/ cancelled \/ l.drain \/ l.failed
          /\ goto(b, "settle") /\ UNCHANGED tok
       \/ /\ ~MayAdmit(b) /\ l.inflight # {} /\ (l.drain \/ l.failed)
          /\ IF l.told THEN UNCHANGED tok ELSE Tell(b)
          /\ adm' = [adm EXCEPT ![b].pc = "drain", ![b].told = TRUE]
       \/ /\ ~MayAdmit(b) /\ l.inflight # {} /\ ~l.drain /\ ~l.failed
          /\ goto(b, "select") /\ UNCHANGED tok
    /\ UNCHANGED <<storeVars, runners, flips, submitting, boot, faults, crashes, btok, bfire, poll>>

\* A child's future is ready once its runner is joined: its permit goes with it.
Reaped(b, t) == t \in adm[b].inflight /\ Joined(t)

\* Fault: the loop only waits for the permit.
AwaitPermit_blocked(b) ==
    /\ adm[b].pc = "permit"
    /\ \/ btok[b] = "fired" /\ adm' = [adm EXCEPT ![b].pc = "top", ![b].drain = TRUE]
       \/ btok[b] # "fired" /\ PermitsHeld < Permits /\ goto(b, "admit")
    /\ UNCHANGED <<storeVars, taskVars, btok, bfire, poll>>

\* Fault: a permit is taken although none is left.
AwaitPermit_unbounded(b) ==
    /\ adm[b].pc = "permit"
    /\ \/ btok[b] = "fired" /\ adm' = [adm EXCEPT ![b].pc = "top", ![b].drain = TRUE]
       \/ btok[b] # "fired" /\ PermitsHeld <= Permits /\ goto(b, "admit")
    /\ UNCHANGED <<storeVars, taskVars, btok, bfire, poll>>

\* The select that acquires a permit, biased: the batch token, the permit, a child.
AwaitPermit(b) ==
    /\ adm[b].pc = "permit"
    /\ \/ btok[b] = "fired" /\ adm' = [adm EXCEPT ![b].pc = "top", ![b].drain = TRUE]
       \/ btok[b] # "fired" /\ PermitsHeld < Permits /\ goto(b, "admit")
       \/ /\ btok[b] # "fired" /\ PermitsHeld >= Permits
          /\ \E t \in Task : Reaped(b, t) /\ adm' = [adm EXCEPT ![b].inflight = @ \ {t}]
    /\ UNCHANGED <<storeVars, taskVars, btok, bfire, poll>>

\* resumed_child_future: a child whose row no longer reads Working is passed over.
ResumeGet(b, t) ==
    /\ adm[b].pc = "admit" /\ t \in adm[b].queue
    /\ adm' = IF public(t) = "Working"
              THEN [adm EXCEPT ![b].pc = "claim", ![b].item = t]
              ELSE [adm EXCEPT ![b].pc = "top", ![b].queue = @ \ {t}]
    /\ UNCHANGED <<storeVars, taskVars, btok, bfire, poll>>

\* The resume claim, or one of the exits before it.
ResumeClaim(b, t) ==
    /\ adm[b].pc = "claim" /\ adm[b].item = t
    /\ \/ ResumeClaims(t) /\ goto(b, "spawn")
       \/ /\ ResumeGivesUp(t)
          /\ adm' = [adm EXCEPT ![b].pc = "top", ![b].queue = @ \ {t}, ![b].item = NoTask]
    /\ UNCHANGED <<summary, batch, runners, tok, flips, submitting, boot, crashes,
                   btok, bfire, poll>>

\* The reservation, the token and the runner of a resumed child, whatever its row is now.
ResumeSpawn(b, t) ==
    /\ adm[b].pc = "spawn" /\ adm[b].item = t
    /\ reserve(t)
    /\ tok' = [tok EXCEPT ![t] = "live"]
    /\ spawn(t)
    /\ adm' = [adm EXCEPT ![b].pc = "top", ![b].queue = @ \ {t}, ![b].item = NoTask,
                          ![b].inflight = @ \cup {t}]
    /\ UNCHANGED <<batch, flips, submitting, boot, crashes, btok, bfire, poll>>

\* A pending item: its token and its row (claim_batch_child_with_locator).  A batch row, a
\* workflow or a claim that is not to be had fails the batch and ends admission; a row
\* that is already there is left to whoever made it.
NewChild(b, t) ==
    /\ adm[b].pc = "admit" /\ adm[b].queue = {} /\ t \in adm[b].pending
    /\ \/ /\ row' = [row EXCEPT ![t] = IF @.status = "none" THEN NewRow ELSE @]
          /\ tok' = [tok EXCEPT ![t] = IF row[t].status = "none" THEN "live" ELSE @]
          /\ adm' = [adm EXCEPT ![b].pending = @ \ {t},
                                ![b].pc = IF row[t].status = "none" THEN "created" ELSE "top",
                                ![b].item = IF row[t].status = "none" THEN t ELSE @]
          /\ NoFault /\ UNCHANGED batch
       \/ /\ settle_batch_if_status(b, "Working", "Failed")
          /\ adm' = [adm EXCEPT ![b].pc = "top", ![b].failed = TRUE]
          /\ Fault /\ UNCHANGED <<row, tok>>
    /\ UNCHANGED <<summary, runners, flips, submitting, boot, crashes, btok, bfire, poll>>

\* The reservation, and the batch's status read again.
Created(b, t) ==
    /\ adm[b].pc = "created" /\ adm[b].item = t
    /\ reserve(t)
    /\ adm' = [adm EXCEPT ![b].pc = "check", ![b].seen = batch[b]]
    /\ UNCHANGED <<batch, runners, tok, flips, submitting, boot, crashes, btok, bfire, poll>>

\* A child whose batch or row was canceled in between is finalized, not spawned.
Check(b, t) ==
    /\ adm[b].pc = "check" /\ adm[b].item = t
    /\ LET stop == adm[b].seen = "Canceling" \/ settled(t) \/ btok[b] = "fired" IN
       \/ /\ stop
          /\ runners' = runners \cup {Runner(t, row[t].attempt, "commit", "Canceled", TRUE)}
          /\ adm' = [adm EXCEPT ![b].pc = "finalize", ![b].seen = "none"]
       \/ /\ ~stop
          /\ spawn(t)
          /\ adm' = [adm EXCEPT ![b].pc = "top", ![b].inflight = @ \cup {t},
                                ![b].item = NoTask, ![b].seen = "none"]
    /\ UNCHANGED <<storeVars, tok, flips, submitting, boot, faults, crashes, btok, bfire, poll>>

\* finalize_detached_with_barrier returned: the permit goes, and the loop drains if the
\* token has fired.
Finalized(b, t) ==
    /\ adm[b].pc = "finalize" /\ adm[b].item = t /\ RunnersOf(t) = {}
    /\ adm' = [adm EXCEPT ![b].pc = "top", ![b].item = NoTask,
                          ![b].drain = @ \/ btok[b] = "fired"]
    /\ UNCHANGED <<storeVars, taskVars, btok, bfire, poll>>

\* Draining: wait for a child that was told to stop.
Drain(b) ==
    /\ adm[b].pc = "drain"
    /\ \E t \in Task : Reaped(b, t) /\ adm' = [adm EXCEPT ![b].pc = "top", ![b].inflight = @ \ {t}]
    /\ UNCHANGED <<storeVars, taskVars, btok, bfire, poll>>

\* Fault: a fired batch token is not passed on to the children.
Select_deaf(b) ==
    /\ adm[b].pc = "select"
    /\ \E t \in Task : Reaped(b, t) /\ adm' = [adm EXCEPT ![b].pc = "top", ![b].inflight = @ \ {t}]
    /\ UNCHANGED <<storeVars, taskVars, btok, bfire, poll>>

\* The select at the end of the loop, biased: the batch token, a child.
Select(b) ==
    /\ adm[b].pc = "select"
    /\ \/ /\ btok[b] = "fired" /\ Tell(b)
          /\ adm' = [adm EXCEPT ![b].pc = "top", ![b].drain = TRUE, ![b].told = TRUE]
       \/ /\ btok[b] # "fired" /\ UNCHANGED tok
          /\ \E t \in Task : /\ Reaped(b, t)
                             /\ adm' = [adm EXCEPT ![b].pc = "top", ![b].inflight = @ \ {t}]
    /\ UNCHANGED <<storeVars, runners, flips, submitting, boot, faults, crashes, btok, bfire, poll>>

\* The loop is over: roll the batch up and settle it if it can be, by compare and set.
Rollup(b) ==
    /\ adm[b].pc = "settle"
    /\ adm' = [adm EXCEPT ![b].pc = "cas",
                          ![b].seen = IF \E s \in BatchStatus : Settleable(b, s)
                                      THEN batch[b] ELSE "none"]
    /\ UNCHANGED <<storeVars, taskVars, btok, bfire, poll>>

Leave(b) ==
    /\ adm[b].pc = "cas"
    /\ IF adm[b].seen = "none" THEN UNCHANGED batch
       ELSE settle_batch_if_status(b, adm[b].seen, SettledAs(adm[b].seen))
    /\ adm' = [adm EXCEPT ![b] = NoLoop]
    /\ btok' = [btok EXCEPT ![b] = "none"]
    /\ UNCHANGED <<row, summary, taskVars, bfire, poll>>

LoopStep(b) ==
    \/ Register(b) \/ Top(b) \/ AwaitPermit(b) \/ Drain(b) \/ Select(b) \/ Rollup(b) \/ Leave(b)
    \/ \E t \in Items[b] : \/ ResumeGet(b, t) \/ ResumeClaim(b, t) \/ ResumeSpawn(b, t)
                           \/ NewChild(b, t) \/ Created(b, t) \/ Check(b, t) \/ Finalized(b, t)

-----------------------------------------------------------------------------
(* Crash and boot *)

\* The process dies: what is not in the store is lost, and boot starts over.
Crash ==
    /\ crashes < MaxCrash /\ crashes' = crashes + 1
    /\ runners' = {} /\ tok' = [t \in Task |-> "none"] /\ flips' = {} /\ submitting' = {}
    /\ adm' = [b \in Batch |-> NoLoop] /\ btok' = [b \in Batch |-> "none"]
    /\ bfire' = {} /\ poll' = [b \in Batch |-> "none"]
    /\ boot' = Restarted
    /\ UNCHANGED <<storeVars, faults>>

Orphan(t) == working(t) /\ \E b \in Batch : t \in Items[b] /\ ~active(b)

\* resume_all: a Working child of a batch that is over is interrupted.
BootOrphan(t) ==
    /\ boot.phase = "orphans" /\ Orphan(t)
    /\ row' = [row EXCEPT ![t] = set_terminal_sequenced(@, "Interrupted")]
    /\ UNCHANGED <<summary, batch, taskVars, adm, btok, bfire, poll>>

\* resume_non_batch_tasks reads the Working tasks.  A scan that fails is skipped.
BootSolo ==
    /\ boot.phase = "orphans"
    /\ \/ (\A t \in Task : ~Orphan(t)) /\ NoFault
            /\ boot' = [boot EXCEPT !.phase = "solo", !.todo = {t \in Solo : working(t)}]
       \/ Fault /\ boot' = [boot EXCEPT !.phase = "solo"]
    /\ UNCHANGED <<storeVars, runners, tok, flips, submitting, crashes, adm, btok, bfire, poll>>

\* resume_batches reads the active batches.
BootBatches ==
    /\ boot.phase = "solo" /\ boot.todo = {} /\ boot.claimed = NoTask
    /\ \/ NoFault /\ boot' = [boot EXCEPT !.phase = "batches", !.todo = {b \in Batch : active(b)}]
       \/ Fault /\ boot' = [boot EXCEPT !.phase = "batches"]
    /\ UNCHANGED <<storeVars, runners, tok, flips, submitting, crashes, adm, btok, bfire, poll>>

Handled(b) == boot' = [boot EXCEPT !.todo = @ \ {b}]

\* Fault: the Working children are not handed to the loop.
BootBatch_tail_only(b) ==
    /\ boot.phase = "batches" /\ b \in boot.todo /\ boot.claimed = NoTask
    /\ batch[b] = "Working"
    /\ adm' = [adm EXCEPT ![b] = NewLoop("top", {}, {t \in Items[b] : row[t].status = "none"})]
    /\ btok' = [btok EXCEPT ![b] = "live"]
    /\ Handled(b)
    /\ UNCHANGED <<storeVars, runners, tok, flips, submitting, faults, crashes, bfire, poll>>

\* A Working batch gets its loop back: the Working children to resume, and the items that
\* have no row yet.
BootBatch(b) ==
    /\ boot.phase = "batches" /\ b \in boot.todo /\ boot.claimed = NoTask
    /\ batch[b] = "Working"
    /\ adm' = [adm EXCEPT ![b] = NewLoop("top", {t \in Items[b] : public(t) = "Working"},
                                                {t \in Items[b] : row[t].status = "none"})]
    /\ btok' = [btok EXCEPT ![b] = "live"]
    /\ Handled(b)
    /\ UNCHANGED <<storeVars, runners, tok, flips, submitting, faults, crashes, bfire, poll>>

\* A plan that cannot be read: the batch is to be failed.
BootCorrupt(b) ==
    /\ boot.phase = "batches" /\ b \in boot.todo /\ boot.claimed = NoTask
    /\ boot' = [boot EXCEPT !.claimed = b]
    /\ Fault
    /\ UNCHANGED <<storeVars, runners, tok, flips, submitting, crashes, adm, btok, bfire, poll>>

\* A batch whose children cannot be read is skipped.
BootSkip(b) ==
    /\ boot.phase = "batches" /\ b \in boot.todo /\ boot.claimed = NoTask
    /\ Handled(b) /\ Fault
    /\ UNCHANGED <<storeVars, runners, tok, flips, submitting, crashes, adm, btok, bfire, poll>>

\* cancel_working_children of a batch that was being canceled, or is to be failed.
BootCancels(b) == batch[b] = "Canceling" \/ boot.claimed = b
BootCancelChild(b, t) ==
    /\ boot.phase = "batches" /\ b \in boot.todo /\ BootCancels(b)
    /\ t \in Items[b] /\ public(t) = "Working"
    /\ row' = [row EXCEPT ![t] = set_terminal_sequenced(@, "Canceled")]
    /\ UNCHANGED <<summary, batch, taskVars, adm, btok, bfire, poll>>

\* Its settlement.  Children that could not be read or canceled do not hold it up.
BootCanceled(b) ==
    /\ boot.phase = "batches" /\ b \in boot.todo /\ BootCancels(b)
    /\ IF \A t \in Items[b] : public(t) # "Working" THEN NoFault ELSE Fault
    /\ settle_batch_if_status(b, batch[b], IF boot.claimed = b THEN "Failed" ELSE "Canceled")
    /\ boot' = [boot EXCEPT !.todo = @ \ {b}, !.claimed = NoTask]
    /\ UNCHANGED <<row, summary, runners, tok, flips, submitting, crashes,
                   adm, btok, bfire, poll>>

\* Boot is over and clients are served.
Serve ==
    /\ boot.phase = "batches" /\ boot.todo = {}
    /\ boot' = Up
    /\ UNCHANGED <<storeVars, runners, tok, flips, submitting, faults, crashes, adm, btok, bfire, poll>>

BootStep ==
    \/ BootSolo \/ BootBatches \/ Serve
    \/ (BootReconciled \/ BootSweep) /\ UNCHANGED <<adm, btok, bfire, poll>>
    \/ \E t \in Task : BootTask(t) /\ UNCHANGED <<adm, btok, bfire, poll>>
    \/ \E t \in Task : BootOrphan(t)
    \/ \E b \in Batch : BootBatch(b) \/ BootCorrupt(b) \/ BootSkip(b) \/ BootCanceled(b)
    \/ \E b \in Batch, t \in Task : BootCancelChild(b, t)

-----------------------------------------------------------------------------
(* The system *)

TaskStep ==
    /\ \/ \E r \in runners : RunnerStep(r)
       \/ \E t \in Task : Submit(t) \/ SubmitSpawn(t) \/ CancelTask(t) \/ CancelFlip(t)
    /\ UNCHANGED <<adm, btok, bfire, poll>>

BatchClient(b) ==
    RunBatch(b) \/ CancelBatch(b) \/ CancelBatchFire(b) \/ Poll(b) \/ PollSettle(b)

Next ==
    \/ TaskStep
    \/ \E b \in Batch : LoopStep(b) \/ BatchClient(b)
    \/ BootStep
    \/ Crash

Spec == Init /\ [][Next]_vars

\* The runtime polls every task that is ready; a canceled workflow ends, and so does a
\* commit; how long an agent works on a workflow is up to the agent.
Steps(r) ==
    /\ (tok[r.task] = "fired" /\ (Checkpoint(r) \/ EndEarly(r))) \/ Finishing(r)
    /\ UNCHANGED <<adm, btok, bfire, poll>>
Fairness ==
    /\ \A t \in Task : /\ WF_vars(\E r \in RunnersOf(t) : Steps(r))
                       /\ WF_vars(SubmitSpawn(t) /\ UNCHANGED <<adm, btok, bfire, poll>>)
                       /\ WF_vars(CancelFlip(t) /\ UNCHANGED <<adm, btok, bfire, poll>>)
    /\ \A b \in Batch : WF_vars(LoopStep(b)) /\ WF_vars(CancelBatchFire(b)) /\ WF_vars(PollSettle(b))
    /\ WF_vars(BootStep)

FairSpec == Spec /\ Fairness

-----------------------------------------------------------------------------
(* Properties *)

\* The variables have their types.
TypeOK ==
    /\ row \in [Task -> RowRecord]
    /\ summary \in [Task -> [Attempt -> {"none", "active", "ended"}]]
    /\ batch \in [Batch -> BatchStatus]
    /\ runners \subseteq RunnerRecord
    /\ tok \in [Task -> {"none", "live", "fired"}]
    /\ flips \subseteq Task /\ submitting \subseteq Solo
    /\ boot \in BootRecord
    /\ faults \in 0 .. MaxFault /\ crashes \in 0 .. MaxCrash
    /\ adm \in [Batch -> LoopRecord]
    /\ btok \in [Batch -> {"none", "live", "fired"}]
    /\ bfire \subseteq Batch
    /\ poll \in [Batch -> {"none", "Working", "Canceling"}]

Life == INSTANCE TaskLife WITH task <- [t \in Task |-> public(t)], plan <- batch

\* The statuses a client reads follow TaskLife through crashes, retries, late commits and
\* stale records: a task is never reopened nor given a second terminal status, and a
\* batch completes only over settled items.
ImplementsLife == Life!Spec

\* A task never has two runners, and while an attempt executes it is the one the row
\* names and no other attempt of the task is active in the history ("would create two
\* live attempts", resume_with_cap).
AttemptExclusive ==
    \A r \in runners :
        /\ RunnersOf(r.task) = {r}
        /\ r.attempt = row[r.task].attempt
        /\ \A a \in Attempt : summary[r.task][a] = "active" => a = r.attempt

\* A task published as Completed or Failed has its evidence: the summary of the attempt is
\* ended, or the locator says the telemetry is unavailable.
PublishedHasEvidence ==
    \A t \in Task :
        public(t) \in {"Completed", "Failed"} =>
            row[t].marked \/ summary[t][row[t].attempt] = "ended"

\* Unless a store call failed, a terminal row is hidden only while its runner is on the way
\* to publish it: nobody waits for a row that only the next boot would show.
HiddenOwned ==
    \A t \in Task :
        row[t].hidden /\ faults = 0 /\ boot.phase = "up" =>
            \E r \in RunnersOf(t) : r.pc \in {"settle", "publish"}

Executing(ts) == Cardinality({r \in runners : r.task \in ts /\ r.pc = "run"})

\* The workflows of batch items that execute at one time stay within the serve-wide
\* permits, and those of one batch within its concurrency, across resumption and boot.
CapsHold ==
    /\ Executing(UNION {Items[b] : b \in Batch}) <= Permits
    /\ \A b \in Batch : Executing(Items[b]) <= Concurrency

AtRest(b) ==
    /\ boot.phase = "up" /\ adm[b].pc = "none" /\ poll[b] = "none"
    /\ \A t \in Items[b] : RunnersOf(t) = {}

\* A Working batch that nothing works on any more, no call having failed, can be settled
\* by whoever reads it: its loop never leaves an item behind.
RestSettles ==
    \A b \in Batch : AtRest(b) /\ batch[b] = "Working" /\ faults = 0 => Settleable(b, "Completed")

\* Claimed by the design of cancel_batch ("settles Cancelled", e3-batch.md): a Canceling
\* batch that nothing works on any more can be settled by whoever reads it.
CancelSettles ==
    \A b \in Batch : AtRest(b) /\ batch[b] = "Canceling" /\ faults = 0 => Settleable(b, "Canceled")

\* A batch that is Working again and again has an agent at work again and again: waiting
\* for permits, resuming after a crash and settling never leave it stuck.
NeverWedged ==
    \A b \in Batch : []<>(batch[b] # "Working" \/ \E r \in runners : r.pc = "run")

\* Once the token of a batch has fired, its loop ends and every workflow of the batch with it:
\* a state is reached with no loop and nothing of the batch executing.
CancelEnds ==
    \A b \in Batch : btok[b] = "fired" ~> (adm[b].pc = "none" /\ Executing(Items[b]) = 0)
=============================================================================
