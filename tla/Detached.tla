------------------------------ MODULE Detached ------------------------------
(***************************************************************************)
(* Detached workflow tasks of bridge-coordinator (detached.rs and the task *)
(* operations of coordinator.rs), over the durable rows of TaskStore.      *)
(*                                                                         *)
(* A runner executes a task's workflow, writes the terminal checkpoint and *)
(* commits the outcome in three transactions: the hidden terminal row, the *)
(* evidence in the workflow history, and the publication.  A crash between *)
(* any two of them is what boot reconciles.  The executor is the step from *)
(* "run" to "commit": what it returns is chosen here.                      *)
(***************************************************************************)
EXTENDS TaskStore

CONSTANTS
    Operations, \* "submit", "batch", "cancel_task", "cancel_batch", "poll", "panic"
    MaxCrash,   \* bound: crashes of the process
    MaxFault    \* bound: store and history calls that fail, unreadable snapshots

VARIABLES
    runners,    \* the live runners, and finalizers acting for one
    tok,        \* workflow_cancels: the task's token, once inserted
    flips,      \* cancellations about to call cancel_if_working
    submitting, \* submissions whose row exists and whose runner does not yet
    boot,       \* the boot sequence: its phase, what is left of it, what it is at
    faults,
    crashes

taskVars == <<runners, tok, flips, submitting, boot, faults, crashes>>

\* No task: None where the code has an Option of one.
NoTask == "no task"

ASSUME DetachedAssumption ==
    /\ MaxCrash \in Nat /\ MaxFault \in Nat
    /\ NoTask \notin Task

RunnerPc == {"run", "commit", "settle", "publish", "done"}
RunnerRecord ==
    [task: Task, attempt: Attempt, pc: RunnerPc, out: TerminalStatus \cup {"none"},
     last: BOOLEAN,     \* a refused commit is not retried
     detached: BOOLEAN] \* the Finalizer of a runner that unwound: nobody joins it
Phase == {"pending", "checkpoints", "sweep", "orphans", "solo", "batches", "up"}
BootRecord == [phase: Phase, todo: SUBSET (Task \cup Batch), claimed: Task \cup Batch \cup {NoTask}]

Up == [phase |-> "up", todo |-> {}, claimed |-> NoTask]
Restarted == [phase |-> "pending", todo |-> {}, claimed |-> NoTask]

Runner(t, a, pc, out, last) ==
    [task |-> t, attempt |-> a, pc |-> pc, out |-> out, last |-> last, detached |-> FALSE]
RunnersOf(t) == {r \in runners : r.task = t}
Joined(t) == \A r \in RunnersOf(t) : r.detached

NoFault == UNCHANGED faults
Fault == faults < MaxFault /\ faults' = faults + 1

-----------------------------------------------------------------------------
(* Starting a runner *)

\* history.reserve: the attempt's summary becomes active, or the locator is marked; when the
\* mark cannot be written either, that is only logged.
reserve(t) ==
    \/ /\ summary' = [summary EXCEPT ![t][row[t].attempt] = "active"]
       /\ NoFault /\ UNCHANGED row
    \/ /\ row' = [row EXCEPT ![t].marked = TRUE]
       /\ Fault /\ UNCHANGED summary
    \/ Fault /\ UNCHANGED <<row, summary>>

\* spawn_detached_workflow
spawn(t) == runners' = runners \cup {Runner(t, row[t].attempt, "run", "none", FALSE)}

\* Coordinator::submit: the row first.
Submit(t) ==
    /\ "submit" \in Operations
    /\ boot.phase = "up" /\ t \in Solo /\ row[t].status = "none"
    /\ row' = [row EXCEPT ![t] = NewRow]
    /\ submitting' = submitting \cup {t}
    /\ UNCHANGED <<summary, batch, runners, tok, flips, boot, faults, crashes>>

\* Then the reservation, the hub and the token, and the runner.  A cancellation latched
\* before the row existed fires the token.  The reservation is taken to be valid for the
\* configured history: a collision or an unsupported configuration is left out.
SubmitSpawn(t) ==
    /\ t \in submitting
    /\ submitting' = submitting \ {t}
    /\ reserve(t)
    /\ \E c \in {"live", "fired"} : tok' = [tok EXCEPT ![t] = c]
    /\ spawn(t)
    /\ UNCHANGED <<batch, flips, boot, crashes>>

-----------------------------------------------------------------------------
(* A runner: execution and the three transactions of its terminal commit *)

Become(r, s) == runners' = (runners \ {r}) \cup {s}

\* node_finished for the terminal node: the checkpoint is written, whatever the row's
\* status, and decides the outcome, unless the node was canceled.
Checkpoint(r) ==
    /\ r.pc = "run"
    /\ \E k \in {"Completed", "Failed"} :
        /\ row' = [row EXCEPT ![r.task].ck = k]
        /\ \E s \in {k} \cup (IF k = "Failed" /\ tok[r.task] = "fired" THEN {"Canceled"} ELSE {}) :
            Become(r, [r EXCEPT !.pc = "commit", !.out = s])
    /\ UNCHANGED <<summary, batch, tok, flips, submitting, boot, faults, crashes>>

\* The workflow ends before its terminal node: it failed, was canceled, its composition was
\* refused before it started, or its stream carried no terminal or an error.  The runner
\* finalizes the last three itself, without a retry.
EndEarly(r) ==
    /\ r.pc = "run"
    /\ \/ \E s \in {"Failed"} \cup (IF tok[r.task] = "fired" THEN {"Canceled"} ELSE {}) :
            Become(r, [r EXCEPT !.pc = "commit", !.out = s])
       \/ \E s \in {"Failed", "Interrupted"} :
            Become(r, [r EXCEPT !.pc = "commit", !.out = s, !.last = TRUE])
    /\ UNCHANGED <<row, summary, batch, tok, flips, submitting, boot, faults, crashes>>

\* Drop for Finalizer: a runner whose workflow unwinds leaves the finalization to a task of its own.
Panic(r) ==
    /\ "panic" \in Operations
    /\ r.pc = "run"
    /\ Become(r, [r EXCEPT !.pc = "commit", !.out = "Failed", !.last = TRUE, !.detached = TRUE])
    /\ Fault
    /\ UNCHANGED <<row, summary, batch, tok, flips, submitting, boot, crashes>>

\* A commit that returned Err: the runner finalizes once more, as Failed.
Refused(r) ==
    IF r.last THEN Become(r, [r EXCEPT !.pc = "done"])
              ELSE Become(r, [r EXCEPT !.pc = "commit", !.out = "Failed", !.last = TRUE])

\* commit_terminal_projection: the hidden terminal row.
Commit(r) ==
    /\ r.pc = "commit"
    /\ LET x == row[r.task] IN
       \/ /\ can_set_pending(x, r.attempt)
          /\ row' = [row EXCEPT ![r.task] = set_terminal_sequenced_pending(@, r.out)]
          /\ Become(r, [r EXCEPT !.pc = "settle"]) /\ NoFault
       \/ /\ replays_pending(x, r.attempt)
          /\ Become(r, [r EXCEPT !.pc = "settle"]) /\ NoFault /\ UNCHANGED row
       \/ /\ ~can_set_pending(x, r.attempt) /\ ~replays_pending(x, r.attempt)
          /\ Refused(r) /\ NoFault /\ UNCHANGED row
       \/ Fault /\ Refused(r) /\ UNCHANGED row
    /\ UNCHANGED <<summary, batch, tok, flips, submitting, boot, crashes>>

\* Fault: a history that does not answer is taken for evidence.
Settle_unmarked(r) ==
    /\ r.pc = "settle"
    /\ Become(r, [r EXCEPT !.pc = "publish"])
    /\ NoFault
    /\ UNCHANGED <<row, summary, batch, tok, flips, submitting, boot, crashes>>

\* settle_terminal: the summary is ended (or was, by an earlier try); failing that the
\* locator is marked; with neither the projection stays hidden and the commit is an Err.
Settle(r) ==
    /\ r.pc = "settle"
    /\ \/ /\ summary[r.task][r.attempt] # "none"
          /\ summary' = [summary EXCEPT ![r.task][r.attempt] = "ended"]
          /\ Become(r, [r EXCEPT !.pc = "publish"]) /\ NoFault /\ UNCHANGED row
       \/ /\ IF summary[r.task][r.attempt] = "none" THEN NoFault ELSE Fault
          /\ row' = [row EXCEPT ![r.task].marked = TRUE]
          /\ Become(r, [r EXCEPT !.pc = "publish"]) /\ UNCHANGED summary
       \/ Fault /\ Refused(r) /\ UNCHANGED <<row, summary>>
    /\ UNCHANGED <<batch, tok, flips, submitting, boot, crashes>>

\* mark_terminal_projection_ready
Publish(r) ==
    /\ r.pc = "publish"
    /\ \/ /\ row' = [row EXCEPT ![r.task] = mark_terminal_projection_ready(@)]
          /\ Become(r, [r EXCEPT !.pc = "done"]) /\ NoFault
       \/ Fault /\ Refused(r) /\ UNCHANGED row
    /\ UNCHANGED <<summary, batch, tok, flips, submitting, boot, crashes>>

\* The runner takes its token out of workflow_cancels and ends.
End(r) ==
    /\ r.pc = "done"
    /\ runners' = runners \ {r}
    /\ tok' = [tok EXCEPT ![r.task] = "none"]
    /\ UNCHANGED <<row, summary, batch, flips, submitting, boot, faults, crashes>>

Finishing(r) == Commit(r) \/ Settle(r) \/ Publish(r) \/ End(r)
RunnerStep(r) == Checkpoint(r) \/ EndEarly(r) \/ Panic(r) \/ Finishing(r)

-----------------------------------------------------------------------------
(* Cancellation of one task *)

\* Coordinator::cancel_task fires the token if there is one and goes on to flip the row;
\* the server's cancel_admitted_task flips it only if there was none.  A row that reads
\* terminal is left alone by both.
CancelTask(t) ==
    /\ "cancel_task" \in Operations
    /\ boot.phase = "up" /\ public(t) = "Working"
    /\ tok' = [tok EXCEPT ![t] = IF @ = "live" THEN "fired" ELSE @]
    /\ \/ flips' = flips \cup {t}
       \/ tok[t] # "none" /\ UNCHANGED flips
    /\ UNCHANGED <<row, summary, batch, runners, submitting, boot, faults, crashes>>

CancelFlip(t) ==
    /\ t \in flips
    /\ flips' = flips \ {t}
    /\ row' = [row EXCEPT ![t] = cancel_if_working(@)]
    /\ UNCHANGED <<summary, batch, runners, tok, submitting, boot, faults, crashes>>

-----------------------------------------------------------------------------
(* Boot: Coordinator::resume_with_cap.  No client is served before it is over.  A step   *)
(* that cannot finish refuses the boot and the process exits: that is a Crash.            *)

\* settle_pending_terminal_projection: end the summary or mark the locator, and publish.
\* The evidence step is a replay when a crash came between the two.
BootSettle(t) ==
    /\ boot.phase \in {"pending", "checkpoints"} /\ row[t].hidden
    /\ LET a == row[t].attempt IN
       \/ /\ summary[t][a] # "none"
          /\ summary' = [summary EXCEPT ![t][a] = "ended"]
          /\ row' = [row EXCEPT ![t] = mark_terminal_projection_ready(@)] /\ NoFault
       \/ /\ IF summary[t][a] = "none" THEN NoFault ELSE Fault
          /\ row' = [row EXCEPT ![t].hidden = FALSE, ![t].marked = TRUE]
          /\ UNCHANGED summary
    /\ UNCHANGED <<batch, runners, tok, flips, submitting, boot, crashes>>

\* reconcile_terminal_checkpoints: a Working task whose terminal node is checkpointed is
\* committed as that outcome under the attempt that produced it; the durable evidence of a
\* node that was not ok may say that it was canceled.
BootCheckpoint(t) ==
    /\ boot.phase = "checkpoints" /\ working(t) /\ row[t].ck # "none"
    /\ \E s \in {row[t].ck, "Canceled"} :
        /\ s = "Canceled" => row[t].ck = "Failed"
        /\ row' = [row EXCEPT ![t] = set_terminal_sequenced_pending(@, s)]
    /\ UNCHANGED <<summary, batch, runners, tok, flips, submitting, boot, faults, crashes>>

\* Fault: boot goes on with hidden rows and terminal checkpoints left over.
BootReconciled_early ==
    /\ \/ boot.phase = "pending" /\ boot' = [boot EXCEPT !.phase = "checkpoints"]
       \/ boot.phase = "checkpoints" /\ boot' = [boot EXCEPT !.phase = "sweep"]
    /\ UNCHANGED <<storeVars, runners, tok, flips, submitting, faults, crashes>>

\* The reconciliations are over: go on.  Every row is taken to be one the reconciliation can
\* decide: snapshots it cannot decode and candidate chains, which it leaves alone, are left out.
BootReconciled ==
    /\ \A t \in Task : ~row[t].hidden
    /\ \/ boot.phase = "pending" /\ boot' = [boot EXCEPT !.phase = "checkpoints"]
       \/ /\ boot.phase = "checkpoints" /\ \A t \in Task : working(t) => row[t].ck = "none"
          /\ boot' = [boot EXCEPT !.phase = "sweep"]
    /\ UNCHANGED <<storeVars, runners, tok, flips, submitting, faults, crashes>>

\* Fault: the sweep of active summaries is skipped.
BootSweep_skipped ==
    /\ boot.phase = "sweep"
    /\ boot' = [boot EXCEPT !.phase = "orphans"]
    /\ UNCHANGED <<storeVars, runners, tok, flips, submitting, faults, crashes>>

\* terminal_attempts_with_telemetry_markers and interrupt_active_excluding: every summary
\* still active is ended, but for those of terminal tasks that carry a marker.
BootSweep ==
    /\ boot.phase = "sweep"
    /\ summary' = [t \in Task |-> [a \in Attempt |->
          IF /\ summary[t][a] = "active"
             /\ ~(settled(t) /\ row[t].marked /\ row[t].attempt = a)
          THEN "ended" ELSE summary[t][a]]]
    /\ boot' = [boot EXCEPT !.phase = "orphans"]
    /\ UNCHANGED <<row, batch, runners, tok, flips, submitting, faults, crashes>>

\* resume_one_working_task and resumed_child_future: the resume claim advances the attempt
\* of a task that is still Working.
ResumeClaims(t) ==
    /\ working(t) /\ row[t].ck = "none" /\ ~resume_exhausted(row[t])
    /\ row' = [row EXCEPT ![t] = resume_attempt(@)] /\ NoFault

\* The exits before and at the claim.  resumed_child_future writes a terminal checkpoint
\* through, whatever the row's status is by now; an exhausted cap, or a snapshot that cannot
\* be used, interrupts the task; a store call that fails, or a claim that is lost, leaves it.
ResumeGivesUp(t) ==
    LET written == set_terminal_sequenced(row[t], IF row[t].ck = "none" THEN "Interrupted"
                                                                       ELSE row[t].ck)
        must == row[t].ck # "none" \/ (working(t) /\ resume_exhausted(row[t]))
    IN  /\ \E x \in {row[t], written} :
            /\ must => x = written
            /\ row' = [row EXCEPT ![t] = x]
        /\ IF must \/ ~working(t) THEN NoFault ELSE Fault

\* resume_non_batch_tasks: the Working tasks read once, then each in turn.  A row that no
\* longer reads Working, or has a terminal checkpoint after all, is left alone.
BootSoloClaim(t) ==
    /\ boot.phase = "solo" /\ boot.claimed = NoTask /\ t \in boot.todo
    /\ \/ /\ ResumeClaims(t)
          /\ boot' = [boot EXCEPT !.todo = @ \ {t}, !.claimed = t]
       \/ /\ IF public(t) = "Working" /\ row[t].ck = "none"
             THEN ResumeGivesUp(t) ELSE NoFault /\ UNCHANGED row
          /\ boot' = [boot EXCEPT !.todo = @ \ {t}]
    /\ UNCHANGED <<summary, batch, runners, tok, flips, submitting, crashes>>

\* The reservation, the token and the runner, as in SubmitSpawn.  Giving the task up here, after
\* an invalid reservation, differs from BootSoloClaim's giving up in the attempt's number only.
BootSoloSpawn(t) ==
    /\ boot.phase = "solo" /\ boot.claimed = t
    /\ boot' = [boot EXCEPT !.claimed = NoTask]
    /\ reserve(t)
    /\ tok' = [tok EXCEPT ![t] = "live"]
    /\ spawn(t)
    /\ UNCHANGED <<batch, flips, submitting, crashes>>

BootTask(t) ==
    BootSettle(t) \/ BootCheckpoint(t) \/ BootSoloClaim(t) \/ BootSoloSpawn(t)
=============================================================================
