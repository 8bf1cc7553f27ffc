----------------------------- MODULE TaskStore -----------------------------
(***************************************************************************)
(* The durable rows of bridge-store (sqlite.rs), behind the task store     *)
(* port of bridge-core: one row per task, one row per batch and the        *)
(* summary of each attempt in the workflow history.  Every store call is   *)
(* one SQLite transaction, so each operator here is one atomic step of     *)
(* its caller; a call that returns Err leaves the row as it was.           *)
(*                                                                         *)
(* The result, the error text, the journal and the sequence numbers of a   *)
(* row are left out, and so is its input.  ck stands for the checkpoint of *)
(* the workflow's terminal node, the only one recovery decides on.         *)
(***************************************************************************)
EXTENDS Naturals, FiniteSets

CONSTANTS
    Solo,       \* tasks submitted on their own
    Batch,      \* batches
    Items,      \* the tasks of each batch, one per item of its plan
    Cap         \* resume_attempt_cap

Task == Solo \cup UNION {Items[b] : b \in Batch}

\* Attempt ordinals: the first one and at most Cap resumed ones.
Attempt == 1 .. Cap + 1

ASSUME StoreAssumption ==
    /\ Cap \in Nat
    /\ IsFiniteSet(Solo) /\ IsFiniteSet(Batch)
    /\ \A b \in Batch : IsFiniteSet(Items[b]) /\ Items[b] # {} /\ Items[b] \cap Solo = {}
    /\ \A b, c \in Batch : b # c => Items[b] \cap Items[c] = {}

VARIABLES
    row,        \* tasks and task_attempt_locators
    summary,    \* the attempts' history summaries
    batch       \* batch statuses

storeVars == <<row, summary, batch>>

TerminalStatus == {"Completed", "Failed", "Canceled", "Interrupted"}
TaskStatus == {"none", "Working"} \cup TerminalStatus
BatchStatus == {"none", "Working", "Canceling", "Completed", "Canceled", "Failed"}
RowRecord ==
    [status: TaskStatus,        \* tasks.status
     hidden: BOOLEAN,           \* terminal_projection_ready = 0
     attempt: 0 .. Cap + 1,     \* the ordinal of the attempt locator
     marked: BOOLEAN,           \* the locator's telemetry_unavailable
     ck: {"none", "Completed", "Failed"}]

NoRow == [status |-> "none", hidden |-> FALSE, attempt |-> 0, marked |-> FALSE, ck |-> "none"]

\* create_with_attempt_locator, claim_batch_child_with_locator: the row of a fresh task.
NewRow == [NoRow EXCEPT !.status = "Working", !.attempt = 1]

-----------------------------------------------------------------------------
(* Reads *)

\* project_task_record: a terminal row whose evidence is pending still reads Working.
public(t) == IF row[t].hidden THEN "Working" ELSE row[t].status

settled(t) == public(t) \in TerminalStatus

\* working_tasks reads the raw status.
working(t) == row[t].status = "Working"

active(b) == batch[b] \in {"Working", "Canceling"}

\* summarize_batch and is_settleable: the status a reader may settle the batch to.
Settleable(b, s) ==
    \/ /\ batch[b] = "Working" /\ s = "Completed"
       /\ \A t \in Items[b] : settled(t)
    \/ /\ batch[b] = "Canceling" /\ s = "Canceled"
       /\ \A t \in Items[b] : public(t) # "Working"

-----------------------------------------------------------------------------
(* Writes: what a call makes of the row it is given *)

\* set_terminal_sequenced: refused while a projection is pending; an interruption
\* also wants the row Working, every other status is written unconditionally.
set_terminal_sequenced(r, s) ==
    IF r.status # "none" /\ ~r.hidden /\ (s = "Interrupted" => r.status = "Working")
    THEN [r EXCEPT !.status = s]
    ELSE r

\* Fault: the pending write does not ask for a Working row.
can_set_pending_anyway(r, a) == r.status # "none" /\ ~r.hidden /\ r.attempt = a

\* set_terminal_sequenced_pending: a first write needs the row Working, visible and on
\* the caller's attempt.
can_set_pending(r, a) == r.status = "Working" /\ ~r.hidden /\ r.attempt = a
set_terminal_sequenced_pending(r, s) == [r EXCEPT !.status = s, !.hidden = TRUE]

\* The replay of a pending write is accepted when it is identical.  The retry of a runner
\* carries no result and an error of its own, so it only repeats a cancellation exactly.
replays_pending(r, a) == r.hidden /\ r.attempt = a /\ r.status = "Canceled"

\* mark_terminal_projection_ready
mark_terminal_projection_ready(r) == [r EXCEPT !.hidden = FALSE]

cancel_if_working(r) == IF r.status = "Working" THEN [r EXCEPT !.status = "Canceled"] ELSE r

\* claim_resume_attempt_with_locator: the next ordinal, under a fresh locator.
resume_attempt(r) == [r EXCEPT !.attempt = @ + 1, !.marked = FALSE]

\* Fault: the cap is off by one.
resume_exhausted_late(r) == r.attempt > Cap + 1

\* The cap on resumed attempts, which bounds how often a task may crash the server.
resume_exhausted(r) == r.attempt > Cap

-----------------------------------------------------------------------------
(* Batch rows *)

\* cancel_batch_if_working
cancel_batch_if_working(b) ==
    batch' = [batch EXCEPT ![b] = IF @ = "Working" THEN "Canceling" ELSE @]

\* settle_batch_if_status, fail_batch_if_status: compare and set.
settle_batch_if_status(b, expected, s) ==
    batch' = [batch EXCEPT ![b] = IF @ = expected THEN s ELSE @]
=============================================================================
