------------------------------ MODULE Scheduler ------------------------------
(***************************************************************************)
(* The scheduling loop of one workflow run (bridge-workflow, executor.rs)  *)
(* with the arbitration of its wake-up arms (scheduler_arbitration.rs),    *)
(* the fan-out controller (fanout.rs) and the fixed-grace timer.           *)
(*                                                                         *)
(* The loop is one task: a step below ends where it awaits, or where a     *)
(* cancellation from outside, seen or not, makes a difference.  Text,      *)
(* usage and identities are left out; a timed-out node counts as Failed;   *)
(* the no-progress warning changes nothing here but the moment it is due.  *)
(***************************************************************************)
EXTENDS Naturals, FiniteSets, FiniteSetsExt

CONSTANTS
    Node,           \* the graph's nodes, in the order of their ids
    Inputs,         \* Inputs[n]: the nodes n takes its inputs from
    Checkout,       \* nodes that run in a materialized checkout
    Configs,        \* the frozen controls a run may have
    Outcomes        \* what run_node may return

NoNode == 0

Modes == {"legacy", "manual", "automatic"}
Policies == {"independent", "fail_fast", "fixed_grace"}
AllConfigs == [mode: Modes, policy: Policies, synthesis: {"strict", "degraded"}]

\* The nodes no other takes an input from; the terminal node is the only one.
Sinks == {n \in Node : \A m \in Node : n \notin Inputs[m]}
Terminal == CHOOSE n \in Sinks : TRUE

\* WorkflowGraph::validate: inputs name nodes, no cycle, one terminal node.
ASSUME GraphAssumption ==
    /\ Node \subseteq Nat \ {NoNode} /\ IsFiniteSet(Node) /\ Inputs \in [Node -> SUBSET Node]
    /\ \E rank \in [Node -> 1 .. Cardinality(Node)] :
          \A n \in Node : \A m \in Inputs[n] : rank[m] < rank[n]
    /\ Cardinality(Sinks) = 1
    /\ Checkout \subseteq Node /\ Configs \subseteq AllConfigs
    /\ Outcomes \subseteq {"Completed", "Failed", "Canceled", "Refused", "Err"}

VARIABLES
    cfg,        \* the run's frozen controls
    pc,         \* where the loop is
    st,         \* a node's place: idle, running, skipping, ready, processed, retained, done
    result,     \* what a node returned; its terminal once it is processed
    fired,      \* nodes whose own token was cancelled
    terminalized,   \* nodes whose terminalizer was cancelled
    cancel,     \* the workflow's token
    external,   \* it was cancelled from outside
    root,       \* root_cancellation_primary
    cause,      \* cancellation_primaries
    ctl,        \* the fan-out controller and the fixed-grace timer
    bar,        \* durable_trigger_barrier, its acknowledgement, barrier_selected_evidence
    evidence,   \* what a node's NodeFinished carries
    stop,       \* stop_scheduling
    observed,   \* observed_arms
    time,       \* the clock against the cutoff, the grace and the cleanup deadline
    budget,     \* budget_failure
    degraded,   \* scheduled_degraded_ancestry
    wake,       \* the arm selected, the cancellation seen before the wait, the late nodes
    outcome     \* the run's outcome and what becomes of its checkouts

nodeVars == <<st, result, fired, terminalized, cause, evidence, degraded>>
vars == <<cfg, pc, st, result, fired, terminalized, cancel, external, root, cause, ctl, bar,
          evidence, stop, observed, time, budget, degraded, wake, outcome>>

Frozen == cfg.mode # "legacy"
Active == cfg.mode = "automatic"

At(s) == {n \in Node : st[n] = s}
Inflight == At("running") \cup At("skipping")
Done == At("done")

\* node_cancels: a skipped node never has a token, a ready one loses it when processed.
NodeCancels == {n \in At("running") \cup At("ready") : result[n] # "SkippedDependency"}

Raw == {"Completed", "Failed", "Canceled", "Refused", "Err", "SkippedDependency"}
Terminals == {"Completed", "CompletedDegraded", "Failed", "CanceledNode", "CanceledPolicy",
              "CanceledWorkflow", "SkippedDependency", "NotStartedPolicy"}
Arms == {"drain", "ack", "cancel", "grace", "cutoff", "impossible", "wait"}
Ended == pc \in {"ended", "error"}

TypeOK ==
    /\ cfg \in Configs
    /\ pc \in {"top", "wait", "act", "process", "inline", "publish", "finish", "ended",
               "error", "broken"}
    /\ st \in [Node -> {"idle", "running", "skipping", "ready", "processed", "retained", "done"}]
    /\ result \in [Node -> Raw \cup Terminals \cup {"none"}]
    /\ fired \subseteq Node /\ terminalized \subseteq Node /\ degraded \subseteq Node
    /\ cancel \in BOOLEAN /\ external \in BOOLEAN /\ stop \in BOOLEAN /\ budget \in BOOLEAN
    /\ root \in {"none", "CanceledWorkflow", "CanceledPolicy"}
    /\ cause \in [Node -> {"none", "CanceledWorkflow", "CanceledPolicy"}]
    /\ ctl \in [trigger: Node \cup {NoNode}, pending: BOOLEAN, stopped: BOOLEAN,
                armed: BOOLEAN, expired: BOOLEAN, timer: {"unarmed", "armed", "fired"}]
    /\ bar \in [pending: BOOLEAN, ack: {"none", "committed", "failed"}, held: Node \cup {NoNode}]
    /\ evidence \in [Node -> {"none", "terminal", "trigger"}]
    /\ observed \subseteq {"cancel", "cutoff", "impossible"}
    /\ time \in [clock: {"before", "reached"}, grace: {"none", "set", "due"},
                 cleanup: {"none", "armed"}]
    /\ wake \in [arm: Arms, snap: BOOLEAN, late: SUBSET Node]
    /\ outcome \in [run: {"none", "Completed", "CompletedDegraded", "Failed", "Canceled"},
                    checkouts: {"none", "delete", "keep"}]

-----------------------------------------------------------------------------
(* Cancellation: what the loop has seen, and whom it blames *)

Record(causes, nodes, primary) ==
    [n \in Node |-> IF n \in nodes /\ causes[n] = "none" THEN primary ELSE causes[n]]

\* observe_external_root_cancellation!, for the cancellation c that was read.
RootSeen(c) == IF c /\ root = "none" THEN "CanceledWorkflow" ELSE root
CauseSeen(c) == IF c /\ root = "none" THEN Record(cause, NodeCancels, "CanceledWorkflow")
                ELSE cause

\* arm_scheduler_cleanup!
ArmCleanup(t) == IF t.cleanup = "none" THEN [t EXCEPT !.cleanup = "armed"] ELSE t

\* Fault: the grace is written where the cleanup deadline belongs.
ArmGrace_swapped(t) == [t EXCEPT !.cleanup = "set"]

\* The grace runs from the acknowledgement.
ArmGrace(t) == [t EXCEPT !.grace = "set"]

\* scheduler_impossibility_proof_v1: every route is closed and the terminal node has no result.
\* A refused budget mints no proof.
Impossible == /\ Active /\ ~budget /\ "impossible" \notin observed
              /\ stop /\ NodeCancels = {} /\ Terminal \notin Done

CutoffReached(t) == t.clock = "reached" /\ "cutoff" \notin observed

-----------------------------------------------------------------------------
(* schedule_ready! *)

\* The nodes whose inputs are all done, unless scheduling has stopped.
Schedulable(stopped, done) ==
    IF stopped THEN {} ELSE {n \in At("idle") : Inputs[n] \subseteq done}

\* Under strict synthesis a node is skipped over an input that did not complete; under
\* degraded synthesis it runs with that failure as its input, and is marked.
Unhealthy(n) == {m \in Inputs[n] : result[m] \notin {"Completed", "CompletedDegraded"}}
Skipped(n) == Frozen /\ cfg.synthesis = "strict" /\ Unhealthy(n) # {}
Marked(n) == /\ Frozen /\ cfg.synthesis = "degraded"
             /\ \E m \in Inputs[n] : result[m] # "Completed"

\* schedule_ready!, after the nodes in done were published.
Schedule(stopped, done) ==
    LET new == Schedulable(stopped, done) IN
    /\ st' = [n \in Node |-> IF n \in new THEN IF Skipped(n) THEN "skipping" ELSE "running"
                             ELSE IF n \in done THEN "done" ELSE st[n]]
    /\ result' = [n \in Node |-> IF n \in new /\ Skipped(n) THEN "SkippedDependency"
                                 ELSE result[n]]
    /\ degraded' = degraded \cup {n \in new : ~Skipped(n) /\ Marked(n)}

Init ==
    /\ cfg \in Configs /\ cancel \in BOOLEAN /\ external = cancel
    /\ pc = "top"
    /\ st = [n \in Node |-> IF Inputs[n] = {} THEN "running" ELSE "idle"]
    /\ result = [n \in Node |-> "none"]
    /\ fired = {} /\ terminalized = {} /\ degraded = {}
    /\ root = (IF cancel THEN "CanceledWorkflow" ELSE "none")
    /\ cause = [n \in Node |-> "none"]
    /\ ctl = [trigger |-> NoNode, pending |-> FALSE, stopped |-> FALSE, armed |-> FALSE,
              expired |-> FALSE, timer |-> "unarmed"]
    /\ bar = [pending |-> FALSE, ack |-> "none", held |-> NoNode]
    /\ evidence = [n \in Node |-> "none"]
    /\ stop = FALSE /\ observed = {} /\ budget = FALSE
    /\ time = [clock |-> "before", grace |-> "none", cleanup |-> "none"]
    /\ wake = [arm |-> "drain", snap |-> FALSE, late |-> {}]
    /\ outcome = [run |-> "none", checkouts |-> "none"]

-----------------------------------------------------------------------------
(* The loop: its top, the biased select, the arbitration *)

\* Fault: an acknowledgement not yet taken is forgotten.
Over_unacknowledged == /\ Inflight = {} /\ ~bar.pending /\ At("retained") = {}

\* The loop is over when nothing is in flight, awaited or retained.
Over == /\ Inflight = {} /\ ~bar.pending /\ bar.ack = "none" /\ At("retained") = {}

\* The top of the loop: look for a cancellation, drop the deadlines of an empty table, and
\* leave or wait.
Top ==
    /\ pc = "top"
    /\ root' = RootSeen(cancel) /\ cause' = CauseSeen(cancel)
    /\ time' = IF NodeCancels = {} THEN [time EXCEPT !.cleanup = "none", !.grace = "none"]
               ELSE time
    /\ IF Over THEN pc' = "finish" /\ UNCHANGED wake
       ELSE pc' = "wait" /\ wake' = [wake EXCEPT !.snap = cancel]
    /\ UNCHANGED <<cfg, st, result, fired, terminalized, cancel, external, ctl, bar, evidence,
                   stop, observed, budget, degraded, outcome>>

\* The first arm of SCHEDULER_ARM_PRIORITY_V1 that is ready, when these completions were ready
\* in time.
Winner(ontime, ack, t) ==
    CASE ontime # {} -> "drain"
      [] ontime = {} /\ ack # "none" -> "ack"
      [] ontime = {} /\ ack = "none" /\ cancel /\ "cancel" \notin observed -> "cancel"
      [] OTHER -> IF t.grace = "due" THEN "grace" ELSE "cutoff"

\* The nodes a cutoff that ties with the winner cancels.
CutoffCancels(ontime) == NodeCancels \ ontime

\* arbitrate_ready_batch_v1: the batch is split at the cutoff, and a cutoff that was reached
\* cancels what is not in the winning batch.
Arbitrate(batch, late, ack, t) ==
    LET ontime == batch \ late
        winner == Winner(ontime, ack, t)
        applied == CutoffReached(t) /\ winner \in {"drain", "cutoff"}
        hit == IF applied THEN CutoffCancels(ontime) ELSE {}
    IN
    /\ wake' = [wake EXCEPT !.arm = winner, !.late = late]
    /\ cause' = Record(CauseSeen(cancel), hit, "CanceledPolicy")
    /\ fired' = fired \cup hit
    /\ observed' = IF applied THEN observed \cup {"cutoff"} ELSE observed
    /\ stop' = (stop \/ applied)
    /\ time' = IF applied THEN ArmCleanup(t) ELSE t

\* Nodes are ready: every one that is goes into the batch.  The barrier is polled once more.
\* A node is stamped when it is polled, and the cutoff may be reached meanwhile: then some of
\* the batch is in time, at the cutoff or before, and some of it late.
WakeCompletion ==
    /\ pc = "wait"
    /\ \E batch \in (SUBSET Inflight) \ {{}}, ack \in {"none", "committed", "failed"} :
          /\ \E out \in [batch -> Outcomes] :
                result' = [n \in Node |-> IF n \in batch /\ st[n] = "running" THEN out[n]
                                          ELSE result[n]]
          /\ bar.ack # "none" => ack = bar.ack
          /\ ~bar.pending => ack = bar.ack
          /\ bar' = [bar EXCEPT !.ack = ack, !.pending = @ /\ ack = "none"]
          /\ st' = [n \in Node |-> IF n \in batch THEN "ready" ELSE st[n]]
          /\ root' = RootSeen(cancel)
          /\ IF Active
             THEN \E c \in {time.clock, "reached"}, late \in SUBSET batch :
                     LET t == [time EXCEPT !.clock = c] IN
                     /\ late # {} => CutoffReached(t)
                     /\ Arbitrate(batch, late, ack, t)
             ELSE /\ wake' = [wake EXCEPT !.arm = "drain"]
                  /\ cause' = CauseSeen(cancel)
                  /\ UNCHANGED <<fired, observed, stop, time>>
    /\ pc' = "act"
    /\ UNCHANGED <<cfg, terminalized, cancel, external, ctl, evidence, budget, degraded, outcome>>

\* Fault: the cutoff is looked at only when a node completes.
ArmReady_passive(a) ==
    CASE a = "ack" -> bar.pending \/ bar.ack # "none"
      [] a = "cancel" -> cancel /\ "cancel" \notin observed
      [] a = "grace" -> time.grace = "due"
      [] a = "impossible" -> Impossible
      [] a = "wait" -> time.cleanup # "none"
      [] OTHER -> FALSE

\* Arm a of scheduler_select_v1! is ready.  The barrier answers when it does.  The last arm
\* waits for the cleanup deadline, and for every other one: it may also win on the boundary
\* of a warning, which its own reading of the clock reaches first.
ArmReady(a) ==
    CASE a = "ack" -> bar.pending \/ bar.ack # "none"
      [] a = "cancel" -> cancel /\ "cancel" \notin observed
      [] a = "grace" -> time.grace = "due"
      [] a = "cutoff" -> CutoffReached(time)
      [] a = "impossible" -> Impossible
      [] a = "wait" -> time.cleanup # "none"
      [] OTHER -> FALSE

\* The select is biased: an arm that was ready before the wait is taken before a later one.
Rank(a) == CASE a = "ack" -> 1 [] a = "cancel" -> 2 [] a = "grace" -> 3 [] a = "cutoff" -> 4
             [] a = "impossible" -> 5 [] a = "wait" -> 6 [] OTHER -> 0
Certain(a) == ArmReady(a) /\ (a = "ack" => bar.ack # "none") /\ (a = "cancel" => wake.snap)

WakeControl(a) ==
    /\ pc = "wait" /\ Active /\ ArmReady(a)
    /\ \A b \in Arms : Rank(b) < Rank(a) => ~Certain(b)
    /\ IF a = "ack" /\ bar.pending
       THEN \E r \in {"committed", "failed"} : bar' = [bar EXCEPT !.pending = FALSE, !.ack = r]
       ELSE UNCHANGED bar
    /\ wake' = [wake EXCEPT !.arm = a]
    /\ pc' = "act"
    /\ UNCHANGED <<cfg, nodeVars, cancel, external, root, ctl, stop, observed, time, budget,
                   outcome>>

-----------------------------------------------------------------------------
(* What the selected arm does *)

\* acknowledge_barrier, when the acknowledgement is r and a cancellation was seen (c).
AckAction(r, c) ==
    CASE ~ctl.pending -> "none"
      [] ctl.pending /\ (c \/ r = "failed") -> "global"
      [] OTHER -> [independent |-> "none", fail_fast |-> "siblings", fixed_grace |-> "grace"][cfg.policy]

Acknowledged(action) ==
    [ctl EXCEPT !.pending = FALSE, !.armed = @ \/ action = "grace",
                !.timer = IF action = "grace" /\ Active THEN "armed" ELSE @]

\* Fault: the loop cancels the workflow's token without leaving its own mark.
Perform_unmarked(action) ==
    /\ root' = RootSeen(cancel)
    /\ cause' = IF action \in {"siblings", "global"}
                THEN Record(CauseSeen(cancel), NodeCancels, "CanceledPolicy")
                ELSE CauseSeen(cancel)
    /\ fired' = IF action = "siblings" THEN fired \cup NodeCancels ELSE fired
    /\ cancel' = (cancel \/ action = "global")
    /\ ctl' = Acknowledged(action)

\* The action of an acknowledgement: cancel the siblings, or the workflow and so all of them.
Perform(action) ==
    /\ root' = IF action = "global" /\ RootSeen(cancel) = "none" THEN "CanceledPolicy"
               ELSE RootSeen(cancel)
    /\ cause' = IF action \in {"siblings", "global"}
                THEN Record(CauseSeen(cancel), NodeCancels, "CanceledPolicy")
                ELSE CauseSeen(cancel)
    /\ fired' = IF action = "siblings" THEN fired \cup NodeCancels ELSE fired
    /\ cancel' = (cancel \/ action = "global")
    /\ ctl' = Acknowledged(action)

\* Without a batch and without retained nodes the loop starts over.
AfterArm == IF At("ready") = {} /\ At("retained") = {} THEN "top" ELSE "process"
Taken == [wake EXCEPT !.arm = "drain"]

ActDrain ==
    /\ pc = "act" /\ wake.arm = "drain"
    /\ pc' = AfterArm
    /\ wake' = Taken
    /\ UNCHANGED <<cfg, nodeVars, cancel, external, root, ctl, bar, stop, observed, time, budget,
                   outcome>>

\* The acknowledgement completes the evidence of the trigger's node, if it still is retained:
\* what is added for a node that was published is never read.
ActAck ==
    LET action == AckAction(bar.ack, cancel) IN
    /\ pc = "act" /\ wake.arm = "ack"
    /\ Perform(action)
    /\ bar' = [pending |-> bar.pending, ack |-> "none", held |-> NoNode]
    /\ evidence' = [n \in Node |-> IF n = bar.held /\ st[n] = "retained" THEN "trigger"
                                   ELSE evidence[n]]
    /\ time' = CASE action \in {"siblings", "global"} -> ArmCleanup(time)
                 [] action = "grace" -> ArmGrace(time)
                 [] OTHER -> time
    /\ pc' = IF action = "grace" /\ ctl.timer # "unarmed" THEN "broken" ELSE AfterArm
    /\ wake' = Taken
    /\ UNCHANGED <<cfg, st, result, terminalized, external, stop, observed, budget, degraded, outcome>>

\* A cancellation, the cutoff or an impossible result: stop, and cancel every running node.
ActStop ==
    LET primary == IF wake.arm = "cancel" THEN "CanceledWorkflow" ELSE "CanceledPolicy" IN
    /\ pc = "act" /\ wake.arm \in {"cancel", "cutoff", "impossible"}
    /\ observed' = observed \cup {wake.arm}
    /\ stop' = TRUE
    /\ time' = ArmCleanup(time)
    /\ cause' = Record(cause, NodeCancels, primary)
    /\ root' = IF wake.arm = "cancel" /\ NodeCancels # {} /\ root = "none"
               THEN "CanceledWorkflow" ELSE root
    /\ fired' = fired \cup NodeCancels
    /\ pc' = AfterArm
    /\ wake' = Taken
    /\ UNCHANGED <<cfg, st, result, terminalized, cancel, external, ctl, bar, evidence, budget,
                   degraded, outcome>>

\* expire_manual_grace and the timer: siblings are cancelled once.
ActGrace ==
    /\ pc = "act" /\ wake.arm = "grace"
    /\ time' = ArmCleanup([time EXCEPT !.grace = "none"])
    /\ IF ctl.timer # "armed" \/ ~ctl.armed \/ ctl.expired
       THEN pc' = "broken" /\ UNCHANGED <<ctl, cause, fired>>
       ELSE /\ ctl' = [ctl EXCEPT !.timer = "fired", !.expired = TRUE]
            /\ cause' = Record(cause, NodeCancels, "CanceledPolicy")
            /\ fired' = fired \cup NodeCancels
            /\ pc' = AfterArm
    /\ wake' = Taken
    /\ UNCHANGED <<cfg, st, result, terminalized, cancel, external, root, bar, evidence, stop,
                   observed, budget, degraded, outcome>>

\* The cleanup deadline: the checkouts of the nodes still running are preserved and their
\* cleanup is transferred, where the backend finds it due.  A node whose cleanup was
\* transferred need not return.
ActWait ==
    /\ pc = "act" /\ wake.arm = "wait"
    /\ time' = [time EXCEPT !.cleanup = "none"]
    /\ \/ /\ \E due \in SUBSET (NodeCancels \cap Checkout) : terminalized' = terminalized \cup due
          /\ root' = RootSeen(cancel) /\ cause' = CauseSeen(cancel)
          /\ pc' = AfterArm
       \/ /\ "Err" \in Outcomes /\ NodeCancels \cap Checkout # {}
          /\ pc' = "error" /\ UNCHANGED <<terminalized, root, cause>>
    /\ wake' = Taken
    /\ UNCHANGED <<cfg, st, result, fired, cancel, external, ctl, bar, evidence, stop, observed,
                   budget, degraded, outcome>>

-----------------------------------------------------------------------------
(* The batch: each completion becomes a terminal, then the controller looks at all of them *)

\* The primary disposition of a canceled node.
CanceledPrimary(n) ==
    IF cause[n] # "none" THEN cause[n]
    ELSE IF RootSeen(cancel) = "CanceledWorkflow" THEN "CanceledWorkflow" ELSE "CanceledNode"

\* The disposition of a completion: Canceled past the cutoff whatever the node returned.
Disposition(n) ==
    CASE n \in wake.late -> "Canceled"
      [] n \notin wake.late /\ result[n] = "Refused" -> "Failed"
      [] n \notin wake.late /\ result[n] = "Completed" /\ n \in degraded -> "CompletedDegraded"
      [] OTHER -> result[n]

\* One completion, the first by id.  The token it had is gone before a cancellation is looked for.
ProcessNode ==
    LET n == Min(At("ready"))
        canceled == Disposition(n) = "Canceled"
        others == NodeCancels \ {n}
    IN
    /\ pc = "process" /\ At("ready") # {}
    /\ IF result[n] = "Err" THEN pc' = "error" /\ UNCHANGED <<st, result, root, cause, stop, budget>>
       ELSE /\ budget' = (budget \/ result[n] = "Refused")
            /\ stop' = (stop \/ budget')
            /\ root' = IF canceled THEN RootSeen(cancel) ELSE root
            /\ cause' = IF canceled /\ cancel /\ root = "none"
                        THEN Record(cause, others, "CanceledWorkflow") ELSE cause
            /\ result' = [result EXCEPT ![n] = IF canceled THEN CanceledPrimary(n)
                                               ELSE Disposition(n)]
            /\ st' = [st EXCEPT ![n] = "processed"]
            /\ UNCHANGED pc
    /\ degraded' = degraded \ {n} /\ fired' = fired \ {n} /\ terminalized' = terminalized \ {n}
    /\ wake' = [wake EXCEPT !.late = @ \ {n}]
    /\ UNCHANGED <<cfg, cancel, external, ctl, bar, evidence, observed, time, outcome>>

\* finalize_ready_batch: the first failure of a batch is the trigger, unless there is one, the
\* policy has none, or the workflow was canceled before the wait.
Trigger(batch) ==
    LET failed == {n \in batch : result[n] = "Failed"} IN
    IF wake.snap \/ ctl.trigger # NoNode \/ cfg.policy = "independent" \/ failed = {}
    THEN NoNode ELSE Min(failed)

Retain(pending) ==
    /\ st' = [n \in Node |-> IF st[n] = "processed" THEN "retained" ELSE st[n]]
    /\ pc' = IF pending THEN "top" ELSE "publish"

\* The batch is processed.  A trigger's barrier is started, and awaited here unless the
\* scheduler is active: then it holds back everything retained until it answers.
Finalize ==
    LET batch == At("processed")
        governed == Frozen /\ ~budget /\ batch # {}
        n == IF governed THEN Trigger(batch) ELSE NoNode
    IN
    /\ pc = "process" /\ At("ready") = {}
    /\ ctl' = IF n # NoNode THEN [ctl EXCEPT !.trigger = n, !.pending = TRUE, !.stopped = TRUE]
              ELSE [ctl EXCEPT !.stopped = @ \/ (governed /\ wake.snap)]
    /\ stop' = (stop \/ (governed /\ ctl'.stopped))
    /\ evidence' = [m \in Node |-> IF m \in batch /\ Frozen /\ ~(Active /\ m = n) THEN "terminal"
                                   ELSE evidence[m]]
    /\ IF n # NoNode /\ Active
       THEN IF bar.pending THEN pc' = "broken" /\ UNCHANGED <<bar, st>>
            ELSE /\ bar' = [bar EXCEPT !.pending = TRUE, !.held = n]
                 /\ Retain(TRUE)
       ELSE IF n # NoNode
            THEN pc' = "inline" /\ UNCHANGED <<bar, st>>
            ELSE Retain(bar.pending) /\ UNCHANGED bar
    /\ wake' = [wake EXCEPT !.snap = FALSE]
    /\ UNCHANGED <<cfg, result, fired, terminalized, cancel, external, root, cause, observed, time,
                   budget, degraded, outcome>>

\* The barrier of a run without the active scheduler, awaited in place.
InlineBarrier ==
    /\ pc = "inline"
    /\ \E r \in {"committed", "failed"} : Perform(AckAction(r, cancel))
    /\ evidence' = [evidence EXCEPT ![ctl.trigger] = "trigger"]
    /\ Retain(FALSE)
    /\ UNCHANGED <<cfg, result, terminalized, external, bar, stop, observed, time, budget,
                   degraded, wake, outcome>>

\* Fault: only a cancellation stops scheduling, whatever stopped it before.
Publish_resumes ==
    /\ pc = "publish"
    /\ root' = RootSeen(cancel) /\ cause' = CauseSeen(cancel)
    /\ stop' = cancel
    /\ Schedule(stop', Done \cup At("retained"))
    /\ pc' = "top"
    /\ UNCHANGED <<cfg, fired, terminalized, cancel, external, ctl, bar, evidence, observed, time,
                   budget, wake, outcome>>

\* NodeFinished for everything retained, then the nodes this makes ready.
Publish ==
    /\ pc = "publish"
    /\ root' = RootSeen(cancel) /\ cause' = CauseSeen(cancel)
    /\ stop' = (stop \/ cancel)
    /\ Schedule(stop', Done \cup At("retained"))
    /\ pc' = "top"
    /\ UNCHANGED <<cfg, fired, terminalized, cancel, external, ctl, bar, evidence, observed, time,
                   budget, wake, outcome>>

\* The terminal of a node that never started; none where the loop cannot say why.
MissingTerminal ==
    CASE RootSeen(cancel) = "CanceledWorkflow" -> "CanceledWorkflow"
      [] RootSeen(cancel) # "CanceledWorkflow"
           /\ (budget \/ observed \cap {"cutoff", "impossible"} # {}
                 \/ (ctl.stopped /\ ctl.trigger # NoNode)) -> "NotStartedPolicy"
      [] OTHER -> "none"

\* The outcome: the terminal node's, or what the other nodes say when it has none.
RunOutcome(final) ==
    CASE budget -> "Failed"
      [] ~budget /\ final[Terminal] \in {"Completed", "CompletedDegraded"} -> final[Terminal]
      [] ~budget /\ final[Terminal] \in {"CanceledNode", "CanceledPolicy", "CanceledWorkflow"} -> "Canceled"
      [] OTHER -> IF /\ final[Terminal] = "none" /\ cancel
                     /\ \A n \in Node : final[n] \notin {"Failed", "SkippedDependency", "NotStartedPolicy"}
                  THEN "Canceled" ELSE "Failed"

\* workflow_checkout_outcome: the checkouts go only after an all-healthy run whose cleanup is
\* complete or was not needed.
CheckoutOutcome(run, final, clean) ==
    IF run = "Completed" /\ clean /\ ~cancel /\ \A n \in Node : final[n] \in {"Completed", "none"}
    THEN "delete" ELSE "keep"

\* After the loop: a terminal for every node without one, then the cleanup, which may fail, and
\* the outcome.
Finish ==
    LET missing == IF Frozen \/ budget THEN At("idle") ELSE {}
        final == [n \in Node |-> IF n \in missing THEN MissingTerminal ELSE result[n]]
        run == RunOutcome(final)
    IN
    /\ pc = "finish"
    /\ root' = RootSeen(cancel) /\ cause' = CauseSeen(cancel)
    /\ IF missing # {} /\ MissingTerminal = "none"
       THEN pc' = "broken" /\ UNCHANGED <<st, result, evidence, outcome>>
       ELSE /\ pc' = "ended"
            /\ result' = final
            /\ st' = [n \in Node |-> IF n \in missing THEN "done" ELSE st[n]]
            /\ evidence' = [n \in Node |-> IF n \in missing THEN "terminal" ELSE evidence[n]]
            /\ \E clean \in BOOLEAN :
                  outcome' = [run |-> run, checkouts |-> CheckoutOutcome(run, final, clean)]
    /\ UNCHANGED <<cfg, fired, terminalized, cancel, external, ctl, bar, stop, observed, time,
                   budget, degraded, wake>>

-----------------------------------------------------------------------------
(* Around the loop *)

Cancel ==
    /\ ~Ended /\ ~cancel
    /\ cancel' = TRUE /\ external' = TRUE
    /\ UNCHANGED <<cfg, pc, nodeVars, root, ctl, bar, stop, observed, time, budget, wake, outcome>>

\* Time passes, while the loop waits: the cutoff is reached, or the grace ends.
Tick ==
    /\ pc = "wait" /\ Active
    /\ \/ time.clock = "before" /\ time' = [time EXCEPT !.clock = "reached"]
       \/ time.grace = "set" /\ time' = [time EXCEPT !.grace = "due"]
    /\ UNCHANGED <<cfg, pc, nodeVars, cancel, external, root, ctl, bar, stop, observed, budget,
                   wake, outcome>>

Act == ActDrain \/ ActAck \/ ActStop \/ ActGrace \/ ActWait
Loop == Top \/ Act \/ ProcessNode \/ Finalize \/ InlineBarrier \/ Publish \/ Finish
Control == \E a \in Arms : WakeControl(a)

Next == Loop \/ WakeCompletion \/ Control \/ Cancel \/ Tick

Spec == Init /\ [][Next]_vars

\* A node whose token was cancelled returns, and one that is skipped is ready at once.
Returns ==
    /\ WakeCompletion
    /\ \E n \in Inflight : /\ n \in fired \/ cancel \/ st[n] = "skipping"
                           /\ st'[n] = "ready"

\* The loop's own steps are taken, an arm that stays ready is selected, the clock runs, and a
\* canceled node returns.  A node nobody canceled may run for ever.
FairSpec == Spec /\ WF_vars(Loop) /\ WF_vars(Control) /\ WF_vars(Tick) /\ WF_vars(Returns)

-----------------------------------------------------------------------------
(* Properties *)

Final(n) == st[n] = "done"

\* The InvalidStateTransition exits of the loop: a second barrier, a grace armed twice or
\* expired without one, a missing node without an explanation.
NeverBroken == pc # "broken"

TerminalsComplete ==
    pc = "ended" /\ Frozen =>
        /\ \A n \in Node : /\ Final(n) /\ result[n] \in Terminals
                           /\ evidence[n] # "none" \/ n = ctl.trigger
        /\ ~bar.pending /\ bar.ack = "none" /\ ~ctl.pending

HealthyAncestry ==
    Frozen => \A n \in Node : result[n] = "Completed" /\ st[n] \in {"retained", "done"} =>
                  \A m \in Inputs[n] : result[m] = "Completed"

\* A run with frozen controls never leaves through an InvalidStateTransition exit; it ends with
\* one terminal for each node, evidence for each but the trigger's own (TriggerEvidence is about
\* that one), nothing in flight or retained, no barrier or acknowledgement left behind; and
\* a node reported as healthy has only healthy nodes behind it, however far.
EndsAccounted == NeverBroken /\ TerminalsComplete /\ HealthyAncestry

CauseHonest ==
    \A n \in Node :
        /\ "CanceledWorkflow" \in {result[n], cause[n]} => external
        /\ "CanceledPolicy" \in {result[n], cause[n]} =>
              \/ ctl.trigger # NoNode /\ ~ctl.pending
              \/ observed \cap {"cutoff", "impossible"} # {}

PolicyActed == \/ observed # {} \/ ctl.expired
               \/ ctl.trigger # NoNode /\ ~ctl.pending /\ cfg.policy = "fail_fast"

\* Cancellation is blamed on the workflow only if somebody canceled it from outside, and on the
\* policy only after its trigger was acknowledged, the cutoff was reached or the result was
\* proved impossible; when the loop waits after any of these no running node is left with a
\* live token; and a node is given up for its cleanup only after it was canceled.
CancelExact ==
    /\ CauseHonest
    /\ pc = "wait" /\ PolicyActed => cancel \/ NodeCancels \subseteq fired
    /\ ~cancel => terminalized \subseteq fired

\* A node starts only while nothing has stopped the run: no trigger, no cutoff, no refused
\* budget, no cancellation that the loop has seen.
NoLateStart ==
    [][\A n \in Node :
          st[n] = "idle" /\ st'[n] = "running" =>
              ctl.trigger = NoNode /\ observed = {} /\ ~budget /\ root = "none"]_vars

\* The NodeFinished of the node that triggered the policy carries the trigger and its barrier's
\* result.
TriggerEvidence ==
    Frozen /\ ctl.trigger # NoNode /\ Final(ctl.trigger) => evidence[ctl.trigger] = "trigger"

\* A run with the active scheduler ends, and so does any run that was canceled.
Terminates == (Active \/ cancel) ~> Ended
=============================================================================
