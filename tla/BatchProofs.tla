---------------------------- MODULE BatchProofs ----------------------------
(***************************************************************************)
(* Attempts of detached tasks exclude each other, and what is published    *)
(* has its evidence, for every number of tasks, batches, crashes and       *)
(* faults.                                                                 *)
(*                                                                         *)
(* A runner is added by whoever holds the task: a submission, boot or the  *)
(* admission loop of the task's batch.  The inductive invariant says what  *)
(* a task looks like while it is held (Ready, Reserved), while it waits to *)
(* be resumed (Dormant) and while it runs (RunnerInv), and where the loops *)
(* and boot can be meanwhile (LoopInv, BootInv).                           *)
(*                                                                         *)
(* A step concerns one task at most: SameTask(u) for every other task u.   *)
(* The effect lemmas reduce each action to that and to what it does to its *)
(* own task; the invariant is then shown from the effects.                 *)
(***************************************************************************)
EXTENDS Batch, FiniteSetTheorems, TLAPS

\* Nobody runs t.
Idle(t) == \A r \in runners : r.task # t

\* No attempt of t is active in the history; none but the row's is.
NoneActive(t) == \A a \in Attempt : summary[t][a] # "active"
OnlyCurrent(t) == \A a \in Attempt : summary[t][a] = "active" => a = row[t].attempt

\* A task whose runner is about to start, before and after its reservation.
Held(t) == Idle(t) /\ ~row[t].hidden /\ row[t].status \in {"Working", "Canceled"}
Ready(t) == Held(t) /\ NoneActive(t)
Reserved(t) == Held(t) /\ OnlyCurrent(t)

\* A task that boot or a loop may resume.
Dormant(t) ==
    /\ Idle(t) /\ ~row[t].hidden
    /\ working(t) => row[t].ck = "none" /\ NoneActive(t)

\* What the row of a task says of its history.
RowSound(t) ==
    /\ row[t].hidden => row[t].status \in TerminalStatus
    /\ row[t].status # "none" => row[t].attempt # 0
    /\ row[t].status = "none" =>
         row[t] = NoRow /\ Idle(t) /\ \A a \in Attempt : summary[t][a] = "none"
    /\ public(t) \in {"Completed", "Failed"} =>
         row[t].marked \/ summary[t][row[t].attempt] = "ended"
RowInv == \A t \in Task : RowSound(t)

\* What a runner's place says of its task's row and history.
RunnerSound(r) ==
    /\ r.attempt = row[r.task].attempt
    /\ OnlyCurrent(r.task)
    /\ r.pc \in {"settle", "publish"} => row[r.task].status \in TerminalStatus
    /\ r.pc = "publish" => row[r.task].marked \/ summary[r.task][r.attempt] = "ended"
    /\ r.pc = "commit" => r.out \in TerminalStatus
RunnerInv ==
    /\ \A r, s \in runners : s.task = r.task => s = r
    /\ \A r \in runners : RunnerSound(r)

\* Where boot can be, and what it has not started yet.
EarlyPhase == {"pending", "checkpoints", "sweep", "orphans"}
BootInv ==
    /\ boot.phase \in EarlyPhase => runners = {} /\ boot.todo = {} /\ boot.claimed = NoTask
    /\ boot.phase # "up" => submitting = {} /\ flips = {} /\ \A b \in Batch : poll[b] = "none"
    /\ boot.phase \in EarlyPhase \cup {"solo"} => \A b \in Batch : adm[b].pc = "none"
    /\ boot.phase = "solo" =>
         /\ boot.todo \subseteq Solo /\ boot.claimed \in Solo \cup {NoTask}
         /\ boot.claimed \notin boot.todo
    /\ boot.phase = "batches" =>
         /\ boot.todo \subseteq Batch
         /\ boot.claimed = NoTask \/ boot.claimed \in boot.todo
         /\ \A b \in boot.todo : adm[b].pc = "none" /\ active(b)
    /\ boot.phase = "up" => boot.todo = {} /\ boot.claimed = NoTask

\* What an admission loop holds at each place of its code.
LoopSound(b) ==
    /\ adm[b].queue \subseteq Items[b]
    /\ adm[b].pending \subseteq Items[b]
    /\ adm[b].inflight \subseteq Items[b]
    /\ adm[b].pc \in {"claim", "spawn"} => adm[b].item \in adm[b].queue
    /\ adm[b].pc \in {"created", "check", "finalize"} =>
         adm[b].item \in Items[b] \ (adm[b].queue \cup adm[b].pending)
    /\ adm[b].pc = "none" => adm[b].queue = {} /\ adm[b].pending = {} /\ adm[b].inflight = {}
    /\ adm[b].pc \in {"settle", "cas"} => adm[b].inflight = {}
    /\ adm[b].pc = "cas" => adm[b].seen \in {"none", "Working", "Canceling"}
    /\ batch[b] = "none" => adm[b].pc = "none" /\ \A t \in Items[b] : row[t].status = "none"
LoopInv == \A b \in Batch : LoopSound(b)

\* The roles of a task: who is about to start its runner, or to resume it.
Starting(t) ==
    \/ t \in submitting
    \/ boot.phase = "solo" /\ boot.claimed = t
    \/ \E b \in Batch : adm[b].pc \in {"spawn", "created"} /\ adm[b].item = t
Checking(t) == \E b \in Batch : adm[b].pc = "check" /\ adm[b].item = t
Pending(t) == \E b \in Batch : t \in adm[b].pending
Queued(t) == \E b \in Batch : t \in adm[b].queue
Waiting(t) ==
    \/ boot.phase = "orphans"
    \/ boot.phase = "solo" /\ (t \in boot.todo \/ t \notin Solo)
    \/ boot.phase = "batches" /\ \E b \in boot.todo : t \in Items[b]
    \/ Queued(t)

\* What each role promises of the task.
RoleSound(t) ==
    /\ Starting(t) => Ready(t)
    /\ Checking(t) => Reserved(t)
    /\ Pending(t) => row[t].status = "none"
    /\ Queued(t) => row[t].status # "none" /\ row[t].ck = "none"
    /\ Waiting(t) => Dormant(t)
    /\ boot.phase = "sweep" => ~row[t].hidden /\ (working(t) => row[t].ck = "none")
RoleInv == \A t \in Task : RoleSound(t)

\* The inductive invariant.
Inv == TypeOK /\ RowInv /\ RunnerInv /\ BootInv /\ LoopInv /\ RoleInv

-----------------------------------------------------------------------------
(* The constants *)

\* The items of the batches and the solo tasks are tasks, and no two batches share one.
LEMMA Tasks ==
    /\ \A b \in Batch : Items[b] \subseteq Task /\ Items[b] \cap Solo = {}
    /\ \A b, c \in Batch : b # c => Items[b] \cap Items[c] = {}
    /\ Solo \subseteq Task
    /\ NoTask \notin Task
    /\ Cap \in Nat /\ 1 \in Attempt
    /\ \A a : a \in 0 .. Cap + 1 /\ a # 0 => a \in Attempt
    /\ \A a \in Attempt : a \in 0 .. Cap + 1 /\ a # 0
  BY StoreAssumption, DetachedAssumption DEF Task, Attempt

-----------------------------------------------------------------------------
(* A step concerns one task at most *)

\* The step leaves u alone.
SameTask(u) ==
    /\ row'[u] = row[u] /\ summary'[u] = summary[u]
    /\ \A r \in runners \cup runners' : r.task = u => r \in runners /\ r \in runners'
Others(t) == \A u \in Task \ {t} : SameTask(u)

\* What is said of a task only depends on its row, its summaries and its runners.
LEMMA SameKeeps ==
    ASSUME NEW u \in Task, SameTask(u)
    PROVE  /\ Idle(u)' = Idle(u) /\ Ready(u)' = Ready(u) /\ Reserved(u)' = Reserved(u)
           /\ Dormant(u)' = Dormant(u) /\ RowSound(u)' = RowSound(u)
           /\ OnlyCurrent(u)' = OnlyCurrent(u) /\ settled(u)' = settled(u)
<1>1. Idle(u)' = Idle(u)
  BY DEF Idle, SameTask
<1>2. NoneActive(u)' = NoneActive(u) /\ OnlyCurrent(u)' = OnlyCurrent(u)
  BY DEF NoneActive, OnlyCurrent, SameTask
<1>3. public(u)' = public(u) /\ working(u)' = working(u)
  BY DEF public, working, SameTask
<1>4. RowSound(u)' = RowSound(u)
  BY <1>1, <1>3 DEF RowSound, SameTask
<1> QED BY <1>1, <1>2, <1>3, <1>4 DEF Held, Ready, Reserved, Dormant, settled, SameTask

\* A step gives u no role that it did not have.
NoNewRole(u) ==
    /\ Starting(u)' => Starting(u)
    /\ Checking(u)' => Checking(u)
    /\ Pending(u)' => Pending(u)
    /\ Queued(u)' => Queued(u)
    /\ Waiting(u)' => Waiting(u)
    /\ boot.phase' = "sweep" => boot.phase = "sweep"

\* A task that the step leaves alone and that gets no new role keeps what its roles promise.
LEMMA SameRoles ==
    ASSUME NEW u \in Task, SameTask(u), RoleSound(u), NoNewRole(u)
    PROVE  RoleSound(u)'
<1>1. /\ Ready(u)' = Ready(u) /\ Reserved(u)' = Reserved(u) /\ Dormant(u)' = Dormant(u)
      /\ row'[u] = row[u]
  BY SameKeeps DEF SameTask
<1> QED BY <1>1 DEF RoleSound, NoNewRole, working

\* Loops, boot and submissions as they were: the roles are too.
LEMMA RolesUnchanged ==
    ASSUME NEW u, UNCHANGED <<submitting, boot, adm>>
    PROVE  NoNewRole(u)
  BY DEF NoNewRole, Starting, Checking, Pending, Queued, Waiting

\* A task that runs has no role.
LEMMA BusyRoles ==
    ASSUME NEW u, RoleSound(u), ~Idle(u), row[u].status # "none"
    PROVE  ~Starting(u) /\ ~Checking(u) /\ ~Pending(u) /\ ~Queued(u) /\ ~Waiting(u)
  BY DEF RoleSound, Ready, Reserved, Held, Dormant, Waiting

\* The invariant after a step that concerns t at most.
LEMMA StepOf ==
    ASSUME Inv, NEW t \in Task, Others(t), TypeOK', BootInv', LoopInv',
           RowSound(t)', RoleSound(t)',
           \A r, s \in runners' : r.task = t /\ s.task = t => s = r,
           \A r \in runners' : r.task = t => RunnerSound(r)',
           \A u \in Task \ {t} : NoNewRole(u)
    PROVE  Inv'
<1>1. \A u \in Task \ {t} : SameTask(u)
  BY DEF Others
<1>2. RowInv'
  BY <1>1, SameKeeps DEF RowInv, Inv
<1>3. RoleInv'
  BY <1>1, SameRoles DEF RoleInv, Inv
<1>4. RunnerInv'
  <2>1. ASSUME NEW q \in runners', q.task # t PROVE q \in runners /\ RunnerSound(q)'
    <3>1. q.task \in Task
      BY DEF TypeOK, RunnerRecord
    <3>2. q \in runners /\ SameTask(q.task)
      BY <1>1, <2>1, <3>1 DEF SameTask
    <3>3. RunnerSound(q)
      BY <3>2 DEF Inv, RunnerInv
    <3> QED BY <3>1, <3>2, <3>3, SameKeeps DEF RunnerSound, SameTask
  <2>2. ASSUME NEW q \in runners', NEW s \in runners', s.task = q.task PROVE s = q
    BY <2>1, <2>2 DEF Inv, RunnerInv
  <2> QED BY <2>1, <2>2 DEF RunnerInv
<1> QED BY <1>2, <1>3, <1>4 DEF Inv

\* The invariant after a step that leaves the tasks alone.
LEMMA StepOfNone ==
    ASSUME Inv, UNCHANGED <<row, summary, runners>>, TypeOK', BootInv', LoopInv',
           \A u \in Task : NoNewRole(u) \/ RoleSound(u)'
    PROVE  Inv'
<1>1. \A u \in Task : SameTask(u)
  BY DEF SameTask
<1>2. RowInv'
  BY <1>1, SameKeeps DEF RowInv, Inv
<1>3. RoleInv'
  BY <1>1, SameRoles DEF RoleInv, Inv
<1>4. RunnerInv'
  BY DEF RunnerInv, RunnerSound, OnlyCurrent, Inv
<1> QED BY <1>2, <1>3, <1>4 DEF Inv

\* A loop that is left alone stays sound.
LEMMA LoopSame ==
    ASSUME Inv, NEW b \in Batch, adm'[b] = adm[b], batch'[b] = "none" => batch[b] = "none",
           batch'[b] = "none" => \A t \in Items[b] : row[t].status = "none" => row'[t].status = "none"
    PROVE  LoopSound(b)'
  BY DEF Inv, LoopInv, LoopSound

-----------------------------------------------------------------------------
(* The steps of a runner *)

\* The runner r may become another one of the same task and attempt, or end.
RunnersMove(r) ==
    /\ runners' \subseteq RunnerRecord
    /\ \A s \in runners : s.task # r.task => s \in runners'
    /\ \A s \in runners' : s.task # r.task => s \in runners
    /\ \A s \in runners' : s.task = r.task => s.attempt = r.attempt
    /\ \A s, q \in runners' : s.task = r.task /\ q.task = r.task => s = q

\* A runner replaced by its next state is the only one of its task.
LEMMA BecomeMoves ==
    ASSUME TypeOK, RunnerInv, NEW r \in runners, NEW s \in RunnerRecord,
           s.task = r.task, s.attempt = r.attempt, Become(r, s)
    PROVE  /\ RunnersMove(r) /\ s \in runners'
           /\ \A q \in runners' : q.task = r.task => q = s
  BY DEF TypeOK, RunnerInv, Become, RunnersMove

\* What the steps of a runner have in common.
RunnerEffect(r) ==
    /\ RunnersMove(r)
    /\ row' \in [Task -> RowRecord]
    /\ \A u \in Task \ {r.task} : row'[u] = row[u]
    /\ row'[r.task].attempt = row[r.task].attempt /\ row'[r.task].status # "none"
    /\ settled(r.task) => public(r.task)' = public(r.task)
    /\ summary' \in [Task -> [Attempt -> {"none", "active", "ended"}]]
    /\ \A u \in Task \ {r.task} : summary'[u] = summary[u]
    /\ \A a \in Attempt : summary'[r.task][a] = "active" => summary[r.task][a] = "active"
    /\ tok' \in [Task -> {"none", "live", "fired"}]
    /\ faults' \in 0 .. MaxFault
    /\ UNCHANGED <<batch, flips, submitting, boot, crashes>>

\* What a running task looks like.
LEMMA Running ==
    ASSUME Inv, NEW r \in runners
    PROVE  /\ r \in RunnerRecord /\ r.task \in Task /\ r.attempt \in Attempt
           /\ row[r.task] \in RowRecord /\ row[r.task].attempt = r.attempt
           /\ summary[r.task] \in [Attempt -> {"none", "active", "ended"}]
           /\ row[r.task].status # "none"
           /\ RowSound(r.task) /\ RunnerSound(r)
  BY DEF Inv, TypeOK, RunnerInv, RowInv, RowSound, RunnerSound, Idle, RunnerRecord

\* A failed call is counted once, and never uncounted.
LEMMA FaultType ==
    ASSUME TypeOK, Fault \/ NoFault
    PROVE  faults' \in 0 .. MaxFault /\ (faults' = 0 => faults = 0)
  BY DetachedAssumption DEF TypeOK, Fault, NoFault

\* A task's row is replaced.
LEMMA RowPut ==
    ASSUME TypeOK, NEW t \in Task, NEW x \in RowRecord, row' = [row EXCEPT ![t] = x]
    PROVE  /\ row' \in [Task -> RowRecord] /\ row'[t] = x
           /\ \A u \in Task \ {t} : row'[u] = row[u]
  BY DEF TypeOK

\* The invariant of a runner's own task, after its step.
RunnerKeeps(r) ==
    /\ RunnerEffect(r) /\ RowSound(r.task)'
    /\ \A s \in runners' : s.task = r.task => RunnerSound(s)'

\* The runner goes on, or gives up, and leaves the row and the history alone.
LEMMA RunnerGoesOn ==
    ASSUME Inv, NEW r \in runners, NEW s \in RunnerRecord,
           s.task = r.task, s.attempt = r.attempt, Become(r, s),
           s.pc = "done" \/ (s.pc = "commit" /\ s.out \in TerminalStatus),
           Fault \/ NoFault,
           UNCHANGED <<row, summary, batch, tok, flips, submitting, boot, crashes>>
    PROVE  RunnerKeeps(r)
<1> DEFINE t == r.task
<1>0. /\ t \in Task /\ row[t].status # "none" /\ RowSound(t) /\ RunnerSound(r)
  BY Running
<1>1. RunnersMove(r) /\ \A q \in runners' : q.task = t => q = s
  BY BecomeMoves DEF Inv
<1>2. faults' \in 0 .. MaxFault
  BY FaultType DEF Inv
<1>3. RunnerEffect(r)
  BY <1>0, <1>1, <1>2 DEF RunnerEffect, settled, public, Inv, TypeOK
<1>4. RowSound(t)'
  <2>1. (row[t].status = "none") = FALSE
    BY <1>0
  <2> QED BY <1>0, <2>1 DEF RowSound, public
<1>5. ASSUME NEW q \in runners', q.task = t PROVE RunnerSound(q)'
  BY <1>0, <1>1, <1>5 DEF RunnerSound, OnlyCurrent
<1> QED BY <1>3, <1>4, <1>5 DEF RunnerKeeps

\* A commit that was refused is tried once more, as Failed, or ends the runner.
LEMMA RefusedKeeps ==
    ASSUME Inv, NEW r \in runners, Refused(r), Fault \/ NoFault,
           UNCHANGED <<row, summary, batch, tok, flips, submitting, boot, crashes>>
    PROVE  RunnerKeeps(r)
<1>0. r \in RunnerRecord
  BY Running
<1>1. CASE r.last
  <2> DEFINE s == [r EXCEPT !.pc = "done"]
  <2>1. s \in RunnerRecord /\ s.task = r.task /\ s.attempt = r.attempt /\ s.pc = "done"
    BY <1>0 DEF RunnerRecord, RunnerPc
  <2> QED BY <1>1, <2>1, RunnerGoesOn DEF Refused
<1>2. CASE ~r.last
  <2> DEFINE s == [r EXCEPT !.pc = "commit", !.out = "Failed", !.last = TRUE]
  <2>1. /\ s \in RunnerRecord /\ s.task = r.task /\ s.attempt = r.attempt
        /\ s.pc = "commit" /\ s.out \in TerminalStatus
    BY <1>0 DEF RunnerRecord, RunnerPc, TerminalStatus
  <2> QED BY <1>2, <2>1, RunnerGoesOn DEF Refused
<1> QED BY <1>1, <1>2

\* A checkpoint records the outcome, and the runner goes on to commit it.
LEMMA CheckpointKeeps ==
    ASSUME Inv, NEW r \in runners, Checkpoint(r)
    PROVE  RunnerKeeps(r)
<1> DEFINE t == r.task
<1>0. /\ r \in RunnerRecord /\ t \in Task /\ row[t] \in RowRecord /\ row[t].status # "none"
      /\ RowSound(t) /\ RunnerSound(r)
  BY Running
<1>1. PICK k \in {"Completed", "Failed"}, o \in TerminalStatus :
        /\ row' = [row EXCEPT ![t].ck = k]
        /\ Become(r, [r EXCEPT !.pc = "commit", !.out = o])
  BY DEF Checkpoint, TerminalStatus
<1> DEFINE s == [r EXCEPT !.pc = "commit", !.out = o]
<1>2. s \in RunnerRecord /\ s.task = t /\ s.attempt = r.attempt /\ s.pc = "commit" /\ s.out = o
  BY <1>0 DEF RunnerRecord, RunnerPc
<1>3. RunnersMove(r) /\ \A q \in runners' : q.task = t => q = s
  BY <1>1, <1>2, BecomeMoves DEF Inv
<1>4. /\ row' \in [Task -> RowRecord] /\ \A u \in Task \ {t} : row'[u] = row[u]
      /\ row'[t].status = row[t].status /\ row'[t].hidden = row[t].hidden
      /\ row'[t].attempt = row[t].attempt /\ row'[t].marked = row[t].marked
  <2> DEFINE x == [row[t] EXCEPT !.ck = k]
  <2>1. row' = [row EXCEPT ![t] = x]
    BY <1>1
  <2>2. /\ x \in RowRecord /\ x.status = row[t].status /\ x.hidden = row[t].hidden
        /\ x.attempt = row[t].attempt /\ x.marked = row[t].marked
    BY <1>0 DEF RowRecord
  <2> QED BY <1>0, <2>1, <2>2, RowPut DEF Inv
<1>5. UNCHANGED <<summary, batch, tok, flips, submitting, boot, faults, crashes>>
  BY DEF Checkpoint
<1>6. RunnerEffect(r)
  BY <1>0, <1>3, <1>4, <1>5 DEF RunnerEffect, settled, public, Inv, TypeOK
<1>7. RowSound(t)'
  BY <1>0, <1>4, <1>5 DEF RowSound, public
<1>8. ASSUME NEW q \in runners', q.task = t PROVE RunnerSound(q)'
  BY <1>0, <1>2, <1>3, <1>4, <1>5, <1>8 DEF RunnerSound, OnlyCurrent
<1> QED BY <1>6, <1>7, <1>8 DEF RunnerKeeps

\* A run that ends without a checkpoint, or panics, goes on to commit its outcome.
LEMMA EndEarlyKeeps ==
    ASSUME Inv, NEW r \in runners, EndEarly(r) \/ Panic(r)
    PROVE  RunnerKeeps(r)
<1>0. r \in RunnerRecord
  BY Running
<1>1. CASE EndEarly(r)
  <2>1. PICK o \in TerminalStatus :
          \/ Become(r, [r EXCEPT !.pc = "commit", !.out = o])
          \/ Become(r, [r EXCEPT !.pc = "commit", !.out = o, !.last = TRUE])
    BY <1>1 DEF EndEarly, TerminalStatus
  <2>2. PICK l \in BOOLEAN : Become(r, [r EXCEPT !.pc = "commit", !.out = o, !.last = l])
    <3>1. [r EXCEPT !.pc = "commit", !.out = o] = [r EXCEPT !.pc = "commit", !.out = o, !.last = r.last]
      BY <1>0 DEF RunnerRecord
    <3> QED BY <1>0, <2>1, <3>1 DEF RunnerRecord
  <2> DEFINE s == [r EXCEPT !.pc = "commit", !.out = o, !.last = l]
  <2>3. /\ s \in RunnerRecord /\ s.task = r.task /\ s.attempt = r.attempt
        /\ s.pc = "commit" /\ s.out = o
    BY <1>0 DEF RunnerRecord, RunnerPc
  <2>4. NoFault /\ UNCHANGED <<row, summary, batch, tok, flips, submitting, boot, crashes>>
    BY <1>1 DEF EndEarly, NoFault
  <2> QED BY <2>2, <2>3, <2>4, RunnerGoesOn
<1>2. CASE Panic(r)
  <2> DEFINE s == [r EXCEPT !.pc = "commit", !.out = "Failed", !.last = TRUE, !.detached = TRUE]
  <2>1. /\ s \in RunnerRecord /\ s.task = r.task /\ s.attempt = r.attempt
        /\ s.pc = "commit" /\ s.out \in TerminalStatus
    BY <1>0 DEF RunnerRecord, RunnerPc, TerminalStatus
  <2> QED BY <1>2, <2>1, RunnerGoesOn DEF Panic
<1> QED BY <1>1, <1>2

\* The history of t ends attempts at most.
SummaryMoves(t) ==
    /\ summary' \in [Task -> [Attempt -> {"none", "active", "ended"}]]
    /\ \A u \in Task \ {t} : summary'[u] = summary[u]
    /\ \A a \in Attempt : summary'[t][a] = "active" => summary[t][a] = "active"

\* The runner goes on and writes the row x.
LEMMA RunnerWrites ==
    ASSUME Inv, NEW r \in runners, NEW s \in RunnerRecord,
           s.task = r.task, s.attempt = r.attempt, Become(r, s),
           NEW x \in RowRecord, row' = [row EXCEPT ![r.task] = x],
           x.attempt = r.attempt, x.status # "none",
           settled(r.task) => ~x.hidden /\ x.status = row[r.task].status,
           SummaryMoves(r.task), Fault \/ NoFault,
           UNCHANGED <<batch, tok, flips, submitting, boot, crashes>>,
           RowSound(r.task)', RunnerSound(s)'
    PROVE  RunnerKeeps(r)
<1> DEFINE t == r.task
<1>0. /\ t \in Task /\ row[t].attempt = r.attempt
  BY Running
<1>1. RunnersMove(r) /\ \A q \in runners' : q.task = t => q = s
  BY BecomeMoves DEF Inv
<1>2. faults' \in 0 .. MaxFault
  BY FaultType DEF Inv
<1>3. row' \in [Task -> RowRecord] /\ row'[t] = x /\ \A u \in Task \ {t} : row'[u] = row[u]
  BY <1>0, RowPut DEF Inv
<1>4. settled(t) => public(t)' = public(t)
  BY <1>3 DEF settled, public, TerminalStatus
<1>5. tok' \in [Task -> {"none", "live", "fired"}]
  BY DEF Inv, TypeOK
<1>6. RunnerEffect(r)
  BY <1>0, <1>1, <1>2, <1>3, <1>4, <1>5 DEF RunnerEffect, SummaryMoves
<1>7. \A q \in runners' : q.task = t => RunnerSound(q)'
  BY <1>1
<1> QED BY <1>6, <1>7 DEF RunnerKeeps

\* The terminal commit writes the status and hides it, or is refused.
LEMMA CommitKeeps ==
    ASSUME Inv, NEW r \in runners, Commit(r)
    PROVE  RunnerKeeps(r)
<1> DEFINE t == r.task
           s == [r EXCEPT !.pc = "settle"]
<1>0. /\ r \in RunnerRecord /\ t \in Task /\ row[t] \in RowRecord /\ row[t].status # "none"
      /\ RowSound(t) /\ RunnerSound(r) /\ row[t].attempt = r.attempt
      /\ r.pc = "commit" /\ r.out \in TerminalStatus
  BY Running DEF Commit, RunnerSound
<1>1. s \in RunnerRecord /\ s.task = t /\ s.attempt = r.attempt /\ s.pc = "settle"
  BY <1>0 DEF RunnerRecord, RunnerPc
<1>2. UNCHANGED <<summary, batch, tok, flips, submitting, boot, crashes>> /\ SummaryMoves(t)
  BY DEF Commit, SummaryMoves, Inv, TypeOK
<1>3. CASE /\ can_set_pending(row[t], r.attempt)
           /\ row' = [row EXCEPT ![t] = set_terminal_sequenced_pending(@, r.out)]
           /\ Become(r, s) /\ NoFault
  <2> DEFINE x == set_terminal_sequenced_pending(row[t], r.out)
  <2>1. /\ x \in RowRecord /\ x.status = r.out /\ x.hidden = TRUE /\ x.attempt = r.attempt
    BY <1>0 DEF set_terminal_sequenced_pending, RowRecord, TaskStatus
  <2>2. row' = [row EXCEPT ![t] = x]
    BY <1>3
  <2>3. row'[t] = x
    BY <1>0, <2>1, <2>2, RowPut DEF Inv
  <2>4. x.status # "none" /\ (settled(t) => FALSE)
    BY <1>0, <1>3, <2>1 DEF can_set_pending, settled, public, TerminalStatus
  <2>5. RowSound(t)'
    BY <1>0, <2>1, <2>3, <2>4, Tasks DEF RowSound, public, RunnerRecord
  <2>6. RunnerSound(s)'
    BY <1>0, <1>1, <1>2, <2>1, <2>3 DEF RunnerSound, OnlyCurrent
  <2> QED BY <1>1, <1>2, <1>3, <2>1, <2>2, <2>4, <2>5, <2>6, RunnerWrites
<1>4. CASE replays_pending(row[t], r.attempt) /\ Become(r, s) /\ NoFault /\ UNCHANGED row
  <2> DEFINE x == row[t]
  <2>1. row' = [row EXCEPT ![t] = x]
    BY <1>0, <1>4 DEF Inv, TypeOK
  <2>2. settled(t) => ~x.hidden /\ x.status = row[t].status
    BY <1>0 DEF settled, public, TerminalStatus
  <2>3. RowSound(t)'
    <3>1. ~(row[t].status = "none")
      BY <1>0
    <3> QED BY <1>0, <1>2, <1>4, <3>1 DEF RowSound, public
  <2>4. RunnerSound(s)'
    BY <1>0, <1>1, <1>2, <1>4 DEF RunnerSound, OnlyCurrent, replays_pending, TerminalStatus
  <2> QED BY <1>0, <1>1, <1>2, <1>4, <2>1, <2>2, <2>3, <2>4, RunnerWrites
<1>5. CASE Refused(r) /\ (Fault \/ NoFault) /\ UNCHANGED row
  BY <1>2, <1>5, RefusedKeeps
<1> QED BY <1>3, <1>4, <1>5 DEF Commit

\* Ending the summary of attempt a of t.
LEMMA EndsSummary ==
    ASSUME TypeOK, NEW t \in Task, NEW a \in Attempt,
           summary' = [summary EXCEPT ![t][a] = "ended"]
    PROVE  SummaryMoves(t) /\ summary'[t][a] = "ended"
           /\ \A e \in Attempt \ {a} : summary'[t][e] = summary[t][e]
  BY DEF TypeOK, SummaryMoves

\* The runner ends its attempt in the history, or marks the row, before it publishes.
LEMMA SettleKeeps ==
    ASSUME Inv, NEW r \in runners, Settle(r)
    PROVE  RunnerKeeps(r)
<1> DEFINE t == r.task
           s == [r EXCEPT !.pc = "publish"]
<1>0. /\ r \in RunnerRecord /\ t \in Task /\ row[t] \in RowRecord /\ row[t].status # "none"
      /\ RowSound(t) /\ RunnerSound(r) /\ row[t].attempt = r.attempt /\ r.attempt \in Attempt
      /\ row[t].status \in TerminalStatus
  BY Running DEF Settle, RunnerSound
<1>1. s \in RunnerRecord /\ s.task = t /\ s.attempt = r.attempt /\ s.pc = "publish"
  BY <1>0 DEF RunnerRecord, RunnerPc
<1>2. UNCHANGED <<batch, tok, flips, submitting, boot, crashes>>
  BY DEF Settle
<1>3. ASSUME summary' = [summary EXCEPT ![t][r.attempt] = "ended"],
             Become(r, s), NoFault, UNCHANGED row
      PROVE  RunnerKeeps(r)
  <2> DEFINE x == row[t]
  <2>1. row' = [row EXCEPT ![t] = x]
    BY <1>0, <1>3 DEF Inv, TypeOK
  <2>2. settled(t) => ~x.hidden /\ x.status = row[t].status
    BY <1>0 DEF settled, public, TerminalStatus
  <2>3. /\ SummaryMoves(t) /\ summary'[t][r.attempt] = "ended"
        /\ \A e \in Attempt \ {r.attempt} : summary'[t][e] = summary[t][e]
    BY <1>0, <1>3, EndsSummary DEF Inv
  <2>4. RowSound(t)'
    <3>1. ~(row[t].status = "none")
      BY <1>0
    <3> QED BY <1>0, <1>3, <2>3, <3>1 DEF RowSound, public
  <2>5. RunnerSound(s)'
    BY <1>0, <1>1, <1>3, <2>3 DEF RunnerSound, OnlyCurrent, SummaryMoves
  <2> QED BY <1>0, <1>1, <1>2, <1>3, <2>1, <2>2, <2>3, <2>4, <2>5, RunnerWrites
<1>4. ASSUME row' = [row EXCEPT ![t].marked = TRUE], Become(r, s), UNCHANGED summary,
             Fault \/ NoFault
      PROVE  RunnerKeeps(r)
  <2> DEFINE x == [row[t] EXCEPT !.marked = TRUE]
  <2>1. row' = [row EXCEPT ![t] = x]
    BY <1>4
  <2>2. /\ x \in RowRecord /\ x.attempt = r.attempt /\ x.status = row[t].status
        /\ x.hidden = row[t].hidden /\ x.marked = TRUE
    BY <1>0 DEF RowRecord
  <2>3. row'[t] = x
    BY <1>0, <2>1, <2>2, RowPut DEF Inv
  <2>4. settled(t) => ~x.hidden /\ x.status = row[t].status
    BY <1>0, <2>2 DEF settled, public, TerminalStatus
  <2>5. SummaryMoves(t)
    BY <1>4 DEF SummaryMoves, Inv, TypeOK
  <2>6. RowSound(t)'
    BY <1>0, <2>2, <2>3 DEF RowSound, public
  <2>7. RunnerSound(s)'
    <3>1. /\ row'[t].attempt = r.attempt /\ row'[t].status = row[t].status
          /\ row'[t].marked = TRUE /\ row[t].attempt = r.attempt
      BY <1>0, <2>2, <2>3 DEF RunnerSound
    <3>2. OnlyCurrent(t)'
      BY <1>0, <1>4, <3>1 DEF RunnerSound, OnlyCurrent
    <3> HIDE DEF x, s
    <3> QED BY <1>0, <1>1, <3>1, <3>2 DEF RunnerSound
  <2> QED BY <1>0, <1>1, <1>2, <1>4, <2>1, <2>2, <2>4, <2>5, <2>6, <2>7, RunnerWrites
<1>5. CASE Fault /\ Refused(r) /\ UNCHANGED <<row, summary>>
  BY <1>2, <1>5, RefusedKeeps
<1> QED BY <1>3, <1>4, <1>5 DEF Settle, Fault, NoFault

\* Publication shows the row whose evidence was written before.
LEMMA PublishKeeps ==
    ASSUME Inv, NEW r \in runners, Publish(r)
    PROVE  RunnerKeeps(r)
<1> DEFINE t == r.task
           s == [r EXCEPT !.pc = "done"]
           x == mark_terminal_projection_ready(row[t])
<1>0. /\ r \in RunnerRecord /\ t \in Task /\ row[t] \in RowRecord /\ row[t].status # "none"
      /\ RowSound(t) /\ RunnerSound(r) /\ row[t].attempt = r.attempt
      /\ row[t].status \in TerminalStatus
      /\ row[t].marked \/ summary[t][r.attempt] = "ended"
  BY Running DEF Publish, RunnerSound
<1>1. s \in RunnerRecord /\ s.task = t /\ s.attempt = r.attempt /\ s.pc = "done"
  BY <1>0 DEF RunnerRecord, RunnerPc
<1>2. UNCHANGED <<summary, batch, tok, flips, submitting, boot, crashes>> /\ SummaryMoves(t)
  BY DEF Publish, SummaryMoves, Inv, TypeOK
<1>3. CASE /\ row' = [row EXCEPT ![t] = mark_terminal_projection_ready(@)]
           /\ Become(r, s) /\ NoFault
  <2>1. row' = [row EXCEPT ![t] = x]
    BY <1>3
  <2>2. /\ x \in RowRecord /\ x.attempt = r.attempt /\ x.status = row[t].status
        /\ x.hidden = FALSE /\ x.marked = row[t].marked
    BY <1>0 DEF RowRecord, mark_terminal_projection_ready
  <2>3. row'[t] = x
    BY <1>0, <2>1, <2>2, RowPut DEF Inv
  <2>4. RowSound(t)'
    BY <1>0, <1>2, <2>2, <2>3 DEF RowSound, public
  <2>5. RunnerSound(s)'
    BY <1>0, <1>1, <1>2, <2>2, <2>3 DEF RunnerSound, OnlyCurrent
  <2> QED BY <1>0, <1>1, <1>2, <1>3, <2>1, <2>2, <2>4, <2>5, RunnerWrites
<1>4. CASE Fault /\ Refused(r) /\ UNCHANGED row
  BY <1>2, <1>4, RefusedKeeps
<1> QED BY <1>3, <1>4 DEF Publish

\* A finished runner leaves the table.
LEMMA EndKeeps ==
    ASSUME Inv, NEW r \in runners, End(r)
    PROVE  RunnerKeeps(r)
<1> DEFINE t == r.task
<1>0. /\ t \in Task /\ row[t].status # "none" /\ RowSound(t)
  BY Running
<1>1. RunnersMove(r) /\ \A q \in runners' : q.task # t
  BY DEF End, RunnersMove, Inv, TypeOK, RunnerInv
<1>2. UNCHANGED <<row, summary, batch, flips, submitting, boot, faults, crashes>>
  BY DEF End
<1>3. tok' \in [Task -> {"none", "live", "fired"}]
  BY DEF End, Inv, TypeOK
<1>4. RunnerEffect(r)
  BY <1>0, <1>1, <1>2, <1>3 DEF RunnerEffect, settled, public, Inv, TypeOK
<1>5. RowSound(t)'
  <2>1. ~(row[t].status = "none")
    BY <1>0
  <2> QED BY <1>0, <1>2, <2>1 DEF RowSound, public
<1> QED BY <1>1, <1>4, <1>5 DEF RunnerKeeps

\* Every step of a runner keeps the invariant.
LEMMA RunnerStepInv ==
    ASSUME Inv, NEW r \in runners, RunnerStep(r), UNCHANGED <<adm, btok, bfire, poll>>
    PROVE  Inv'
<1> DEFINE t == r.task
<1>1. RunnerKeeps(r)
  BY CheckpointKeeps, EndEarlyKeeps, CommitKeeps, SettleKeeps, PublishKeeps, EndKeeps
     DEF RunnerStep, Finishing
<1>2. RunnerEffect(r)
  BY <1>1 DEF RunnerKeeps
<1>3. Others(t)
  BY <1>2 DEF RunnerEffect, RunnersMove, SameTask, Others
<1>4. UNCHANGED <<batch, flips, submitting, boot, crashes, adm, btok, bfire, poll>>
  BY <1>2 DEF RunnerEffect
<1>5. t \in Task /\ row[t].status # "none" /\ row'[t].status # "none"
  BY <1>2, Running DEF RunnerEffect
<1>6. TypeOK'
  BY <1>2, <1>4 DEF RunnerEffect, RunnersMove, Inv, TypeOK
<1>7. boot.phase \notin EarlyPhase
  BY DEF Inv, BootInv
<1>8. BootInv'
  BY <1>4, <1>7 DEF BootInv, Inv, active
<1>9. LoopInv'
  <2>1. \A u \in Task : row[u].status = "none" => row'[u].status = "none"
    BY <1>3, <1>5 DEF Others, SameTask
  <2> QED BY <1>4, <2>1, LoopSame, Tasks DEF LoopInv
<1>10. RoleSound(t)'
  <2>1. ~Starting(t) /\ ~Checking(t) /\ ~Pending(t) /\ ~Queued(t) /\ ~Waiting(t)
    BY <1>5, BusyRoles DEF Inv, RoleInv, Idle
  <2> QED BY <1>4, <1>7, <2>1, RolesUnchanged DEF RoleSound, NoNewRole, EarlyPhase
<1>11. \A u \in Task : NoNewRole(u)
  BY <1>4, RolesUnchanged
<1>12. \A q, s \in runners' : q.task = t /\ s.task = t => s = q
  BY <1>2 DEF RunnerEffect, RunnersMove
<1> QED BY <1>1, <1>3, <1>5, <1>6, <1>8, <1>9, <1>10, <1>11, <1>12, StepOf DEF RunnerKeeps

-----------------------------------------------------------------------------
(* The loop of a batch: steps that leave the tasks alone *)

\* The loop of b goes on; it drops items and takes none up.
LoopMoves(b) ==
    /\ adm' \in [Batch -> LoopRecord]
    /\ \A c \in Batch \ {b} : adm'[c] = adm[c]
    /\ adm'[b].queue \subseteq adm[b].queue
    /\ adm'[b].pending \subseteq adm[b].pending
    /\ adm'[b].pc \notin {"spawn", "created", "check"}

\* A loop that only drops items gives no task a new role.
LEMMA LoopMovesRoles ==
    ASSUME NEW b \in Batch, LoopMoves(b), UNCHANGED <<submitting, boot>>, NEW u
    PROVE  NoNewRole(u)
<1>1. \A c \in Batch : /\ adm'[c].queue \subseteq adm[c].queue
                       /\ adm'[c].pending \subseteq adm[c].pending
                       /\ adm'[c].pc \in {"spawn", "created", "check"} => adm'[c] = adm[c]
  BY DEF LoopMoves
<1>2. Starting(u)' => Starting(u)
  BY <1>1 DEF Starting
<1>3. Checking(u)' => Checking(u)
  BY <1>1 DEF Checking
<1>4. (Pending(u)' => Pending(u)) /\ (Queued(u)' => Queued(u))
  BY <1>1 DEF Pending, Queued
<1> QED BY <1>2, <1>3, <1>4 DEF NoNewRole, Waiting

\* A loop that runs has been handed over by boot.
LEMMA LoopPhase ==
    ASSUME Inv, NEW b \in Batch, adm[b].pc # "none"
    PROVE  /\ boot.phase \in {"batches", "up"} /\ b \notin boot.todo
           /\ batch[b] # "none"
  BY DEF Inv, TypeOK, BootRecord, Phase, BootInv, EarlyPhase, LoopInv, LoopSound

\* What boot promises does not depend on the loop of a batch it has handed over.
LEMMA LoopBoot ==
    ASSUME Inv, NEW b \in Batch, adm[b].pc # "none", \A c \in Batch \ {b} : adm'[c] = adm[c],
           UNCHANGED <<boot, submitting, flips, poll>>,
           \A c \in Batch \ {b} : batch'[c] = batch[c]
    PROVE  BootInv'
<1>1. boot.phase \in {"batches", "up"} /\ b \notin boot.todo
  BY LoopPhase
<1> QED BY <1>1 DEF Inv, BootInv, EarlyPhase, active

\* The invariant after a step of a loop that leaves the tasks alone.
LEMMA LoopMovesInv ==
    ASSUME Inv, NEW b \in Batch, adm[b].pc # "none", LoopMoves(b), LoopSound(b)',
           UNCHANGED <<row, summary, runners, flips, submitting, boot, crashes, bfire, poll>>,
           \A c \in Batch \ {b} : batch'[c] = batch[c], batch' \in [Batch -> BatchStatus],
           tok' \in [Task -> {"none", "live", "fired"}],
           btok' \in [Batch -> {"none", "live", "fired"}], faults' \in 0 .. MaxFault
    PROVE  Inv'
<1>1. TypeOK'
  BY DEF LoopMoves, Inv, TypeOK
<1>2. BootInv'
  BY LoopBoot DEF LoopMoves
<1>3. LoopInv'
  BY LoopSame, Tasks DEF LoopInv, LoopMoves
<1>4. \A u \in Task : NoNewRole(u)
  BY LoopMovesRoles
<1> QED BY <1>1, <1>2, <1>3, <1>4, StepOfNone

\* The record of a loop is replaced.
LEMMA LoopPut ==
    ASSUME TypeOK, NEW b \in Batch, NEW x \in LoopRecord, adm' = [adm EXCEPT ![b] = x]
    PROVE  /\ adm' \in [Batch -> LoopRecord] /\ adm'[b] = x
           /\ \A c \in Batch \ {b} : adm'[c] = adm[c]
  BY DEF TypeOK

\* The loop goes to pc with the same items.
Goes(b, pc) ==
    /\ LoopMoves(b)
    /\ adm'[b].pc = pc /\ adm'[b].queue = adm[b].queue /\ adm'[b].pending = adm[b].pending
    /\ adm'[b].inflight \subseteq adm[b].inflight

\* goto changes the program counter of one loop and nothing else in it.
LEMMA GotoGoes ==
    ASSUME TypeOK, NEW b \in Batch, NEW pc \in LoopPc \ {"spawn", "created", "check"}, goto(b, pc)
    PROVE  Goes(b, pc) /\ adm'[b].inflight = adm[b].inflight
<1> DEFINE x == [adm[b] EXCEPT !.pc = pc]
<1>1. adm[b] \in LoopRecord
  BY DEF TypeOK
<1>2. /\ x \in LoopRecord /\ x.pc = pc /\ x.queue = adm[b].queue /\ x.pending = adm[b].pending
      /\ x.inflight = adm[b].inflight
  BY <1>1 DEF LoopRecord
<1>3. adm' = [adm EXCEPT ![b] = x]
  BY DEF goto
<1> QED BY <1>2, <1>3, LoopPut DEF Goes, LoopMoves

\* Such a step keeps a loop sound at the program counters that ask for nothing more.
LEMMA GoesSound ==
    ASSUME Inv, NEW b \in Batch, adm[b].pc # "none", UNCHANGED row, 
           batch'[b] = "none" => batch[b] = "none",
           NEW pc \in {"top", "permit", "admit", "drain", "select"}, Goes(b, pc)
    PROVE  LoopSound(b)'
  BY LoopPhase DEF Inv, LoopInv, LoopSound, Goes

\* The loop registers the token of its batch.
LEMMA RegisterInv ==
    ASSUME Inv, NEW b \in Batch, Register(b)
    PROVE  Inv'
<1>1. adm[b].pc # "none" /\ Goes(b, "top")
  BY GotoGoes DEF Register, goto, Inv, LoopPc
<1>2. LoopSound(b)'
  BY <1>1, GoesSound DEF Register, storeVars
<1> QED BY <1>1, <1>2, LoopMovesInv DEF Register, Goes, storeVars, taskVars, Inv, TypeOK

\* Firing the tokens of the children in flight.
LEMMA TellType ==
    ASSUME TypeOK, NEW b, Tell(b) \/ UNCHANGED tok
    PROVE  tok' \in [Task -> {"none", "live", "fired"}]
  BY DEF TypeOK, Tell

\* The top of the loop: go for a permit, leave, drain, or wait for a child.
LEMMA TopInv ==
    ASSUME Inv, NEW b \in Batch, Top(b)
    PROVE  Inv'
<1>0. /\ adm[b] \in LoopRecord /\ adm[b].pc = "top" /\ LoopSound(b)
      /\ UNCHANGED <<row, summary, batch, runners, flips, submitting, boot, faults, crashes,
                     btok, bfire, poll>>
  BY DEF Top, Inv, TypeOK, storeVars, LoopInv
<1>1. tok' \in [Task -> {"none", "live", "fired"}]
  BY TellType DEF Top, Inv
<1>2. LoopMoves(b) /\ LoopSound(b)'
  <2>1. CASE goto(b, "permit") \/ goto(b, "select")
    <3>1. Goes(b, "permit") \/ Goes(b, "select")
      BY <2>1, GotoGoes DEF Inv, LoopPc
    <3> QED BY <1>0, <3>1, GoesSound DEF Goes
  <2>2. CASE adm[b].inflight = {} /\ goto(b, "settle")
    <3>1. Goes(b, "settle")
      BY <2>2, GotoGoes DEF Inv, LoopPc
    <3> QED BY <1>0, <2>2, <3>1, LoopPhase DEF Goes, LoopSound
  <2>3. CASE adm' = [adm EXCEPT ![b].pc = "drain", ![b].told = TRUE]
    <3> DEFINE x == [adm[b] EXCEPT !.pc = "drain", !.told = TRUE]
    <3>1. /\ x \in LoopRecord /\ x.pc = "drain" /\ x.queue = adm[b].queue
          /\ x.pending = adm[b].pending /\ x.inflight = adm[b].inflight
      BY <1>0 DEF LoopRecord, LoopPc
    <3>2. adm' = [adm EXCEPT ![b] = x]
      BY <2>3 DEF Inv, TypeOK
    <3>3. Goes(b, "drain")
      BY <3>1, <3>2, LoopPut DEF Goes, LoopMoves, Inv
    <3> QED BY <1>0, <3>3, GoesSound DEF Goes
  <2> QED BY <2>1, <2>2, <2>3 DEF Top
<1> QED BY <1>0, <1>1, <1>2, LoopMovesInv DEF Inv, TypeOK

\* A child is reaped.
LEMMA ReapGoes ==
    ASSUME TypeOK, NEW b \in Batch, NEW t,
           \/ adm' = [adm EXCEPT ![b].pc = "top", ![b].inflight = @ \ {t}]
           \/ adm' = [adm EXCEPT ![b].inflight = @ \ {t}] /\ adm[b].pc = "permit"
    PROVE  /\ Goes(b, "top") \/ (Goes(b, "permit") /\ adm[b].pc = "permit")
           /\ adm'[b].inflight = adm[b].inflight \ {t}
<1>1. adm[b] \in LoopRecord
  BY DEF TypeOK
<1>2. CASE adm' = [adm EXCEPT ![b].inflight = @ \ {t}] /\ adm[b].pc = "permit"
  <2> DEFINE x == [adm[b] EXCEPT !.inflight = adm[b].inflight \ {t}]
  <2>1. /\ x \in LoopRecord /\ x.pc = adm[b].pc /\ x.queue = adm[b].queue
        /\ x.pending = adm[b].pending /\ x.inflight = adm[b].inflight \ {t}
    BY <1>1 DEF LoopRecord
  <2>2. adm' = [adm EXCEPT ![b] = x]
    BY <1>2
  <2> QED BY <1>2, <2>1, <2>2, LoopPut DEF Goes, LoopMoves
<1>3. CASE adm' = [adm EXCEPT ![b].pc = "top", ![b].inflight = @ \ {t}]
  <2> DEFINE x == [adm[b] EXCEPT !.pc = "top", !.inflight = adm[b].inflight \ {t}]
  <2>1. /\ x \in LoopRecord /\ x.pc = "top" /\ x.queue = adm[b].queue
        /\ x.pending = adm[b].pending /\ x.inflight = adm[b].inflight \ {t}
    BY <1>1 DEF LoopRecord, LoopPc
  <2>2. adm' = [adm EXCEPT ![b] = x]
    BY <1>3 DEF TypeOK, LoopRecord
  <2> QED BY <2>1, <2>2, LoopPut DEF Goes, LoopMoves
<1> QED BY <1>2, <1>3

\* The loop starts to drain.
LEMMA DrainGoes ==
    ASSUME TypeOK, NEW b \in Batch,
           \/ adm' = [adm EXCEPT ![b].pc = "top", ![b].drain = TRUE]
           \/ adm' = [adm EXCEPT ![b].pc = "top", ![b].drain = TRUE, ![b].told = TRUE]
    PROVE  Goes(b, "top") /\ adm'[b].inflight = adm[b].inflight
<1>1. adm[b] \in LoopRecord
  BY DEF TypeOK
<1>2. PICK d \in BOOLEAN : adm' = [adm EXCEPT ![b] = [adm[b] EXCEPT !.pc = "top", !.drain = TRUE, !.told = d]]
  <2>1. [adm[b] EXCEPT !.pc = "top", !.drain = TRUE, !.told = adm[b].told]
          = [adm[b] EXCEPT !.pc = "top", !.drain = TRUE]
    BY <1>1 DEF LoopRecord
  <2>2. adm[b].told \in BOOLEAN
    BY <1>1 DEF LoopRecord
  <2>3. CASE adm' = [adm EXCEPT ![b].pc = "top", ![b].drain = TRUE]
    <3>1. adm' = [adm EXCEPT ![b] = [adm[b] EXCEPT !.pc = "top", !.drain = TRUE]]
      BY <2>3 DEF TypeOK
    <3> QED BY <2>1, <2>2, <3>1
  <2>4. CASE adm' = [adm EXCEPT ![b].pc = "top", ![b].drain = TRUE, ![b].told = TRUE]
    <3>1. adm' = [adm EXCEPT ![b] = [adm[b] EXCEPT !.pc = "top", !.drain = TRUE, !.told = TRUE]]
      BY <2>4 DEF TypeOK
    <3> QED BY <3>1
  <2> QED BY <2>3, <2>4
<1> DEFINE x == [adm[b] EXCEPT !.pc = "top", !.drain = TRUE, !.told = d]
<1>3. /\ x \in LoopRecord /\ x.pc = "top" /\ x.queue = adm[b].queue
      /\ x.pending = adm[b].pending /\ x.inflight = adm[b].inflight
  BY <1>1 DEF LoopRecord, LoopPc
<1> QED BY <1>2, <1>3, LoopPut DEF Goes, LoopMoves

\* The loop gets a permit, is canceled while it waits for one, or reaps a child.
LEMMA AwaitPermitInv ==
    ASSUME Inv, NEW b \in Batch, AwaitPermit(b)
    PROVE  Inv'
<1>0. adm[b].pc = "permit" /\ TypeOK /\ UNCHANGED <<storeVars, taskVars, btok, bfire, poll>>
  BY DEF AwaitPermit, Inv
<1>1. Goes(b, "top") \/ Goes(b, "admit") \/ Goes(b, "permit")
  <2>1. CASE adm' = [adm EXCEPT ![b].pc = "top", ![b].drain = TRUE]
    BY <1>0, <2>1, DrainGoes
  <2>2. CASE goto(b, "admit")
    BY <1>0, <2>2, GotoGoes DEF LoopPc
  <2>3. ASSUME NEW t \in Task, adm' = [adm EXCEPT ![b].inflight = @ \ {t}]
        PROVE  Goes(b, "top") \/ Goes(b, "permit")
    BY <1>0, <2>3, ReapGoes
  <2> QED BY <2>1, <2>2, <2>3 DEF AwaitPermit
<1>2. LoopSound(b)'
  BY <1>0, <1>1, GoesSound DEF storeVars
<1> QED BY <1>0, <1>1, <1>2, LoopMovesInv DEF Goes, storeVars, taskVars, TypeOK

\* A draining loop reaps a child that was told to stop.
LEMMA DrainInv ==
    ASSUME Inv, NEW b \in Batch, Drain(b)
    PROVE  Inv'
<1>0. adm[b].pc = "drain" /\ TypeOK /\ UNCHANGED <<storeVars, taskVars, btok, bfire, poll>>
  BY DEF Drain, Inv
<1>1. Goes(b, "top")
  BY <1>0, ReapGoes DEF Drain
<1>2. LoopSound(b)'
  BY <1>0, <1>1, GoesSound DEF storeVars
<1> QED BY <1>0, <1>1, <1>2, LoopMovesInv DEF Goes, storeVars, taskVars, TypeOK

\* The loop that waits on its runners reaps one or sees the cancellation.
LEMMA SelectInv ==
    ASSUME Inv, NEW b \in Batch, Select(b)
    PROVE  Inv'
<1>0. /\ adm[b].pc = "select" /\ TypeOK
      /\ UNCHANGED <<row, summary, batch, runners, flips, submitting, boot, faults, crashes,
                     btok, bfire, poll>>
  BY DEF Select, Inv, storeVars
<1>1. Goes(b, "top")
  BY <1>0, ReapGoes, DrainGoes DEF Select
<1>2. LoopSound(b)'
  BY <1>0, <1>1, GoesSound
<1>3. tok' \in [Task -> {"none", "live", "fired"}]
  BY <1>0, TellType DEF Select
<1> QED BY <1>0, <1>1, <1>2, <1>3, LoopMovesInv DEF Goes, TypeOK

\* The loop goes back to the top when the item it could not start is settled.
LEMMA FinalizedInv ==
    ASSUME Inv, NEW b \in Batch, NEW t \in Items[b], Finalized(b, t)
    PROVE  Inv'
<1>0. /\ adm[b].pc = "finalize" /\ TypeOK /\ adm[b] \in LoopRecord
      /\ UNCHANGED <<storeVars, taskVars, btok, bfire, poll>>
  BY DEF Finalized, Inv, TypeOK
<1> DEFINE d == adm[b].drain \/ btok[b] = "fired"
           x == [adm[b] EXCEPT !.pc = "top", !.item = NoTask, !.drain = d]
<1>1. d \in BOOLEAN
  BY <1>0 DEF LoopRecord
<1>2. /\ x \in LoopRecord /\ x.pc = "top" /\ x.queue = adm[b].queue
      /\ x.pending = adm[b].pending /\ x.inflight = adm[b].inflight
  BY <1>0, <1>1 DEF LoopRecord, LoopPc
<1>3. adm' = [adm EXCEPT ![b] = x]
  BY <1>0 DEF Finalized, TypeOK, LoopRecord
<1>4. Goes(b, "top")
  BY <1>0, <1>2, <1>3, LoopPut DEF Goes, LoopMoves
<1>5. LoopSound(b)'
  BY <1>0, <1>4, GoesSound DEF storeVars
<1> QED BY <1>0, <1>4, <1>5, LoopMovesInv DEF Goes, storeVars, taskVars, TypeOK

\* The loop reads the row of an item it is to resume.
LEMMA ResumeGetInv ==
    ASSUME Inv, NEW b \in Batch, NEW t \in Items[b], ResumeGet(b, t)
    PROVE  Inv'
<1>0. /\ adm[b].pc = "admit" /\ TypeOK /\ adm[b] \in LoopRecord /\ LoopSound(b)
      /\ t \in adm[b].queue /\ t \in Task
      /\ UNCHANGED <<storeVars, taskVars, btok, bfire, poll>>
  BY Tasks DEF ResumeGet, Inv, TypeOK, LoopInv
<1>1. LoopMoves(b) /\ LoopSound(b)'
  <2>1. CASE adm' = [adm EXCEPT ![b].pc = "claim", ![b].item = t]
    <3> DEFINE x == [adm[b] EXCEPT !.pc = "claim", !.item = t]
    <3>1. /\ x \in LoopRecord /\ x.pc = "claim" /\ x.queue = adm[b].queue /\ x.item = t
          /\ x.pending = adm[b].pending /\ x.inflight = adm[b].inflight
      BY <1>0 DEF LoopRecord, LoopPc
    <3>2. adm' = [adm EXCEPT ![b] = x]
      BY <2>1 DEF Inv, TypeOK
    <3>3. LoopMoves(b) /\ adm'[b] = x
      BY <1>0, <3>1, <3>2, LoopPut DEF LoopMoves
    <3> QED BY <1>0, <3>1, <3>3, LoopPhase DEF LoopSound, storeVars
  <2>2. CASE adm' = [adm EXCEPT ![b].pc = "top", ![b].queue = @ \ {t}]
    <3> DEFINE x == [adm[b] EXCEPT !.pc = "top", !.queue = adm[b].queue \ {t}]
    <3>1. /\ x \in LoopRecord /\ x.pc = "top" /\ x.queue = adm[b].queue \ {t}
          /\ x.pending = adm[b].pending /\ x.inflight = adm[b].inflight
      BY <1>0 DEF LoopRecord, LoopPc
    <3>2. adm' = [adm EXCEPT ![b] = x]
      BY <1>0, <2>2 DEF TypeOK, LoopRecord
    <3>3. LoopMoves(b) /\ adm'[b] = x
      BY <1>0, <3>1, <3>2, LoopPut DEF LoopMoves
    <3> QED BY <1>0, <3>1, <3>3, LoopPhase DEF LoopSound, storeVars
  <2> QED BY <2>1, <2>2 DEF ResumeGet
<1> QED BY <1>0, <1>1, LoopMovesInv DEF storeVars, taskVars, TypeOK

\* The loop rolls its batch up after the last item.
LEMMA RollupInv ==
    ASSUME Inv, NEW b \in Batch, Rollup(b)
    PROVE  Inv'
<1>0. /\ adm[b].pc = "settle" /\ TypeOK /\ adm[b] \in LoopRecord /\ LoopSound(b)
      /\ UNCHANGED <<storeVars, taskVars, btok, bfire, poll>>
  BY DEF Rollup, Inv, TypeOK, LoopInv
<1> DEFINE e == IF \E s \in BatchStatus : Settleable(b, s) THEN batch[b] ELSE "none"
           x == [adm[b] EXCEPT !.pc = "cas", !.seen = e]
<1>1. e \in {"none", "Working", "Canceling"}
  BY DEF Settleable
<1> HIDE DEF e
<1>2. /\ x \in LoopRecord /\ x.pc = "cas" /\ x.queue = adm[b].queue /\ x.seen = e
      /\ x.pending = adm[b].pending /\ x.inflight = adm[b].inflight
  BY <1>0, <1>1 DEF LoopRecord, LoopPc, BatchStatus
<1>3. adm' = [adm EXCEPT ![b] = x]
  BY <1>0 DEF Rollup, TypeOK, e
<1>4. LoopMoves(b) /\ adm'[b] = x
  BY <1>0, <1>2, <1>3, LoopPut DEF LoopMoves
<1>5. LoopSound(b)'
  BY <1>0, <1>1, <1>2, <1>4, LoopPhase DEF LoopSound, storeVars
<1> QED BY <1>0, <1>4, <1>5, LoopMovesInv DEF storeVars, taskVars, TypeOK

\* The loop writes the outcome of its batch and ends.
LEMMA LeaveInv ==
    ASSUME Inv, NEW b \in Batch, Leave(b)
    PROVE  Inv'
<1>0. /\ adm[b].pc = "cas" /\ TypeOK /\ LoopSound(b) /\ batch[b] # "none"
      /\ UNCHANGED <<row, summary, taskVars, bfire, poll>>
  BY LoopPhase DEF Leave, Inv, LoopInv
<1>1. NoLoop \in LoopRecord
  BY DEF NoLoop, LoopRecord, LoopPc, BatchStatus
<1>2. LoopMoves(b) /\ adm'[b] = NoLoop
  BY <1>0, <1>1, LoopPut DEF LoopMoves, Leave, NoLoop
<1>3. /\ batch' \in [Batch -> BatchStatus] /\ \A c \in Batch \ {b} : batch'[c] = batch[c]
      /\ batch'[b] # "none"
  BY <1>0 DEF Leave, settle_batch_if_status, SettledAs, TypeOK, BatchStatus
<1>4. btok' \in [Batch -> {"none", "live", "fired"}]
  BY <1>0 DEF Leave, TypeOK
<1>5. LoopSound(b)'
  BY <1>2, <1>3 DEF LoopSound, NoLoop
<1> QED BY <1>0, <1>2, <1>3, <1>4, <1>5, LoopMovesInv DEF taskVars, TypeOK

-----------------------------------------------------------------------------
(* What a step may make of its own task *)

\* history.reserve on a task that is about to start.
LEMMA ReserveKeeps ==
    ASSUME Inv, NEW t \in Task, Ready(t), reserve(t)
    PROVE  /\ row' \in [Task -> RowRecord] /\ \A u \in Task \ {t} : row'[u] = row[u]
           /\ row'[t].status = row[t].status /\ row'[t].hidden = FALSE
           /\ row'[t].attempt = row[t].attempt /\ row[t].attempt \in Attempt
           /\ summary' \in [Task -> [Attempt -> {"none", "active", "ended"}]]
           /\ \A u \in Task \ {t} : summary'[u] = summary[u]
           /\ OnlyCurrent(t)' /\ faults' \in 0 .. MaxFault
<1>0. /\ row[t] \in RowRecord /\ row[t].attempt \in Attempt /\ TypeOK /\ row[t].hidden = FALSE
      /\ \A a \in Attempt : summary[t][a] # "active"
  BY Tasks DEF Inv, TypeOK, RowInv, RowSound, Ready, Held, NoneActive, RowRecord
<1>1. faults' \in 0 .. MaxFault
  BY <1>0, FaultType DEF reserve
<1>2. CASE summary' = [summary EXCEPT ![t][row[t].attempt] = "active"] /\ UNCHANGED row
  <2>1. /\ summary' \in [Task -> [Attempt -> {"none", "active", "ended"}]]
        /\ \A u \in Task \ {t} : summary'[u] = summary[u]
        /\ \A a \in Attempt \ {row[t].attempt} : summary'[t][a] = summary[t][a]
    BY <1>0, <1>2 DEF TypeOK
  <2> QED BY <1>0, <1>1, <1>2, <2>1 DEF OnlyCurrent, TypeOK
<1>3. CASE row' = [row EXCEPT ![t].marked = TRUE] /\ UNCHANGED summary
  <2> DEFINE x == [row[t] EXCEPT !.marked = TRUE]
  <2>1. /\ x \in RowRecord /\ x.attempt = row[t].attempt /\ x.status = row[t].status
        /\ x.hidden = row[t].hidden
    BY <1>0 DEF RowRecord
  <2>2. row' = [row EXCEPT ![t] = x]
    BY <1>3
  <2>3. row' \in [Task -> RowRecord] /\ row'[t] = x /\ \A u \in Task \ {t} : row'[u] = row[u]
    BY <1>0, <2>1, <2>2, RowPut
  <2>4. OnlyCurrent(t)'
    BY <1>0, <1>3, <2>1, <2>3 DEF OnlyCurrent
  <2> QED BY <1>0, <1>1, <1>3, <2>1, <2>3, <2>4 DEF TypeOK
<1>4. CASE UNCHANGED <<row, summary>>
  BY <1>0, <1>1, <1>4 DEF OnlyCurrent, TypeOK
<1> QED BY <1>2, <1>3, <1>4 DEF reserve

\* A runner appears for a task that nobody runs.
Starts(t, pc) ==
    /\ runners' \subseteq RunnerRecord /\ runners \subseteq runners'
    /\ \A r \in runners' \ runners : r.task = t
    /\ \A r, s \in runners' : r.task = t /\ s.task = t => s = r
    /\ \A r \in runners' : r.task = t => RunnerSound(r)' /\ r.pc = pc

\* A runner added for a task that nobody runs is the only one of that task.
LEMMA RunnerStarts ==
    ASSUME Inv, NEW t \in Task, Idle(t), OnlyCurrent(t)', row'[t].attempt = row[t].attempt,
           row[t].attempt \in Attempt, NEW pc \in {"run", "commit"},
           NEW out \in TerminalStatus \cup {"none"}, NEW last \in BOOLEAN,
           pc = "commit" => out \in TerminalStatus,
           runners' = runners \cup {Runner(t, row[t].attempt, pc, out, last)}
    PROVE  Starts(t, pc)
<1> DEFINE q == Runner(t, row[t].attempt, pc, out, last)
<1>1. /\ q \in RunnerRecord /\ q.task = t /\ q.attempt = row[t].attempt /\ q.pc = pc /\ q.out = out
  BY DEF Runner, RunnerRecord, RunnerPc
<1>2. RunnerSound(q)'
  BY <1>1 DEF RunnerSound
<1>3. \A r \in runners' : r.task = t => r = q
  BY DEF Idle
<1> QED BY <1>1, <1>2, <1>3 DEF Starts, Inv, TypeOK, Idle

\* The rows and the history outside t are as they were, and so are the runners.
LEMMA StartsOthers ==
    ASSUME NEW t \in Task, NEW pc, Starts(t, pc) \/ UNCHANGED runners,
           \A u \in Task \ {t} : row'[u] = row[u] /\ summary'[u] = summary[u]
    PROVE  Others(t)
  BY DEF Others, SameTask, Starts

\* A row that is Working or Canceled, and visible, is sound whatever its history.
LEMMA HeldRow ==
    ASSUME NEW t \in Task, row'[t].status \in {"Working", "Canceled"}, row'[t].hidden = FALSE,
           row'[t].attempt # 0
    PROVE  RowSound(t)'
  BY DEF RowSound, public

\* The reservation and the runner, in one step.
LEMMA ReserveStarts ==
    ASSUME Inv, NEW t \in Task, Ready(t), reserve(t), spawn(t)
    PROVE  /\ row' \in [Task -> RowRecord] /\ runners' \subseteq RunnerRecord
           /\ summary' \in [Task -> [Attempt -> {"none", "active", "ended"}]]
           /\ faults' \in 0 .. MaxFault
           /\ Others(t) /\ RowSound(t)' /\ Starts(t, "run")
           /\ row'[t].status # "none" /\ public(t)' = public(t)
           /\ \A u \in Task : row[u].status = "none" => row'[u].status = "none"
<1>1. /\ row' \in [Task -> RowRecord] /\ \A u \in Task \ {t} : row'[u] = row[u]
      /\ row'[t].status = row[t].status /\ row'[t].hidden = FALSE
      /\ row'[t].attempt = row[t].attempt /\ row[t].attempt \in Attempt
      /\ summary' \in [Task -> [Attempt -> {"none", "active", "ended"}]]
      /\ \A u \in Task \ {t} : summary'[u] = summary[u]
      /\ OnlyCurrent(t)' /\ faults' \in 0 .. MaxFault
  BY ReserveKeeps
<1>2. Idle(t) /\ row[t].status \in {"Working", "Canceled"}
  BY DEF Ready, Held
<1>3. Starts(t, "run")
  BY <1>1, <1>2, RunnerStarts DEF spawn
<1>4. Others(t)
  BY <1>1, <1>3, StartsOthers
<1>5. RowSound(t)'
  BY <1>1, <1>2, HeldRow, Tasks
<1>6. public(t)' = public(t)
  BY <1>1 DEF public, Ready, Held
<1> QED BY <1>1, <1>2, <1>3, <1>4, <1>5, <1>6 DEF Starts

\* The row of a fresh task.
LEMMA FreshRow ==
    ASSUME Inv, NEW t \in Task, row[t].status = "none", row' = [row EXCEPT ![t] = NewRow],
           UNCHANGED <<summary, runners>>
    PROVE  /\ row' \in [Task -> RowRecord] /\ row'[t] = NewRow /\ row'[t].status = "Working"
           /\ Others(t) /\ RowSound(t)' /\ Ready(t)' /\ Dormant(t)' /\ Idle(t)
           /\ ~Starting(t) /\ ~Checking(t) /\ ~Queued(t)
<1>1. /\ NewRow \in RowRecord /\ NewRow.status = "Working" /\ NewRow.hidden = FALSE
      /\ NewRow.attempt = 1 /\ NewRow.ck = "none"
  BY Tasks DEF NewRow, NoRow, RowRecord, TaskStatus
<1>2. /\ row' \in [Task -> RowRecord] /\ row'[t] = NewRow /\ \A u \in Task \ {t} : row'[u] = row[u]
  BY <1>1, RowPut DEF Inv
<1>3. RowSound(t) /\ RoleSound(t)
  BY DEF Inv, RowInv, RoleInv
<1>4. Idle(t) /\ \A a \in Attempt : summary[t][a] = "none"
  BY <1>3 DEF RowSound
<1>5. Others(t)
  BY <1>2 DEF Others, SameTask
<1>6. RowSound(t)'
  <2>1. row'[t].status \in {"Working", "Canceled"} /\ row'[t].hidden = FALSE /\ row'[t].attempt # 0
    BY <1>1, <1>2
  <2> QED BY <2>1, HeldRow
<1>7. Ready(t)' /\ Dormant(t)'
  BY <1>1, <1>2, <1>4 DEF Ready, Held, Idle, NoneActive, Dormant
<1>8. ~Starting(t) /\ ~Checking(t) /\ ~Queued(t)
  BY <1>3 DEF RoleSound, Ready, Reserved, Held
<1> QED BY <1>1, <1>2, <1>4, <1>5, <1>6, <1>7, <1>8

\* A Working row is canceled or interrupted.
LEMMA RowEnds ==
    ASSUME Inv, NEW t \in Task, working(t), NEW s \in {"Canceled", "Interrupted"},
           row' = [row EXCEPT ![t] = [row[t] EXCEPT !.status = s]], UNCHANGED <<summary, runners>>
    PROVE  /\ row' \in [Task -> RowRecord] /\ row'[t].status = s /\ row'[t].hidden = FALSE
           /\ row'[t].ck = row[t].ck
           /\ Others(t) /\ RowSound(t)' /\ (Idle(t) => Dormant(t)')
           /\ Idle(t)' = Idle(t)
           /\ s = "Canceled" => (Ready(t) => Ready(t)') /\ (Reserved(t) => Reserved(t)')
           /\ \A r \in runners' : r.task = t => RunnerSound(r)'
           /\ \A u \in Task : row[u].status = "none" => row'[u].status = "none"
<1> DEFINE x == [row[t] EXCEPT !.status = s]
<1>0. /\ row[t] \in RowRecord /\ row[t].status = "Working" /\ row[t].hidden = FALSE
      /\ row[t].attempt # 0 /\ TypeOK
  <2>1. row[t] \in RowRecord /\ row[t].hidden \in BOOLEAN /\ TypeOK /\ RowSound(t)
    BY DEF Inv, TypeOK, RowInv, RowRecord
  <2> QED BY <2>1 DEF RowSound, working, TerminalStatus
<1>1. /\ x \in RowRecord /\ x.status = s /\ x.hidden = row[t].hidden
      /\ x.attempt = row[t].attempt /\ x.marked = row[t].marked /\ x.ck = row[t].ck
  BY <1>0 DEF RowRecord, TaskStatus, TerminalStatus
<1>2. row' \in [Task -> RowRecord] /\ row'[t] = x /\ \A u \in Task \ {t} : row'[u] = row[u]
  BY <1>0, <1>1, RowPut
<1>3. Others(t)
  BY <1>2 DEF Others, SameTask
<1>4. RowSound(t)'
  BY <1>0, <1>1, <1>2 DEF RowSound, public, TerminalStatus
<1>5. Idle(t)' = Idle(t)
  BY DEF Idle
<1>6. Idle(t) => Dormant(t)'
  BY <1>0, <1>1, <1>2, <1>5 DEF Dormant, working
<1>7. s = "Canceled" => (Ready(t) => Ready(t)') /\ (Reserved(t) => Reserved(t)')
  BY <1>1, <1>2, <1>5 DEF Ready, Reserved, Held, NoneActive, OnlyCurrent
<1>8. ASSUME NEW r \in runners', r.task = t PROVE RunnerSound(r)'
  <2>1. RunnerSound(r)
    BY <1>8 DEF Inv, RunnerInv
  <2> QED BY <1>1, <1>2, <1>8, <2>1 DEF RunnerSound, OnlyCurrent, TerminalStatus
<1> QED BY <1>0, <1>1, <1>2, <1>3, <1>4, <1>5, <1>6, <1>7, <1>8

\* resume_one_working_task: the next attempt of a task that waits.
LEMMA ResumeKeeps ==
    ASSUME Inv, NEW t \in Task, Dormant(t), ResumeClaims(t), UNCHANGED <<summary, runners>>
    PROVE  /\ row' \in [Task -> RowRecord] /\ row'[t].status = "Working" /\ row'[t].ck = "none"
           /\ Others(t) /\ RowSound(t)' /\ Ready(t)' /\ Dormant(t)'
           /\ Idle(t) /\ faults' = faults
           /\ \A u \in Task : row[u].status = "none" => row'[u].status = "none"
<1> DEFINE x == resume_attempt(row[t])
<1>0. /\ row[t] \in RowRecord /\ row[t].status = "Working" /\ row[t].hidden = FALSE
      /\ row[t].attempt <= Cap /\ row[t].attempt \in Nat /\ TypeOK /\ row[t].ck = "none" /\ Idle(t)
      /\ \A a \in Attempt : summary[t][a] # "active"
  BY Tasks DEF Inv, TypeOK, RowRecord, working, ResumeClaims, resume_exhausted, Dormant, NoneActive
<1>1. /\ x \in RowRecord /\ x.status = "Working" /\ x.hidden = FALSE
      /\ x.attempt = row[t].attempt + 1 /\ x.ck = "none" /\ x.attempt # 0
  <2>1. row[t].attempt + 1 \in 0 .. Cap + 1 /\ row[t].attempt + 1 # 0
    BY <1>0, Tasks
  <2>2. x = [row[t] EXCEPT !.attempt = row[t].attempt + 1, !.marked = FALSE]
    BY DEF resume_attempt
  <2> QED BY <1>0, <2>1, <2>2 DEF RowRecord
<1>2. row' = [row EXCEPT ![t] = x] /\ faults' = faults
  BY DEF ResumeClaims, NoFault
<1>3. row' \in [Task -> RowRecord] /\ row'[t] = x /\ \A u \in Task \ {t} : row'[u] = row[u]
  BY <1>0, <1>1, <1>2, RowPut
<1>4. Others(t)
  BY <1>3 DEF Others, SameTask
<1>5. RowSound(t)'
  BY <1>1, <1>3, HeldRow
<1>6. Ready(t)' /\ Dormant(t)'
  BY <1>0, <1>1, <1>3 DEF Ready, Held, Idle, NoneActive, Dormant
<1> QED BY <1>0, <1>1, <1>2, <1>3, <1>4, <1>5, <1>6

\* The exits of a resumption: the row is left alone or interrupted.
LEMMA GivesUpKeeps ==
    ASSUME Inv, NEW t \in Task, Dormant(t), row[t].ck = "none", ResumeGivesUp(t),
           UNCHANGED <<summary, runners>>
    PROVE  /\ row' \in [Task -> RowRecord] /\ row'[t].ck = "none"
           /\ Others(t) /\ RowSound(t)' /\ Dormant(t)' /\ Idle(t)
           /\ faults' \in 0 .. MaxFault
           /\ \A u \in Task : row[u].status = "none" => row'[u].status = "none"
           /\ \/ UNCHANGED row
              \/ public(t) = "Working" /\ public(t)' = "Interrupted"
<1>0. TypeOK /\ Idle(t) /\ row[t].hidden = FALSE
  BY DEF Inv, Dormant, TypeOK, RowRecord
<1>1. faults' \in 0 .. MaxFault
  BY <1>0, FaultType DEF ResumeGivesUp
<1>2. UNCHANGED row \/ (working(t) /\ row' = [row EXCEPT ![t] = [row[t] EXCEPT !.status = "Interrupted"]])
  <2>1. \/ row' = [row EXCEPT ![t] = row[t]]
        \/ row' = [row EXCEPT ![t] = set_terminal_sequenced(row[t], "Interrupted")]
    BY DEF ResumeGivesUp
  <2>2. \/ set_terminal_sequenced(row[t], "Interrupted") = row[t]
        \/ /\ working(t)
           /\ set_terminal_sequenced(row[t], "Interrupted") = [row[t] EXCEPT !.status = "Interrupted"]
    BY DEF set_terminal_sequenced, working
  <2>3. [row EXCEPT ![t] = row[t]] = row
    BY <1>0 DEF TypeOK
  <2> QED BY <2>1, <2>2, <2>3
<1>3. CASE UNCHANGED row
  <2>1. \A u \in Task : SameTask(u)
    BY <1>3 DEF SameTask
  <2>2. RowSound(t)' /\ Dormant(t)'
    BY <2>1, SameKeeps DEF Inv, RowInv
  <2> QED BY <1>0, <1>1, <1>3, <2>1, <2>2 DEF Others, TypeOK
<1>4. CASE working(t) /\ row' = [row EXCEPT ![t] = [row[t] EXCEPT !.status = "Interrupted"]]
  <2>1. public(t) = "Working"
    BY <1>0, <1>4 DEF public, working
  <2>2. /\ row' \in [Task -> RowRecord] /\ row'[t].status = "Interrupted" /\ row'[t].hidden = FALSE
        /\ row'[t].ck = row[t].ck /\ Others(t) /\ RowSound(t)' /\ Dormant(t)'
        /\ \A u \in Task : row[u].status = "none" => row'[u].status = "none"
    BY <1>0, <1>4, RowEnds
  <2>3. public(t)' = "Interrupted"
    BY <2>2 DEF public
  <2> QED BY <1>0, <1>1, <2>1, <2>2, <2>3
<1> QED BY <1>2, <1>3, <1>4

-----------------------------------------------------------------------------
(* The loop of a batch: steps that concern an item *)

\* The step of a loop that is at item t.
LoopTakes(b, t) ==
    /\ adm' \in [Batch -> LoopRecord]
    /\ \A c \in Batch \ {b} : adm'[c] = adm[c]
    /\ adm'[b].queue \subseteq adm[b].queue
    /\ adm'[b].pending \subseteq adm[b].pending
    /\ adm'[b].pc \in {"spawn", "created", "check"} => adm'[b].item = t

\* It gives no role to another task.
LEMMA LoopTakesRoles ==
    ASSUME NEW b \in Batch, NEW t, LoopTakes(b, t), UNCHANGED <<submitting, boot>>, NEW u, u # t
    PROVE  NoNewRole(u)
<1>1. \A c \in Batch : /\ adm'[c].queue \subseteq adm[c].queue
                       /\ adm'[c].pending \subseteq adm[c].pending
                       /\ adm'[c].pc \in {"spawn", "created", "check"} =>
                            adm'[c] = adm[c] \/ adm'[c].item = t
  BY DEF LoopTakes
<1>2. Starting(u)' => Starting(u)
  BY <1>1 DEF Starting
<1>3. Checking(u)' => Checking(u)
  BY <1>1 DEF Checking
<1>4. (Pending(u)' => Pending(u)) /\ (Queued(u)' => Queued(u))
  BY <1>1 DEF Pending, Queued
<1> QED BY <1>2, <1>3, <1>4 DEF NoNewRole, Waiting

\* The roles of an item come from the loop of its batch.
LEMMA ItemRoles ==
    ASSUME Inv, NEW b \in Batch, NEW t \in Items[b], adm[b].pc # "none", LoopTakes(b, t),
           UNCHANGED <<submitting, boot>>
    PROVE  /\ Starting(t)' => adm'[b].pc \in {"spawn", "created"} /\ adm'[b].item = t
           /\ Checking(t)' => adm'[b].pc = "check" /\ adm'[b].item = t
           /\ Pending(t)' => t \in adm'[b].pending
           /\ Queued(t)' => t \in adm'[b].queue
           /\ Waiting(t)' => t \in adm'[b].queue
           /\ boot'.phase \notin EarlyPhase
<1>1. boot.phase \in {"batches", "up"} /\ b \notin boot.todo
  BY LoopPhase
<1>2. t \notin submitting
  BY Tasks DEF Inv, TypeOK
<1>3. \A c \in Batch \ {b} : /\ adm'[c] = adm[c] /\ t \notin Items[c]
                             /\ t \notin adm[c].queue /\ t \notin adm[c].pending
                             /\ adm[c].pc \in {"spawn", "created", "check"} => adm[c].item # t
  BY Tasks DEF LoopTakes, Inv, LoopInv, LoopSound
<1>4. Starting(t)' => adm'[b].pc \in {"spawn", "created"} /\ adm'[b].item = t
  BY <1>1, <1>2, <1>3 DEF Starting
<1>5. Checking(t)' => adm'[b].pc = "check" /\ adm'[b].item = t
  BY <1>3 DEF Checking
<1>6. (Pending(t)' => t \in adm'[b].pending) /\ (Queued(t)' => t \in adm'[b].queue)
  BY <1>3 DEF Pending, Queued
<1>7. boot.phase = "batches" => boot.todo \subseteq Batch
  BY DEF Inv, BootInv
<1>8. Waiting(t)' => t \in adm'[b].queue
  BY <1>1, <1>3, <1>6, <1>7 DEF Waiting
<1> QED BY <1>1, <1>4, <1>5, <1>6, <1>8 DEF EarlyPhase

\* The invariant after a step of a loop that concerns one of its items.
LEMMA LoopTakesInv ==
    ASSUME Inv, NEW b \in Batch, NEW t \in Items[b], adm[b].pc # "none", LoopTakes(b, t),
           LoopSound(b)', RowSound(t)', Others(t), RoleSound(t)',
           row' \in [Task -> RowRecord],
           summary' \in [Task -> [Attempt -> {"none", "active", "ended"}]],
           runners' \subseteq RunnerRecord, tok' \in [Task -> {"none", "live", "fired"}],
           faults' \in 0 .. MaxFault,
           \A r, s \in runners' : r.task = t /\ s.task = t => s = r,
           \A r \in runners' : r.task = t => RunnerSound(r)',
           UNCHANGED <<batch, flips, submitting, boot, crashes, btok, bfire, poll>>
    PROVE  Inv'
<1>1. t \in Task
  BY Tasks
<1>2. TypeOK'
  BY DEF LoopTakes, Inv, TypeOK
<1>3. BootInv'
  BY LoopBoot DEF LoopTakes
<1>4. LoopInv'
  <2>1. ASSUME NEW c \in Batch \ {b} PROVE LoopSound(c)'
    <3>1. \A u \in Items[c] : row'[u] = row[u]
      BY Tasks DEF Others, SameTask
    <3> QED BY <3>1, LoopSame DEF LoopTakes
  <2> QED BY <2>1 DEF LoopInv
<1>5. \A u \in Task \ {t} : NoNewRole(u)
  BY LoopTakesRoles
<1> QED BY <1>1, <1>2, <1>3, <1>4, <1>5, StepOf

\* The loop claims the attempt of an item it resumes, or gives the item up.
LEMMA ResumeClaimInv ==
    ASSUME Inv, NEW b \in Batch, NEW t \in Items[b], ResumeClaim(b, t)
    PROVE  Inv'
<1>0. /\ adm[b].pc = "claim" /\ adm[b].item = t /\ TypeOK /\ adm[b] \in LoopRecord /\ LoopSound(b)
      /\ t \in adm[b].queue /\ t \in Task /\ batch[b] # "none"
      /\ UNCHANGED <<summary, batch, runners, tok, flips, submitting, boot, crashes,
                     btok, bfire, poll>>
  BY Tasks DEF ResumeClaim, Inv, TypeOK, LoopInv, LoopSound
<1>1. Dormant(t) /\ row[t].ck = "none" /\ row[t].status # "none" /\ Idle(t) /\ RunnerInv
  BY <1>0 DEF Inv, RoleInv, RoleSound, Queued, Waiting, Dormant
<1>2. \A r \in runners' : r.task # t
  BY <1>0, <1>1 DEF Idle
<1>3. CASE ResumeClaims(t) /\ goto(b, "spawn")
  <2> DEFINE x == [adm[b] EXCEPT !.pc = "spawn"]
  <2>1. /\ x \in LoopRecord /\ x.pc = "spawn" /\ x.queue = adm[b].queue /\ x.item = t
        /\ x.pending = adm[b].pending /\ x.inflight = adm[b].inflight
    BY <1>0 DEF LoopRecord, LoopPc
  <2>2. adm' = [adm EXCEPT ![b] = x]
    BY <1>3 DEF goto
  <2>3. LoopTakes(b, t) /\ adm'[b] = x
    BY <1>0, <2>1, <2>2, LoopPut DEF LoopTakes
  <2>4. /\ row' \in [Task -> RowRecord] /\ row'[t].status = "Working" /\ row'[t].ck = "none"
        /\ Others(t) /\ RowSound(t)' /\ Ready(t)' /\ Dormant(t)' /\ faults' = faults
    BY <1>0, <1>1, <1>3, ResumeKeeps
  <2>5. LoopSound(b)'
    BY <1>0, <2>1, <2>3 DEF LoopSound
  <2>6. RoleSound(t)'
    <3>1. ~Checking(t)' /\ ~Pending(t)' /\ boot'.phase \notin EarlyPhase
      <4>1. t \notin adm[b].pending
        BY <1>0, <1>1 DEF Inv, RoleInv, RoleSound, Pending
      <4> QED BY <1>0, <2>1, <2>3, <4>1, ItemRoles
    <3> QED BY <2>4, <3>1 DEF RoleSound, EarlyPhase
  <2> QED BY <1>0, <1>2, <2>3, <2>4, <2>5, <2>6, LoopTakesInv DEF TypeOK
<1>4. CASE /\ ResumeGivesUp(t)
           /\ adm' = [adm EXCEPT ![b].pc = "top", ![b].queue = @ \ {t}, ![b].item = NoTask]
  <2> DEFINE x == [adm[b] EXCEPT !.pc = "top", !.queue = adm[b].queue \ {t}, !.item = NoTask]
  <2>1. /\ x \in LoopRecord /\ x.pc = "top" /\ x.queue = adm[b].queue \ {t}
        /\ x.pending = adm[b].pending /\ x.inflight = adm[b].inflight
    BY <1>0 DEF LoopRecord, LoopPc
  <2>2. adm' = [adm EXCEPT ![b] = x]
    BY <1>0, <1>4 DEF TypeOK, LoopRecord
  <2>3. LoopTakes(b, t) /\ adm'[b] = x
    BY <1>0, <2>1, <2>2, LoopPut DEF LoopTakes
  <2>4. /\ row' \in [Task -> RowRecord] /\ Others(t) /\ RowSound(t)' /\ Dormant(t)'
        /\ faults' \in 0 .. MaxFault
    BY <1>0, <1>1, <1>4, GivesUpKeeps
  <2>5. LoopSound(b)'
    BY <1>0, <2>1, <2>3 DEF LoopSound
  <2>6. RoleSound(t)'
    <3>1. ~Starting(t)' /\ ~Checking(t)' /\ ~Pending(t)' /\ ~Queued(t)' /\ boot'.phase \notin EarlyPhase
      <4>1. t \notin adm[b].pending
        BY <1>0, <1>1 DEF Inv, RoleInv, RoleSound, Pending
      <4> QED BY <1>0, <2>1, <2>3, <4>1, ItemRoles
    <3> QED BY <2>4, <3>1 DEF RoleSound, EarlyPhase
  <2> QED BY <1>0, <1>2, <2>3, <2>4, <2>5, <2>6, LoopTakesInv DEF TypeOK
<1> QED BY <1>3, <1>4 DEF ResumeClaim

\* An item that the loop has let go of has no role.
LEMMA NoRole ==
    ASSUME NEW t, ~Starting(t)', ~Checking(t)', ~Pending(t)', ~Queued(t)', ~Waiting(t)',
           boot'.phase \notin EarlyPhase
    PROVE  RoleSound(t)'
  BY DEF RoleSound, EarlyPhase

\* The loop spawns the runner of a resumed item.
LEMMA ResumeSpawnInv ==
    ASSUME Inv, NEW b \in Batch, NEW t \in Items[b], ResumeSpawn(b, t)
    PROVE  Inv'
<1>0. /\ adm[b].pc = "spawn" /\ adm[b].item = t /\ TypeOK /\ adm[b] \in LoopRecord /\ LoopSound(b)
      /\ t \in adm[b].queue /\ t \in Task /\ batch[b] # "none"
      /\ UNCHANGED <<batch, flips, submitting, boot, crashes, btok, bfire, poll>>
  BY Tasks DEF ResumeSpawn, Inv, TypeOK, LoopInv, LoopSound
<1>1. Ready(t) /\ row[t].status # "none" /\ ~Pending(t)
  BY <1>0 DEF Inv, RoleInv, RoleSound, Starting, Ready, Held
<1>2. /\ row' \in [Task -> RowRecord] /\ runners' \subseteq RunnerRecord
      /\ summary' \in [Task -> [Attempt -> {"none", "active", "ended"}]]
      /\ faults' \in 0 .. MaxFault
      /\ Others(t) /\ RowSound(t)' /\ Starts(t, "run")
  BY <1>0, <1>1, ReserveStarts DEF ResumeSpawn
<1> DEFINE x == [adm[b] EXCEPT !.pc = "top", !.queue = adm[b].queue \ {t}, !.item = NoTask,
                               !.inflight = adm[b].inflight \cup {t}]
<1>3. /\ x \in LoopRecord /\ x.pc = "top" /\ x.queue = adm[b].queue \ {t}
      /\ x.pending = adm[b].pending /\ x.inflight = adm[b].inflight \cup {t}
  BY <1>0 DEF LoopRecord, LoopPc
<1>4. adm' = [adm EXCEPT ![b] = x]
  BY <1>0 DEF ResumeSpawn, TypeOK, LoopRecord
<1>5. LoopTakes(b, t) /\ adm'[b] = x
  BY <1>0, <1>3, <1>4, LoopPut DEF LoopTakes
<1>6. LoopSound(b)'
  BY <1>0, <1>3, <1>5 DEF LoopSound
<1>7. RoleSound(t)'
  <2>1. t \notin adm[b].pending
    BY <1>1 DEF Pending
  <2> QED BY <1>0, <1>3, <1>5, <2>1, ItemRoles, NoRole
<1>8. tok' \in [Task -> {"none", "live", "fired"}]
  BY <1>0 DEF ResumeSpawn, TypeOK
<1> QED BY <1>0, <1>2, <1>5, <1>6, <1>7, <1>8, LoopTakesInv DEF Starts

\* The loop reserves the attempt of an item it has created.
LEMMA CreatedInv ==
    ASSUME Inv, NEW b \in Batch, NEW t \in Items[b], Created(b, t)
    PROVE  Inv'
<1>0. /\ adm[b].pc = "created" /\ adm[b].item = t /\ TypeOK /\ adm[b] \in LoopRecord /\ LoopSound(b)
      /\ t \notin adm[b].queue /\ t \notin adm[b].pending /\ t \in Task /\ batch[b] # "none"
      /\ UNCHANGED <<batch, runners, tok, flips, submitting, boot, crashes, btok, bfire, poll>>
  BY Tasks DEF Created, Inv, TypeOK, LoopInv, LoopSound
<1>1. Ready(t) /\ Idle(t) /\ row[t].status \in {"Working", "Canceled"}
  BY <1>0 DEF Inv, RoleInv, RoleSound, Starting, Ready, Held
<1>2. /\ row' \in [Task -> RowRecord] /\ \A u \in Task \ {t} : row'[u] = row[u]
      /\ row'[t].status = row[t].status /\ row'[t].hidden = FALSE
      /\ row'[t].attempt = row[t].attempt /\ row[t].attempt \in Attempt
      /\ summary' \in [Task -> [Attempt -> {"none", "active", "ended"}]]
      /\ \A u \in Task \ {t} : summary'[u] = summary[u]
      /\ OnlyCurrent(t)' /\ faults' \in 0 .. MaxFault
  BY <1>0, <1>1, ReserveKeeps DEF Created
<1>3. Others(t)
  BY <1>0, <1>2 DEF Others, SameTask
<1>4. RowSound(t)'
  BY <1>1, <1>2, HeldRow, Tasks
<1>5. Reserved(t)'
  BY <1>0, <1>1, <1>2 DEF Reserved, Held, Idle
<1> DEFINE x == [adm[b] EXCEPT !.pc = "check", !.seen = batch[b]]
<1>6. /\ x \in LoopRecord /\ x.pc = "check" /\ x.queue = adm[b].queue /\ x.item = t
      /\ x.pending = adm[b].pending /\ x.inflight = adm[b].inflight
  BY <1>0 DEF LoopRecord, LoopPc, TypeOK
<1>7. adm' = [adm EXCEPT ![b] = x]
  BY <1>0 DEF Created, TypeOK
<1>8. LoopTakes(b, t) /\ adm'[b] = x
  BY <1>0, <1>6, <1>7, LoopPut DEF LoopTakes
<1>9. LoopSound(b)'
  BY <1>0, <1>6, <1>8 DEF LoopSound
<1>10. RoleSound(t)'
  <2>1. ~Starting(t)' /\ ~Pending(t)' /\ ~Queued(t)' /\ ~Waiting(t)' /\ boot'.phase \notin EarlyPhase
    BY <1>0, <1>6, <1>8, ItemRoles
  <2> QED BY <1>5, <2>1 DEF RoleSound, EarlyPhase
<1>11. \A r \in runners' : r.task # t
  BY <1>0, <1>1 DEF Idle
<1> QED BY <1>0, <1>2, <1>3, <1>4, <1>8, <1>9, <1>10, <1>11, LoopTakesInv DEF TypeOK

\* The loop looks at the token of a reserved item and spawns it or ends it.
LEMMA CheckInv ==
    ASSUME Inv, NEW b \in Batch, NEW t \in Items[b], Check(b, t)
    PROVE  Inv'
<1>0. /\ adm[b].pc = "check" /\ adm[b].item = t /\ TypeOK /\ adm[b] \in LoopRecord /\ LoopSound(b)
      /\ t \notin adm[b].queue /\ t \notin adm[b].pending /\ t \in Task /\ batch[b] # "none"
      /\ UNCHANGED <<row, summary, batch, tok, flips, submitting, boot, faults, crashes,
                     btok, bfire, poll>>
  BY Tasks DEF Check, Inv, TypeOK, LoopInv, LoopSound, storeVars
<1>1. Reserved(t) /\ Idle(t) /\ row[t].status # "none" /\ RowSound(t)
  BY <1>0 DEF Inv, RowInv, RoleInv, RoleSound, Checking, Reserved, Held
<1>2. row[t].attempt \in Attempt /\ OnlyCurrent(t)'
  BY <1>0, <1>1, Tasks DEF Reserved, OnlyCurrent, RowSound, TypeOK, RowRecord
<1>3. RowSound(t)'
  <2>1. ~(row[t].status = "none")
    BY <1>1
  <2> QED BY <1>0, <1>1, <2>1 DEF RowSound, public
<1>4. ASSUME NEW x \in LoopRecord, adm' = [adm EXCEPT ![b] = x], x.pc \in {"top", "finalize"},
             x.pc = "finalize" => x.item = t,
             x.queue = adm[b].queue, x.pending = adm[b].pending,
             x.inflight \subseteq adm[b].inflight \cup {t},
             NEW pc, Starts(t, pc)
      PROVE  Inv'
  <2>1. LoopTakes(b, t) /\ adm'[b] = x
    BY <1>0, <1>4, LoopPut DEF LoopTakes
  <2>2. LoopSound(b)'
    BY <1>0, <1>4, <2>1 DEF LoopSound
  <2>3. RoleSound(t)'
    BY <1>0, <1>4, <2>1, ItemRoles, NoRole
  <2>4. Others(t)
    BY <1>0, <1>4, StartsOthers
  <2>5. runners' \subseteq RunnerRecord
    BY <1>4 DEF Starts
  <2> QED BY <1>0, <1>3, <1>4, <2>1, <2>2, <2>3, <2>4, <2>5, LoopTakesInv DEF TypeOK, Starts
<1>5. CASE /\ runners' = runners \cup {Runner(t, row[t].attempt, "commit", "Canceled", TRUE)}
           /\ adm' = [adm EXCEPT ![b].pc = "finalize", ![b].seen = "none"]
  <2> DEFINE x == [adm[b] EXCEPT !.pc = "finalize", !.seen = "none"]
  <2>1. /\ x \in LoopRecord /\ x.pc = "finalize" /\ x.queue = adm[b].queue /\ x.item = t
        /\ x.pending = adm[b].pending /\ x.inflight = adm[b].inflight
    BY <1>0 DEF LoopRecord, LoopPc, BatchStatus
  <2>2. adm' = [adm EXCEPT ![b] = x]
    BY <1>0, <1>5 DEF TypeOK
  <2>3. Starts(t, "commit")
    BY <1>0, <1>1, <1>2, <1>5, RunnerStarts DEF TerminalStatus
  <2> QED BY <1>4, <2>1, <2>2, <2>3
<1>6. CASE /\ spawn(t)
           /\ adm' = [adm EXCEPT ![b].pc = "top", ![b].inflight = @ \cup {t},
                                 ![b].item = NoTask, ![b].seen = "none"]
  <2> DEFINE x == [adm[b] EXCEPT !.pc = "top", !.inflight = adm[b].inflight \cup {t},
                                 !.item = NoTask, !.seen = "none"]
  <2>1. /\ x \in LoopRecord /\ x.pc = "top" /\ x.queue = adm[b].queue
        /\ x.pending = adm[b].pending /\ x.inflight = adm[b].inflight \cup {t}
    BY <1>0 DEF LoopRecord, LoopPc, BatchStatus
  <2>2. adm' = [adm EXCEPT ![b] = x]
    BY <1>0, <1>6 DEF TypeOK, LoopRecord
  <2>3. Starts(t, "run")
    BY <1>0, <1>1, <1>2, <1>6, RunnerStarts DEF spawn
  <2> QED BY <1>4, <2>1, <2>2, <2>3
<1> QED BY <1>5, <1>6 DEF Check

\* The loop creates the row of its next item, or fails its batch.
LEMMA NewChildInv ==
    ASSUME Inv, NEW b \in Batch, NEW t \in Items[b], NewChild(b, t)
    PROVE  Inv'
<1>0. /\ adm[b].pc = "admit" /\ TypeOK /\ adm[b] \in LoopRecord /\ LoopSound(b)
      /\ adm[b].queue = {} /\ t \in adm[b].pending /\ t \in Task /\ batch[b] # "none"
      /\ UNCHANGED <<summary, runners, flips, submitting, boot, crashes, btok, bfire, poll>>
  BY Tasks DEF NewChild, Inv, TypeOK, LoopInv, LoopSound
<1>1. row[t].status = "none"
  BY <1>0 DEF Inv, RoleInv, RoleSound, Pending
<1>2. CASE /\ row' = [row EXCEPT ![t] = NewRow]
           /\ tok' = [tok EXCEPT ![t] = "live"]
           /\ adm' = [adm EXCEPT ![b].pending = @ \ {t}, ![b].pc = "created", ![b].item = t]
           /\ NoFault /\ UNCHANGED batch
  <2> DEFINE x == [adm[b] EXCEPT !.pending = adm[b].pending \ {t}, !.pc = "created", !.item = t]
  <2>1. /\ x \in LoopRecord /\ x.pc = "created" /\ x.queue = adm[b].queue /\ x.item = t
        /\ x.pending = adm[b].pending \ {t} /\ x.inflight = adm[b].inflight
    BY <1>0 DEF LoopRecord, LoopPc
  <2>2. adm' = [adm EXCEPT ![b] = x]
    BY <1>0, <1>2 DEF TypeOK, LoopRecord
  <2>3. LoopTakes(b, t) /\ adm'[b] = x
    BY <1>0, <2>1, <2>2, LoopPut DEF LoopTakes
  <2>4. /\ row' \in [Task -> RowRecord] /\ Others(t) /\ RowSound(t)' /\ Ready(t)' /\ Dormant(t)'
        /\ Idle(t)
    BY <1>0, <1>1, <1>2, FreshRow
  <2>5. LoopSound(b)'
    BY <1>0, <1>2, <2>1, <2>3 DEF LoopSound
  <2>6. RoleSound(t)'
    <3>1. ~Checking(t)' /\ ~Pending(t)' /\ ~Queued(t)' /\ boot'.phase \notin EarlyPhase
      BY <1>0, <2>1, <2>3, ItemRoles
    <3> QED BY <2>4, <3>1 DEF RoleSound, EarlyPhase
  <2>7. \A r \in runners' : r.task # t
    BY <1>0, <2>4 DEF Idle
  <2>8. tok' \in [Task -> {"none", "live", "fired"}] /\ faults' \in 0 .. MaxFault
    BY <1>0, <1>2 DEF TypeOK, NoFault
  <2> QED BY <1>0, <1>2, <2>3, <2>4, <2>5, <2>6, <2>7, <2>8, LoopTakesInv DEF TypeOK
<1>3. CASE /\ settle_batch_if_status(b, "Working", "Failed")
           /\ adm' = [adm EXCEPT ![b].pc = "top", ![b].failed = TRUE]
           /\ Fault /\ UNCHANGED <<row, tok>>
  <2> DEFINE x == [adm[b] EXCEPT !.pc = "top", !.failed = TRUE]
  <2>1. /\ x \in LoopRecord /\ x.pc = "top" /\ x.queue = adm[b].queue
        /\ x.pending = adm[b].pending /\ x.inflight = adm[b].inflight
    BY <1>0 DEF LoopRecord, LoopPc
  <2>2. adm' = [adm EXCEPT ![b] = x]
    BY <1>0, <1>3 DEF TypeOK
  <2>3. Goes(b, "top")
    BY <1>0, <2>1, <2>2, LoopPut DEF Goes, LoopMoves
  <2>4. /\ batch' \in [Batch -> BatchStatus] /\ \A c \in Batch \ {b} : batch'[c] = batch[c]
        /\ batch'[b] # "none"
    BY <1>0, <1>3 DEF settle_batch_if_status, TypeOK, BatchStatus
  <2>5. LoopSound(b)'
    BY <1>0, <1>3, <2>3, <2>4, GoesSound
  <2>6. faults' \in 0 .. MaxFault
    BY <1>0, <1>3, FaultType
  <2> QED BY <1>0, <1>3, <2>3, <2>4, <2>5, <2>6, LoopMovesInv DEF Goes, TypeOK
<1> QED BY <1>1, <1>2, <1>3 DEF NewChild

\* Every step of a loop keeps the invariant.
LEMMA LoopStepInv ==
    ASSUME Inv, NEW b \in Batch, LoopStep(b)
    PROVE  Inv'
  BY RegisterInv, TopInv, AwaitPermitInv, DrainInv, SelectInv, RollupInv, LeaveInv, ResumeGetInv,
     ResumeClaimInv, ResumeSpawnInv, NewChildInv, CreatedInv, CheckInv, FinalizedInv DEF LoopStep

-----------------------------------------------------------------------------
(* The clients *)

\* Steps that touch neither the tasks nor the loops nor boot.
LEMMA AsideInv ==
    ASSUME Inv, UNCHANGED <<row, summary, runners, submitting, boot, adm>>, TypeOK',
           boot.phase # "up" => UNCHANGED <<flips, poll>>,
           \A b \in Batch : /\ batch'[b] = "none" => batch[b] = "none"
                            /\ boot.phase = "batches" => batch'[b] = batch[b]
    PROVE  Inv'
<1>1. \A u \in Task : NoNewRole(u)
  BY RolesUnchanged
<1>2. LoopInv'
  BY LoopSame DEF LoopInv
<1>3. BootInv'
  BY DEF Inv, BootInv, active
<1> QED BY <1>1, <1>2, <1>3, StepOfNone

\* A client is served, so boot is over.
LEMMA Served ==
    ASSUME Inv
    PROVE  /\ submitting # {} => boot.phase = "up"
           /\ flips # {} => boot.phase = "up"
           /\ \A b \in Batch : poll[b] # "none" => boot.phase = "up"
  BY DEF Inv, BootInv

\* run_batch creates the row of a batch and starts its loop.
LEMMA RunBatchInv ==
    ASSUME Inv, NEW b \in Batch, RunBatch(b)
    PROVE  Inv'
<1> DEFINE x == NewLoop("register", {}, Items[b])
<1>0. /\ TypeOK /\ boot.phase = "up" /\ batch[b] = "none" /\ adm[b].pc = "none"
      /\ \A t \in Items[b] : row[t].status = "none"
      /\ UNCHANGED <<row, summary, taskVars, btok, bfire, poll>>
  BY DEF RunBatch, Inv, LoopInv, LoopSound
<1>1. /\ x \in LoopRecord /\ x.pc = "register" /\ x.queue = {} /\ x.pending = Items[b]
      /\ x.inflight = {}
  BY Tasks DEF NewLoop, NoLoop, LoopRecord, LoopPc, BatchStatus
<1>2. adm' \in [Batch -> LoopRecord] /\ adm'[b] = x /\ \A c \in Batch \ {b} : adm'[c] = adm[c]
  BY <1>0, <1>1, LoopPut DEF RunBatch
<1>3. /\ batch' \in [Batch -> BatchStatus] /\ batch'[b] = "Working"
      /\ \A c \in Batch \ {b} : batch'[c] = batch[c]
  BY <1>0 DEF RunBatch, TypeOK, BatchStatus
<1>4. TypeOK'
  BY <1>0, <1>2, <1>3 DEF TypeOK, taskVars
<1>5. BootInv'
  BY <1>0 DEF Inv, BootInv, EarlyPhase, taskVars
<1>6. LoopInv'
  <2>1. LoopSound(b)'
    BY <1>1, <1>2, <1>3 DEF LoopSound
  <2> QED BY <1>0, <1>2, <1>3, <2>1, LoopSame DEF LoopInv
<1>7. ASSUME NEW u \in Task PROVE NoNewRole(u) \/ RoleSound(u)'
  <2>1. /\ Starting(u)' => Starting(u)
        /\ Checking(u)' => Checking(u)
        /\ Queued(u)' => Queued(u)
    BY <1>0, <1>1, <1>2 DEF Starting, Checking, Queued, taskVars
  <2>2. Waiting(u)' => Waiting(u)
    BY <1>0, <2>1 DEF Waiting, taskVars
  <2>3. Pending(u)' => Pending(u) \/ u \in Items[b]
    BY <1>1, <1>2 DEF Pending
  <2>4. RoleSound(u) /\ SameTask(u)
    BY <1>0 DEF Inv, RoleInv, SameTask, taskVars
  <2>5. boot'.phase # "sweep"
    BY <1>0 DEF taskVars
  <2> QED BY <1>0, <2>1, <2>2, <2>3, <2>4, <2>5, SameKeeps DEF RoleSound, SameTask
<1> QED BY <1>0, <1>4, <1>5, <1>6, <1>7, StepOfNone DEF taskVars

\* Cancellation and polling of a batch keep the invariant.
LEMMA BatchClientInv ==
    ASSUME Inv, NEW b \in Batch, BatchClient(b)
    PROVE  Inv'
<1>0. TypeOK
  BY DEF Inv
<1>1. CASE CancelBatch(b)
  <2>1. batch' \in [Batch -> BatchStatus] /\ \A c \in Batch : batch'[c] = "none" => batch[c] = "none"
    BY <1>0, <1>1 DEF CancelBatch, cancel_batch_if_working, TypeOK, BatchStatus
  <2> QED BY <1>0, <1>1, <2>1, AsideInv DEF CancelBatch, taskVars, TypeOK
<1>2. CASE CancelBatchFire(b)
  <2>1. btok' \in [Batch -> {"none", "live", "fired"}]
    BY <1>0, <1>2 DEF CancelBatchFire, TypeOK
  <2> QED BY <1>0, <1>2, <2>1, AsideInv DEF CancelBatchFire, taskVars, storeVars, TypeOK
<1>3. CASE Poll(b)
  <2>1. poll' \in [Batch -> {"none", "Working", "Canceling"}]
    BY <1>0, <1>3 DEF Poll, TypeOK, Settleable
  <2> QED BY <1>0, <1>3, <2>1, AsideInv DEF Poll, taskVars, storeVars, TypeOK
<1>4. CASE PollSettle(b)
  <2>1. batch' \in [Batch -> BatchStatus] /\ \A c \in Batch : batch'[c] = "none" => batch[c] = "none"
    BY <1>0, <1>4 DEF PollSettle, settle_batch_if_status, SettledAs, TypeOK, BatchStatus
  <2>2. poll' \in [Batch -> {"none", "Working", "Canceling"}]
    BY <1>0, <1>4 DEF PollSettle, TypeOK
  <2>3. boot.phase = "up"
    BY <1>4, Served DEF PollSettle
  <2> QED BY <1>0, <1>4, <2>1, <2>2, <2>3, AsideInv DEF PollSettle, taskVars, TypeOK
<1> QED BY <1>1, <1>2, <1>3, <1>4, RunBatchInv DEF BatchClient

\* The invariant after a step of a client, or of boot, that concerns one task.
LEMMA TaskStepOf ==
    ASSUME Inv, NEW t \in Task, Others(t), RowSound(t)', RoleSound(t)',
           row' \in [Task -> RowRecord],
           summary' \in [Task -> [Attempt -> {"none", "active", "ended"}]],
           runners' \subseteq RunnerRecord, tok' \in [Task -> {"none", "live", "fired"}],
           faults' \in 0 .. MaxFault, submitting' \subseteq Solo, flips' \subseteq Task,
           boot' \in BootRecord, BootInv',
           UNCHANGED <<batch, crashes, adm, btok, bfire, poll>>,
           \A r, s \in runners' : r.task = t /\ s.task = t => s = r,
           \A r \in runners' : r.task = t => RunnerSound(r)',
           \A u \in Task \ {t} : NoNewRole(u),
           t \in Solo \/ (row[t].status = "none" => row'[t].status = "none")
    PROVE  Inv'
<1>1. TypeOK'
  BY DEF Inv, TypeOK
<1>2. LoopInv'
  <2>1. \A b \in Batch : \A u \in Items[b] : row[u].status = "none" => row'[u].status = "none"
    BY Tasks DEF Others, SameTask
  <2> QED BY <2>1, LoopSame DEF LoopInv
<1> QED BY <1>1, <1>2, StepOf

\* A submission creates the row of a task and reserves its attempt.
LEMMA SubmitInv ==
    ASSUME Inv, NEW t \in Task, Submit(t), UNCHANGED <<adm, btok, bfire, poll>>
    PROVE  Inv'
<1>0. /\ TypeOK /\ boot.phase = "up" /\ t \in Solo /\ row[t].status = "none"
      /\ row' = [row EXCEPT ![t] = NewRow] /\ submitting' = submitting \cup {t}
      /\ UNCHANGED <<summary, batch, runners, tok, flips, boot, faults, crashes>>
  BY DEF Submit, Inv
<1>1. /\ row' \in [Task -> RowRecord] /\ Others(t) /\ RowSound(t)' /\ Ready(t)' /\ Dormant(t)'
      /\ Idle(t) /\ ~Checking(t) /\ ~Queued(t)
  BY <1>0, FreshRow
<1>2. BootInv'
  BY <1>0 DEF Inv, BootInv, EarlyPhase
<1>3. \A u \in Task \ {t} : NoNewRole(u)
  BY <1>0 DEF NoNewRole, Starting, Checking, Pending, Queued, Waiting
<1>4. RoleSound(t)'
  <2>1. ~Checking(t)' /\ ~Queued(t)'
    BY <1>0, <1>1 DEF Checking, Queued
  <2>2. ~Pending(t)'
    BY <1>0, Tasks DEF Pending, Inv, LoopInv, LoopSound
  <2> QED BY <1>0, <1>1, <2>1, <2>2 DEF RoleSound
<1>5. \A r \in runners' : r.task # t
  BY <1>0, <1>1 DEF Idle
<1> QED BY <1>0, <1>1, <1>2, <1>3, <1>4, <1>5, TaskStepOf DEF TypeOK

\* A task of its own has no role in a loop.
LEMMA SoloRoles ==
    ASSUME Inv, NEW t \in Solo
    PROVE  ~Pending(t) /\ ~Queued(t) /\ ~Checking(t)
           /\ \A b \in Batch : adm[b].pc \in {"spawn", "created"} => adm[b].item # t
  BY Tasks DEF Pending, Queued, Checking, Inv, LoopInv, LoopSound

\* A submission spawns the runner of its task.
LEMMA SubmitSpawnInv ==
    ASSUME Inv, NEW t \in Task, SubmitSpawn(t), UNCHANGED <<adm, btok, bfire, poll>>
    PROVE  Inv'
<1>0. /\ TypeOK /\ t \in submitting /\ t \in Solo /\ submitting' = submitting \ {t}
      /\ reserve(t) /\ spawn(t)
      /\ UNCHANGED <<batch, flips, boot, crashes>>
  BY DEF SubmitSpawn, Inv, TypeOK
<1>1. boot.phase = "up"
  BY <1>0, Served
<1>2. Ready(t)
  BY <1>0 DEF Inv, RoleInv, RoleSound, Starting
<1>3. /\ row' \in [Task -> RowRecord] /\ runners' \subseteq RunnerRecord
      /\ summary' \in [Task -> [Attempt -> {"none", "active", "ended"}]]
      /\ faults' \in 0 .. MaxFault
      /\ Others(t) /\ RowSound(t)' /\ Starts(t, "run")
  BY <1>0, <1>2, ReserveStarts
<1>4. tok' \in [Task -> {"none", "live", "fired"}]
  BY <1>0 DEF SubmitSpawn, TypeOK
<1>5. BootInv'
  BY <1>0, <1>1 DEF Inv, BootInv, EarlyPhase
<1>6. \A u \in Task \ {t} : NoNewRole(u)
  BY <1>0 DEF NoNewRole, Starting, Checking, Pending, Queued, Waiting
<1>7. RoleSound(t)'
  <2>1. /\ ~Pending(t) /\ ~Queued(t) /\ ~Checking(t)
        /\ \A b \in Batch : adm[b].pc \in {"spawn", "created"} => adm[b].item # t
    BY <1>0, SoloRoles
  <2>2. ~Pending(t)' /\ ~Queued(t)' /\ ~Checking(t)'
    BY <2>1 DEF Pending, Queued, Checking
  <2>3. ~Starting(t)'
    BY <1>0, <1>1, <2>1 DEF Starting
  <2>4. ~Waiting(t)'
    BY <1>0, <1>1, <2>2 DEF Waiting
  <2> QED BY <1>0, <1>1, <2>2, <2>3, <2>4, NoRole DEF EarlyPhase
<1> QED BY <1>0, <1>3, <1>4, <1>5, <1>6, <1>7, TaskStepOf DEF Starts, TypeOK

\* Cancellation of a task fires its token and goes on to flip its row.
LEMMA CancelTaskInv ==
    ASSUME Inv, NEW t \in Task, CancelTask(t), UNCHANGED <<adm, btok, bfire, poll>>
    PROVE  Inv'
<1>1. tok' \in [Task -> {"none", "live", "fired"}] /\ flips' \subseteq Task
  BY DEF CancelTask, Inv, TypeOK
<1>2. TypeOK'
  BY <1>1 DEF CancelTask, Inv, TypeOK
<1> QED BY <1>2, AsideInv DEF CancelTask

\* A Working row ends, for a task that keeps its roles.
LEMMA RowEndsInv ==
    ASSUME Inv, NEW t \in Task, working(t), NEW s \in {"Canceled", "Interrupted"},
           row' = [row EXCEPT ![t] = [row[t] EXCEPT !.status = s]],
           s = "Interrupted" => ~Starting(t) /\ ~Checking(t),
           UNCHANGED <<summary, batch, runners, tok, submitting, boot, faults, crashes,
                       adm, btok, bfire, poll>>,
           flips' \subseteq flips
    PROVE  Inv'
<1>1. /\ row' \in [Task -> RowRecord] /\ row'[t].status = s /\ row'[t].hidden = FALSE
      /\ row'[t].ck = row[t].ck
      /\ Others(t) /\ RowSound(t)' /\ (Idle(t) => Dormant(t)')
      /\ s = "Canceled" => (Ready(t) => Ready(t)') /\ (Reserved(t) => Reserved(t)')
      /\ \A r \in runners' : r.task = t => RunnerSound(r)'
  BY RowEnds
<1>2. BootInv'
  BY DEF Inv, BootInv, active
<1>3. \A u \in Task : NoNewRole(u)
  BY RolesUnchanged
<1>4. RoleSound(t)'
  <2>1. RoleSound(t) /\ NoNewRole(t)
    BY <1>3 DEF Inv, RoleInv
  <2>2. Starting(t)' => Ready(t)'
    BY <1>1, <2>1 DEF RoleSound, NoNewRole
  <2>3. Checking(t)' => Reserved(t)'
    BY <1>1, <2>1 DEF RoleSound, NoNewRole
  <2>4. ~Pending(t)'
    BY <2>1 DEF RoleSound, NoNewRole, working
  <2>5. Queued(t)' => row'[t].status # "none" /\ row'[t].ck = "none"
    BY <1>1, <2>1 DEF RoleSound, NoNewRole
  <2>6. Waiting(t)' => Dormant(t)'
    BY <1>1, <2>1 DEF RoleSound, NoNewRole, Dormant
  <2>7. ~working(t)' /\ ~row'[t].hidden
    BY <1>1 DEF working
  <2> QED BY <2>2, <2>3, <2>4, <2>5, <2>6, <2>7 DEF RoleSound
<1>5. \A r, q \in runners' : r.task = t /\ q.task = t => q = r
  BY DEF Inv, RunnerInv
<1> QED BY <1>1, <1>2, <1>3, <1>4, <1>5, TaskStepOf DEF Inv, TypeOK, working

\* Cancellation flips a row that is still Working.
LEMMA CancelFlipInv ==
    ASSUME Inv, NEW t \in Task, CancelFlip(t), UNCHANGED <<adm, btok, bfire, poll>>
    PROVE  Inv'
<1>0. /\ flips' \subseteq flips /\ flips # {}
      /\ UNCHANGED <<summary, batch, runners, tok, submitting, boot, faults, crashes>>
  BY DEF CancelFlip
<1>1. CASE working(t)
  <2>1. row' = [row EXCEPT ![t] = [row[t] EXCEPT !.status = "Canceled"]]
    BY <1>1 DEF CancelFlip, cancel_if_working, working
  <2> QED BY <1>0, <1>1, <2>1, RowEndsInv
<1>2. CASE ~working(t)
  <2>1. UNCHANGED row
    BY <1>2 DEF CancelFlip, cancel_if_working, working, Inv, TypeOK
  <2>2. TypeOK' /\ boot.phase = "up"
    BY <1>0, <2>1, Served DEF Inv, TypeOK
  <2> QED BY <1>0, <2>1, <2>2, AsideInv
<1> QED BY <1>1, <1>2

\* Every step of a task's clients and runners keeps the invariant.
LEMMA TaskStepInv ==
    ASSUME Inv, TaskStep
    PROVE  Inv'
  BY RunnerStepInv, SubmitInv, SubmitSpawnInv, CancelTaskInv, CancelFlipInv DEF TaskStep

-----------------------------------------------------------------------------
(* Boot *)

\* Before the batches are resumed no loop has an item, and no submission is under way.
LEMMA EarlyRoles ==
    ASSUME Inv, boot.phase \in EarlyPhase \cup {"solo"}, NEW u
    PROVE  /\ ~Checking(u) /\ ~Pending(u) /\ ~Queued(u)
           /\ boot.phase \in EarlyPhase => ~(\E t \in Task : Starting(t))
           /\ boot.phase \in EarlyPhase => runners = {} /\ Idle(u)
           /\ boot.phase \in EarlyPhase \ {"orphans"} => ~Waiting(u)
<1>1. \A b \in Batch : adm[b].pc = "none" /\ adm[b].queue = {} /\ adm[b].pending = {}
  BY DEF Inv, BootInv, LoopInv, LoopSound
<1>2. submitting = {}
  BY DEF Inv, BootInv, EarlyPhase
<1>3. ~Checking(u) /\ ~Pending(u) /\ ~Queued(u)
  BY <1>1 DEF Checking, Pending, Queued
<1>4. boot.phase \in EarlyPhase => ~(\E t \in Task : Starting(t))
  BY <1>1, <1>2 DEF Starting, EarlyPhase
<1>5. boot.phase \in EarlyPhase => runners = {} /\ Idle(u)
  BY DEF Inv, BootInv, Idle
<1> QED BY <1>3, <1>4, <1>5 DEF Waiting, EarlyPhase

\* Boot goes on when no row is left to reconcile.
LEMMA BootReconciledInv ==
    ASSUME Inv, BootReconciled, UNCHANGED <<adm, btok, bfire, poll>>
    PROVE  Inv'
<1>0. /\ TypeOK /\ boot \in BootRecord /\ boot.phase \in {"pending", "checkpoints"}
      /\ \A t \in Task : ~row[t].hidden
      /\ UNCHANGED <<row, summary, batch, runners, tok, flips, submitting, faults, crashes>>
  BY DEF BootReconciled, Inv, TypeOK, storeVars
<1>1. /\ boot' \in BootRecord /\ boot'.phase \in {"checkpoints", "sweep"}
      /\ boot'.todo = boot.todo /\ boot'.claimed = boot.claimed
      /\ boot'.phase = "sweep" => \A t \in Task : working(t) => row[t].ck = "none"
  BY <1>0 DEF BootReconciled, BootRecord, Phase
<1>2. TypeOK'
  BY <1>0, <1>1 DEF TypeOK
<1>3. BootInv'
  BY <1>0, <1>1 DEF Inv, BootInv, EarlyPhase
<1>4. LoopInv'
  BY <1>0, LoopSame DEF LoopInv
<1>5. ASSUME NEW u \in Task PROVE RoleSound(u)'
  <2>1. ~Checking(u) /\ ~Pending(u) /\ ~Queued(u) /\ ~Starting(u)
    BY <1>0, EarlyRoles DEF EarlyPhase
  <2>2. ~Checking(u)' /\ ~Pending(u)' /\ ~Queued(u)'
    BY <2>1 DEF Checking, Pending, Queued
  <2>3. ~Starting(u)'
    BY <1>0, <1>1, <2>1 DEF Starting
  <2>4. ~Waiting(u)'
    BY <1>1, <2>2 DEF Waiting
  <2> QED BY <1>0, <1>1, <2>2, <2>3, <2>4 DEF RoleSound, working
<1> QED BY <1>0, <1>2, <1>3, <1>4, <1>5, StepOfNone

\* Boot goes on when no task is left to sweep.
LEMMA BootSweepInv ==
    ASSUME Inv, BootSweep, UNCHANGED <<adm, btok, bfire, poll>>
    PROVE  Inv'
<1>0. /\ TypeOK /\ boot \in BootRecord /\ boot.phase = "sweep"
      /\ UNCHANGED <<row, batch, runners, tok, flips, submitting, faults, crashes>>
  BY DEF BootSweep, Inv, TypeOK
<1>1. /\ boot' \in BootRecord /\ boot'.phase = "orphans"
      /\ boot'.todo = boot.todo /\ boot'.claimed = boot.claimed
  BY <1>0 DEF BootSweep, BootRecord, Phase
<1>2. /\ summary' \in [Task -> [Attempt -> {"none", "active", "ended"}]]
      /\ \A t \in Task, a \in Attempt :
           /\ summary[t][a] # "active" => summary'[t][a] = summary[t][a]
           /\ summary'[t][a] = "active" => settled(t)
  BY <1>0 DEF BootSweep, TypeOK
<1>3. TypeOK'
  BY <1>0, <1>1, <1>2 DEF TypeOK
<1>4. BootInv'
  BY <1>0, <1>1 DEF Inv, BootInv, EarlyPhase
<1>5. LoopInv'
  BY <1>0, LoopSame DEF LoopInv
<1>6. runners = {} /\ RunnerInv'
  BY <1>0 DEF Inv, BootInv, RunnerInv, EarlyPhase
<1>7. ASSUME NEW u \in Task PROVE RowSound(u)' /\ RoleSound(u)'
  <2>1. RowSound(u) /\ RoleSound(u) /\ row[u] \in RowRecord
    BY DEF Inv, RowInv, RoleInv, TypeOK
  <2>2. Idle(u)' /\ public(u)' = public(u)
    BY <1>0, <1>6 DEF Idle, public
  <2>3. RowSound(u)'
    <3>1. row[u].status # "none" => row[u].attempt \in Attempt
      BY <2>1, Tasks DEF RowSound, RowRecord
    <3>2. public(u) \in {"Completed", "Failed"} => row[u].status # "none"
      BY DEF public
    <3>3. \A a \in Attempt : (summary[u][a] = "none" => summary'[u][a] = "none")
                             /\ (summary[u][a] = "ended" => summary'[u][a] = "ended")
      BY <1>2
    <3> QED BY <1>0, <2>1, <2>2, <3>1, <3>2, <3>3 DEF RowSound
  <2>4. Dormant(u)'
    <3>1. working(u) => ~settled(u)
      BY <2>1, <1>0 DEF working, settled, public, TerminalStatus, RowSound
    <3>2. working(u)' => row[u].ck = "none" /\ working(u)
      BY <1>0, <2>1 DEF RoleSound, working
    <3>3. working(u)' => NoneActive(u)'
      BY <1>2, <3>1, <3>2 DEF NoneActive
    <3> QED BY <1>0, <2>1, <2>2, <3>2, <3>3 DEF Dormant, RoleSound
  <2>5. ~Checking(u) /\ ~Pending(u) /\ ~Queued(u) /\ ~Starting(u)
    BY <1>0, EarlyRoles DEF EarlyPhase
  <2>6. ~Checking(u)' /\ ~Pending(u)' /\ ~Queued(u)'
    BY <2>5 DEF Checking, Pending, Queued
  <2>7. ~Starting(u)'
    BY <1>0, <1>1, <2>5 DEF Starting
  <2> QED BY <1>1, <2>3, <2>4, <2>6, <2>7 DEF RoleSound
<1> QED BY <1>3, <1>4, <1>5, <1>6, <1>7 DEF Inv, RowInv, RoleInv

\* Boot publishes or finishes a row that a crash left hidden.
LEMMA BootSettleInv ==
    ASSUME Inv, NEW t \in Task, BootSettle(t), UNCHANGED <<adm, btok, bfire, poll>>
    PROVE  Inv'
<1>0. /\ TypeOK /\ boot.phase \in {"pending", "checkpoints"} /\ row[t].hidden
      /\ RowSound(t) /\ row[t] \in RowRecord
      /\ UNCHANGED <<batch, runners, tok, flips, submitting, boot, crashes>>
  BY DEF BootSettle, Inv, TypeOK, RowInv
<1>1. row[t].attempt \in Attempt /\ row[t].status \in TerminalStatus
  BY <1>0, Tasks DEF RowSound, RowRecord, TerminalStatus
<1>2. PICK m \in BOOLEAN :
        /\ row' = [row EXCEPT ![t] = [row[t] EXCEPT !.hidden = FALSE, !.marked = m]]
        /\ SummaryMoves(t) /\ (m \/ summary'[t][row[t].attempt] = "ended")
  <2>1. CASE /\ summary' = [summary EXCEPT ![t][row[t].attempt] = "ended"]
             /\ row' = [row EXCEPT ![t] = mark_terminal_projection_ready(@)]
    <3>1. SummaryMoves(t) /\ summary'[t][row[t].attempt] = "ended"
      BY <1>0, <1>1, <2>1, EndsSummary
    <3>2. mark_terminal_projection_ready(row[t])
            = [row[t] EXCEPT !.hidden = FALSE, !.marked = row[t].marked]
      BY <1>0 DEF mark_terminal_projection_ready, RowRecord
    <3>3. row[t].marked \in BOOLEAN
      BY <1>0 DEF RowRecord
    <3> QED BY <2>1, <3>1, <3>2, <3>3
  <2>2. CASE row' = [row EXCEPT ![t].hidden = FALSE, ![t].marked = TRUE] /\ UNCHANGED summary
    <3>1. row' = [row EXCEPT ![t] = [row[t] EXCEPT !.hidden = FALSE, !.marked = TRUE]]
      BY <1>0, <2>2 DEF TypeOK
    <3>2. SummaryMoves(t)
      BY <1>0, <2>2 DEF SummaryMoves, TypeOK
    <3> QED BY <3>1, <3>2
  <2> QED BY <2>1, <2>2 DEF BootSettle
<1> DEFINE x == [row[t] EXCEPT !.hidden = FALSE, !.marked = m]
<1>3. /\ x \in RowRecord /\ x.hidden = FALSE /\ x.marked = m /\ x.status = row[t].status
      /\ x.attempt = row[t].attempt
  BY <1>0 DEF RowRecord
<1>4. row' \in [Task -> RowRecord] /\ row'[t] = x /\ \A u \in Task \ {t} : row'[u] = row[u]
  BY <1>0, <1>2, <1>3, RowPut
<1>5. Others(t)
  BY <1>0, <1>2, <1>4 DEF Others, SameTask, SummaryMoves
<1>6. RowSound(t)'
  BY <1>0, <1>1, <1>2, <1>3, <1>4 DEF RowSound, public, TerminalStatus
<1>7. runners = {}
  BY <1>0, EarlyRoles DEF EarlyPhase
<1>8. \A u \in Task : NoNewRole(u)
  BY <1>0, RolesUnchanged
<1>9. RoleSound(t)'
  <2>1. ~Checking(t) /\ ~Pending(t) /\ ~Queued(t) /\ ~Starting(t) /\ ~Waiting(t)
    BY <1>0, EarlyRoles DEF EarlyPhase
  <2> QED BY <1>0, <1>8, <2>1 DEF RoleSound, NoNewRole
<1>10. BootInv'
  BY <1>0 DEF Inv, BootInv, EarlyPhase
<1>11. faults' \in 0 .. MaxFault
  BY <1>0, FaultType DEF BootSettle
<1> QED BY <1>0, <1>1, <1>2, <1>3, <1>4, <1>5, <1>6, <1>7, <1>8, <1>9, <1>10, <1>11, TaskStepOf
     DEF TypeOK, SummaryMoves

\* Boot commits the outcome of a checkpoint that a crash left behind.
LEMMA BootCheckpointInv ==
    ASSUME Inv, NEW t \in Task, BootCheckpoint(t), UNCHANGED <<adm, btok, bfire, poll>>
    PROVE  Inv'
<1>a. PICK s \in {row[t].ck, "Canceled"} : row' = [row EXCEPT ![t] = set_terminal_sequenced_pending(@, s)]
  BY DEF BootCheckpoint
<1> DEFINE x == set_terminal_sequenced_pending(row[t], s)
<1>0. /\ TypeOK /\ boot.phase = "checkpoints" /\ row[t].status = "Working"
      /\ RowSound(t) /\ row[t] \in RowRecord /\ s \in {"Completed", "Failed", "Canceled"}
      /\ row' = [row EXCEPT ![t] = x]
      /\ UNCHANGED <<summary, batch, runners, tok, flips, submitting, boot, faults, crashes>>
  BY <1>a DEF BootCheckpoint, Inv, TypeOK, RowInv, working, RowRecord
<1>1. /\ x \in RowRecord /\ x.hidden = TRUE /\ x.status = s /\ x.attempt = row[t].attempt
  BY <1>0 DEF RowRecord, set_terminal_sequenced_pending, TaskStatus, TerminalStatus
<1>2. row' \in [Task -> RowRecord] /\ row'[t] = x /\ \A u \in Task \ {t} : row'[u] = row[u]
  BY <1>0, <1>1, RowPut
<1>3. Others(t)
  BY <1>0, <1>2 DEF Others, SameTask
<1>4. RowSound(t)'
  BY <1>0, <1>1, <1>2 DEF RowSound, public, TerminalStatus
<1>5. runners = {}
  BY <1>0, EarlyRoles DEF EarlyPhase
<1>6. \A u \in Task : NoNewRole(u)
  BY <1>0, RolesUnchanged
<1>7. RoleSound(t)'
  <2>1. ~Checking(t) /\ ~Pending(t) /\ ~Queued(t) /\ ~Starting(t) /\ ~Waiting(t)
    BY <1>0, EarlyRoles DEF EarlyPhase
  <2> QED BY <1>0, <1>6, <2>1 DEF RoleSound, NoNewRole
<1>8. BootInv'
  BY <1>0 DEF Inv, BootInv, EarlyPhase
<1> QED BY <1>0, <1>1, <1>2, <1>3, <1>4, <1>5, <1>6, <1>7, <1>8, TaskStepOf DEF TypeOK

\* Boot claims the attempt of a solo task it resumes.
LEMMA BootSoloClaimInv ==
    ASSUME Inv, NEW t \in Task, BootSoloClaim(t), UNCHANGED <<adm, btok, bfire, poll>>
    PROVE  Inv'
<1>0. /\ TypeOK /\ boot \in BootRecord /\ boot.phase = "solo" /\ boot.claimed = NoTask
      /\ t \in boot.todo /\ t \in Solo
      /\ UNCHANGED <<summary, batch, runners, tok, flips, submitting, crashes>>
  BY DEF BootSoloClaim, Inv, TypeOK, BootInv
<1>1. Dormant(t) /\ Idle(t)
  BY <1>0 DEF Inv, RoleInv, RoleSound, Waiting, Dormant
<1>2. ~Checking(t)' /\ ~Pending(t)' /\ ~Queued(t)'
  BY <1>0, SoloRoles DEF Checking, Pending, Queued
<1>3. submitting = {} /\ \A b \in Batch : adm[b].pc = "none"
  BY <1>0 DEF Inv, BootInv, EarlyPhase
<1>4. \A r \in runners' : r.task # t
  BY <1>0, <1>1 DEF Idle
<1>5. ASSUME NEW c \in {t, NoTask}, boot' = [boot EXCEPT !.todo = @ \ {t}, !.claimed = c],
             row' \in [Task -> RowRecord], Others(t), RowSound(t)', Dormant(t)',
             c = t => Ready(t)', faults' \in 0 .. MaxFault
      PROVE  Inv'
  <2>1. boot' \in BootRecord /\ boot'.phase = "solo" /\ boot'.todo = boot.todo \ {t} /\ boot'.claimed = c
    BY <1>0, <1>5 DEF BootRecord
  <2>2. BootInv'
    BY <1>0, <1>5, <2>1, Tasks DEF Inv, BootInv, EarlyPhase
  <2>3. ASSUME NEW u \in Task \ {t} PROVE NoNewRole(u)
    <3>1. Starting(u)' => Starting(u)
      BY <1>0, <1>5, <2>1, Tasks DEF Starting
    <3>2. Waiting(u)' => Waiting(u)
      BY <1>0, <2>1 DEF Waiting, Queued
    <3> QED BY <1>0, <2>1, <3>1, <3>2 DEF NoNewRole, Checking, Pending, Queued
  <2>4. RoleSound(t)'
    <3>1. Starting(t)' => c = t
      BY <1>0, <1>3, <2>1 DEF Starting
    <3> QED BY <1>2, <1>5, <2>1, <3>1 DEF RoleSound
  <2> QED BY <1>0, <1>4, <1>5, <2>1, <2>2, <2>3, <2>4, TaskStepOf DEF TypeOK
<1>6. CASE ResumeClaims(t) /\ boot' = [boot EXCEPT !.todo = @ \ {t}, !.claimed = t]
  <2>1. /\ row' \in [Task -> RowRecord] /\ Others(t) /\ RowSound(t)' /\ Ready(t)' /\ Dormant(t)'
        /\ faults' = faults
    BY <1>0, <1>1, <1>6, ResumeKeeps
  <2> QED BY <1>0, <1>5, <1>6, <2>1 DEF TypeOK
<1>7. CASE /\ IF public(t) = "Working" /\ row[t].ck = "none"
              THEN ResumeGivesUp(t) ELSE NoFault /\ UNCHANGED row
           /\ boot' = [boot EXCEPT !.todo = @ \ {t}]
  <2>1. boot' = [boot EXCEPT !.todo = @ \ {t}, !.claimed = NoTask]
    BY <1>0, <1>7 DEF BootRecord
  <2>2. CASE row[t].ck = "none" /\ ResumeGivesUp(t)
    <3>1. /\ row' \in [Task -> RowRecord] /\ Others(t) /\ RowSound(t)' /\ Dormant(t)'
          /\ faults' \in 0 .. MaxFault
      BY <1>0, <1>1, <2>2, GivesUpKeeps
    <3> QED BY <1>0, <1>5, <2>1, <3>1, Tasks
  <2>3. CASE NoFault /\ UNCHANGED row
    <3>1. \A u \in Task : SameTask(u)
      BY <1>0, <2>3 DEF SameTask
    <3>2. RowSound(t)' /\ Dormant(t)'
      BY <1>1, <3>1, SameKeeps DEF Inv, RowInv
    <3>3. row' \in [Task -> RowRecord] /\ Others(t) /\ faults' \in 0 .. MaxFault
      BY <1>0, <2>3, <3>1 DEF TypeOK, Others, NoFault
    <3> QED BY <1>0, <1>5, <2>1, <3>2, <3>3, Tasks
  <2> QED BY <1>7, <2>2, <2>3
<1> QED BY <1>6, <1>7 DEF BootSoloClaim

\* Boot spawns the runner of the task it has claimed.
LEMMA BootSoloSpawnInv ==
    ASSUME Inv, NEW t \in Task, BootSoloSpawn(t), UNCHANGED <<adm, btok, bfire, poll>>
    PROVE  Inv'
<1>0. /\ TypeOK /\ boot \in BootRecord /\ boot.phase = "solo" /\ boot.claimed = t
      /\ t \in Solo /\ t \notin boot.todo /\ reserve(t) /\ spawn(t)
      /\ UNCHANGED <<batch, flips, submitting, crashes>>
  BY Tasks DEF BootSoloSpawn, Inv, TypeOK, BootInv
<1>1. Ready(t)
  BY <1>0 DEF Inv, RoleInv, RoleSound, Starting
<1>2. /\ row' \in [Task -> RowRecord] /\ runners' \subseteq RunnerRecord
      /\ summary' \in [Task -> [Attempt -> {"none", "active", "ended"}]]
      /\ faults' \in 0 .. MaxFault
      /\ Others(t) /\ RowSound(t)' /\ Starts(t, "run")
  BY <1>0, <1>1, ReserveStarts
<1>3. boot' \in BootRecord /\ boot'.phase = "solo" /\ boot'.todo = boot.todo /\ boot'.claimed = NoTask
  BY <1>0 DEF BootSoloSpawn, BootRecord
<1>4. BootInv'
  BY <1>0, <1>3, Tasks DEF Inv, BootInv, EarlyPhase
<1>5. submitting = {} /\ \A b \in Batch : adm[b].pc = "none"
  BY <1>0 DEF Inv, BootInv, EarlyPhase
<1>6. ASSUME NEW u \in Task \ {t} PROVE NoNewRole(u)
  <2>1. Starting(u)' => Starting(u)
    BY <1>0, <1>3, Tasks DEF Starting
  <2>2. Waiting(u)' => Waiting(u)
    BY <1>0, <1>3 DEF Waiting, Queued
  <2> QED BY <1>0, <1>3, <2>1, <2>2 DEF NoNewRole, Checking, Pending, Queued
<1>7. RoleSound(t)'
  <2>1. ~Checking(t)' /\ ~Pending(t)' /\ ~Queued(t)'
    BY <1>0, SoloRoles DEF Checking, Pending, Queued
  <2>2. ~Starting(t)'
    BY <1>0, <1>3, <1>5, Tasks DEF Starting
  <2>3. ~Waiting(t)'
    BY <1>0, <1>3, <2>1 DEF Waiting
  <2> QED BY <1>3, <2>1, <2>2, <2>3, NoRole DEF EarlyPhase
<1>8. tok' \in [Task -> {"none", "live", "fired"}]
  BY <1>0 DEF BootSoloSpawn, TypeOK
<1> QED BY <1>0, <1>2, <1>3, <1>4, <1>6, <1>7, <1>8, TaskStepOf DEF Starts, TypeOK

\* Boot interrupts a Working child of a batch that is over.
LEMMA BootOrphanInv ==
    ASSUME Inv, NEW t \in Task, BootOrphan(t)
    PROVE  Inv'
<1>0. /\ boot.phase = "orphans" /\ working(t)
      /\ UNCHANGED <<summary, batch, taskVars, adm, btok, bfire, poll>>
  BY DEF BootOrphan, Orphan
<1>1. ~Starting(t) /\ ~Checking(t)
  BY <1>0, EarlyRoles DEF EarlyPhase
<1>2. ~row[t].hidden
  BY <1>0 DEF Inv, RowInv, RowSound, working, TerminalStatus
<1>3. set_terminal_sequenced(row[t], "Interrupted") = [row[t] EXCEPT !.status = "Interrupted"]
  BY <1>0, <1>2 DEF set_terminal_sequenced, working
<1>4. row' = [row EXCEPT ![t] = [row[t] EXCEPT !.status = "Interrupted"]]
  BY <1>3 DEF BootOrphan
<1> QED BY <1>0, <1>1, <1>4, RowEndsInv DEF taskVars

\* Boot cancels a child of a batch that is being canceled.
LEMMA BootCancelChildInv ==
    ASSUME Inv, NEW b \in Batch, NEW t \in Task, BootCancelChild(b, t)
    PROVE  Inv'
<1>0. /\ boot.phase = "batches" /\ b \in boot.todo /\ t \in Items[b] /\ public(t) = "Working"
      /\ UNCHANGED <<summary, batch, taskVars, adm, btok, bfire, poll>>
  BY DEF BootCancelChild
<1>1. ~row[t].hidden
  BY <1>0 DEF Inv, RoleInv, RoleSound, Waiting, Dormant
<1>2. working(t)
  BY <1>0, <1>1 DEF public, working
<1>3. set_terminal_sequenced(row[t], "Canceled") = [row[t] EXCEPT !.status = "Canceled"]
  BY <1>1, <1>2 DEF set_terminal_sequenced, working
<1>4. row' = [row EXCEPT ![t] = [row[t] EXCEPT !.status = "Canceled"]]
  BY <1>3 DEF BootCancelChild
<1> QED BY <1>0, <1>2, <1>4, RowEndsInv DEF taskVars

\* Boot goes on to the solo tasks.
LEMMA BootSoloInv ==
    ASSUME Inv, BootSolo
    PROVE  Inv'
<1>0. /\ TypeOK /\ boot \in BootRecord /\ boot.phase = "orphans"
      /\ boot.todo = {} /\ boot.claimed = NoTask
      /\ UNCHANGED <<row, summary, batch, runners, tok, flips, submitting, crashes,
                     adm, btok, bfire, poll>>
  BY DEF BootSolo, Inv, TypeOK, BootInv, EarlyPhase, storeVars
<1>1. faults' \in 0 .. MaxFault
  BY <1>0, FaultType DEF BootSolo
<1>2. PICK T \in SUBSET Solo : boot' = [boot EXCEPT !.phase = "solo", !.todo = T]
  <2>1. CASE boot' = [boot EXCEPT !.phase = "solo", !.todo = {t \in Solo : working(t)}]
    BY <2>1
  <2>2. CASE boot' = [boot EXCEPT !.phase = "solo"]
    <3>1. boot' = [boot EXCEPT !.phase = "solo", !.todo = {}]
      BY <1>0, <2>2 DEF BootRecord
    <3> QED BY <3>1
  <2> QED BY <2>1, <2>2 DEF BootSolo
<1>3. /\ boot' \in BootRecord /\ boot'.phase = "solo" /\ boot'.todo = T /\ boot'.claimed = NoTask
  BY <1>0, <1>2, Tasks DEF BootRecord, Phase
<1>4. TypeOK'
  BY <1>0, <1>1, <1>3 DEF TypeOK
<1>5. BootInv'
  BY <1>0, <1>3, Tasks DEF Inv, BootInv, EarlyPhase
<1>6. LoopInv'
  BY <1>0, LoopSame DEF LoopInv
<1>7. ASSUME NEW u \in Task PROVE NoNewRole(u)
  <2>1. Starting(u)' => Starting(u)
    BY <1>0, <1>3, Tasks DEF Starting
  <2>2. Waiting(u)
    BY <1>0 DEF Waiting
  <2> QED BY <1>0, <1>3, <2>1, <2>2 DEF NoNewRole, Checking, Pending, Queued
<1> QED BY <1>0, <1>4, <1>5, <1>6, <1>7, StepOfNone

\* Boot goes on to the batches.
LEMMA BootBatchesInv ==
    ASSUME Inv, BootBatches
    PROVE  Inv'
<1>0. /\ TypeOK /\ boot \in BootRecord /\ boot.phase = "solo"
      /\ boot.todo = {} /\ boot.claimed = NoTask
      /\ UNCHANGED <<row, summary, batch, runners, tok, flips, submitting, crashes,
                     adm, btok, bfire, poll>>
  BY DEF BootBatches, Inv, TypeOK, storeVars
<1>1. faults' \in 0 .. MaxFault
  BY <1>0, FaultType DEF BootBatches
<1>2. PICK B \in SUBSET Batch : /\ boot' = [boot EXCEPT !.phase = "batches", !.todo = B]
                                /\ \A b \in B : active(b)
  <2> DEFINE A == {b \in Batch : active(b)}
  <2>1. A \in SUBSET Batch /\ \A b \in A : active(b)
    OBVIOUS
  <2>2. \/ boot' = [boot EXCEPT !.phase = "batches", !.todo = A]
        \/ boot' = [boot EXCEPT !.phase = "batches"]
    BY DEF BootBatches
  <2>3. boot' = [boot EXCEPT !.phase = "batches"] => boot' = [boot EXCEPT !.phase = "batches", !.todo = {}]
    BY <1>0 DEF BootRecord
  <2>4. {} \in SUBSET Batch /\ \A b \in {} : active(b)
    OBVIOUS
  <2> HIDE DEF A
  <2> QED BY <2>1, <2>2, <2>3, <2>4
<1>3. /\ boot' \in BootRecord /\ boot'.phase = "batches" /\ boot'.todo = B /\ boot'.claimed = NoTask
  BY <1>0, <1>2 DEF BootRecord, Phase
<1>4. TypeOK'
  BY <1>0, <1>1, <1>3 DEF TypeOK
<1>5. BootInv'
  BY <1>0, <1>2, <1>3 DEF Inv, BootInv, EarlyPhase, active
<1>6. LoopInv'
  BY <1>0, LoopSame DEF LoopInv
<1>7. ASSUME NEW u \in Task PROVE NoNewRole(u)
  <2>1. Starting(u)' => Starting(u)
    BY <1>0, <1>3 DEF Starting
  <2>2. Waiting(u)' => Waiting(u)
    BY <1>0, <1>3, Tasks DEF Waiting, Queued
  <2> QED BY <1>0, <1>3, <2>1, <2>2 DEF NoNewRole, Checking, Pending, Queued
<1> QED BY <1>0, <1>4, <1>5, <1>6, <1>7, StepOfNone

\* Boot goes on with fewer batches to resume.
LEMMA HandledBoot ==
    ASSUME Inv, NEW b \in Batch, boot.phase = "batches", Handled(b), boot.claimed = NoTask
    PROVE  /\ boot' \in BootRecord /\ boot'.phase = "batches" /\ boot'.todo = boot.todo \ {b}
           /\ boot'.claimed = NoTask
  BY DEF Inv, TypeOK, BootRecord, Handled

\* Boot resumes, skips or ends a batch.
LEMMA BootBatchInv ==
    ASSUME Inv, NEW b \in Batch, BootBatch(b)
    PROVE  Inv'
<1> DEFINE Q == {t \in Items[b] : public(t) = "Working"}
           P == {t \in Items[b] : row[t].status = "none"}
           x == NewLoop("top", Q, P)
<1>0. /\ TypeOK /\ boot.phase = "batches" /\ boot.claimed = NoTask /\ b \in boot.todo
      /\ batch[b] = "Working" /\ adm[b].pc = "none" /\ boot.todo \subseteq Batch
      /\ UNCHANGED <<row, summary, batch, runners, tok, flips, submitting, faults, crashes, bfire, poll>>
  BY DEF BootBatch, Inv, TypeOK, BootInv, storeVars
<1>1. /\ x \in LoopRecord /\ x.pc = "top" /\ x.queue = Q /\ x.pending = P /\ x.inflight = {}
  BY Tasks DEF NewLoop, NoLoop, LoopRecord, LoopPc, BatchStatus
<1>2. adm' \in [Batch -> LoopRecord] /\ adm'[b] = x /\ \A c \in Batch \ {b} : adm'[c] = adm[c]
  BY <1>0, <1>1, LoopPut DEF BootBatch
<1>3. /\ boot' \in BootRecord /\ boot'.phase = "batches" /\ boot'.todo = boot.todo \ {b}
      /\ boot'.claimed = NoTask
  BY <1>0, HandledBoot DEF BootBatch
<1>4. TypeOK'
  <2>1. btok' \in [Batch -> {"none", "live", "fired"}]
    BY <1>0 DEF BootBatch, TypeOK
  <2> QED BY <1>0, <1>2, <1>3, <2>1 DEF TypeOK
<1>5. BootInv'
  BY <1>0, <1>2, <1>3 DEF Inv, BootInv, EarlyPhase, active
<1>6. LoopInv'
  <2>1. LoopSound(b)'
    BY <1>0, <1>1, <1>2 DEF LoopSound
  <2> QED BY <1>0, <1>2, <2>1, LoopSame DEF LoopInv
<1>7. ASSUME NEW u \in Task PROVE RoleSound(u)'
  <2>1. RoleSound(u) /\ SameTask(u)
    BY <1>0 DEF Inv, RoleInv, SameTask
  <2>2. (Starting(u)' => Starting(u)) /\ (Checking(u)' => Checking(u))
    BY <1>0, <1>1, <1>2, <1>3 DEF Starting, Checking
  <2>3. Pending(u)' => Pending(u) \/ row[u].status = "none"
    BY <1>1, <1>2 DEF Pending
  <2>4. Queued(u)' => Queued(u) \/ (u \in Items[b] /\ public(u) = "Working")
    BY <1>1, <1>2 DEF Queued
  <2>5. u \in Items[b] => Waiting(u)
    BY <1>0 DEF Waiting
  <2>6. u \in Items[b] /\ public(u) = "Working" => row[u].status # "none" /\ row[u].ck = "none"
    BY <2>1, <2>5 DEF RoleSound, Dormant, public, working
  <2>7. Waiting(u)' => Waiting(u)
    BY <1>0, <1>3, <2>4, <2>5 DEF Waiting
  <2> QED BY <1>0, <1>3, <2>1, <2>2, <2>3, <2>4, <2>6, <2>7, SameKeeps DEF RoleSound, SameTask
<1> QED BY <1>0, <1>4, <1>5, <1>6, <1>7, StepOfNone

\* Boot takes a batch off its list, or fails it.
LEMMA BootDropsInv ==
    ASSUME Inv, NEW b \in Batch, BootCorrupt(b) \/ BootSkip(b) \/ BootCanceled(b)
    PROVE  Inv'
<1>0. /\ TypeOK /\ boot \in BootRecord /\ boot.phase = "batches" /\ b \in boot.todo
      /\ boot.todo \subseteq Batch /\ batch[b] # "none"
      /\ boot.claimed = NoTask \/ boot.claimed \in boot.todo
      /\ UNCHANGED <<row, summary, runners, tok, flips, submitting, crashes, adm, btok, bfire, poll>>
  BY DEF BootCorrupt, BootSkip, BootCanceled, Inv, TypeOK, BootInv, storeVars, active
<1>1. /\ boot' \in BootRecord /\ boot'.phase = "batches"
      /\ boot'.todo = boot.todo \/ boot'.todo = boot.todo \ {b}
      /\ boot'.claimed = NoTask \/ (boot'.claimed = b /\ boot'.todo = boot.todo)
  <2>1. CASE boot.claimed = NoTask /\ boot' = [boot EXCEPT !.claimed = b]
    BY <1>0, <2>1 DEF BootRecord
  <2>2. CASE boot.claimed = NoTask /\ Handled(b)
    BY <1>0, <2>2, HandledBoot
  <2>3. CASE boot' = [boot EXCEPT !.todo = @ \ {b}, !.claimed = NoTask]
    BY <1>0, <2>3 DEF BootRecord
  <2> QED BY <2>1, <2>2, <2>3 DEF BootCorrupt, BootSkip, BootCanceled
<1>2. /\ batch' \in [Batch -> BatchStatus] /\ \A c \in Batch \ {b} : batch'[c] = batch[c]
      /\ batch'[b] # "none" /\ (batch'[b] = batch[b] \/ b \notin boot'.todo)
  <2>1. CASE UNCHANGED batch
    BY <1>0, <2>1 DEF TypeOK
  <2>2. CASE BootCanceled(b)
    <3>1. boot'.todo = boot.todo \ {b}
      BY <1>0, <2>2 DEF BootCanceled, BootRecord
    <3> QED BY <1>0, <2>2, <3>1 DEF BootCanceled, settle_batch_if_status, TypeOK, BatchStatus
  <2> QED BY <2>1, <2>2 DEF BootCorrupt, BootSkip, storeVars
<1>3. faults' \in 0 .. MaxFault
  BY <1>0, FaultType DEF BootCorrupt, BootSkip, BootCanceled, NoFault
<1>4. TypeOK'
  BY <1>0, <1>1, <1>2, <1>3 DEF TypeOK
<1>5. BootInv'
  BY <1>0, <1>1, <1>2 DEF Inv, BootInv, EarlyPhase, active
<1>6. LoopInv'
  BY <1>0, <1>2, LoopSame DEF LoopInv
<1>7. ASSUME NEW u \in Task PROVE NoNewRole(u)
  <2>1. Starting(u)' => Starting(u)
    BY <1>0, <1>1 DEF Starting
  <2>2. Waiting(u)' => Waiting(u)
    BY <1>0, <1>1 DEF Waiting, Queued
  <2> QED BY <1>0, <1>1, <2>1, <2>2 DEF NoNewRole, Checking, Pending, Queued
<1> QED BY <1>0, <1>4, <1>5, <1>6, <1>7, StepOfNone

\* Boot hands over to the server.
LEMMA ServeInv ==
    ASSUME Inv, Serve
    PROVE  Inv'
<1>0. /\ TypeOK /\ boot.phase = "batches" /\ boot' = Up
      /\ UNCHANGED <<row, summary, batch, runners, tok, flips, submitting, faults, crashes,
                     adm, btok, bfire, poll>>
  BY DEF Serve, Inv, storeVars
<1>1. boot' \in BootRecord /\ boot'.phase = "up" /\ boot'.todo = {} /\ boot'.claimed = NoTask
  BY <1>0 DEF Up, BootRecord, Phase
<1>2. TypeOK'
  BY <1>0, <1>1 DEF TypeOK
<1>3. BootInv'
  BY <1>0, <1>1 DEF BootInv, EarlyPhase
<1>4. LoopInv'
  BY <1>0, LoopSame DEF LoopInv
<1>5. ASSUME NEW u \in Task PROVE NoNewRole(u)
  BY <1>0, <1>1 DEF NoNewRole, Starting, Waiting, Checking, Pending, Queued
<1> QED BY <1>0, <1>2, <1>3, <1>4, <1>5, StepOfNone

\* Every step of boot keeps the invariant.
LEMMA BootStepInv ==
    ASSUME Inv, BootStep
    PROVE  Inv'
  BY BootSoloInv, BootBatchesInv, ServeInv, BootReconciledInv, BootSweepInv, BootSettleInv,
     BootCheckpointInv, BootSoloClaimInv, BootSoloSpawnInv, BootOrphanInv, BootBatchInv,
     BootDropsInv, BootCancelChildInv DEF BootStep, BootTask

-----------------------------------------------------------------------------
(* A crash, and the initial state *)

\* A crash loses the runners, the loops and the tokens, and keeps the store.
LEMMA CrashInv ==
    ASSUME Inv, Crash
    PROVE  Inv'
<1>0. /\ runners' = {} /\ submitting' = {} /\ flips' = {} /\ bfire' = {}
      /\ adm' = [b \in Batch |-> NoLoop] /\ poll' = [b \in Batch |-> "none"]
      /\ boot' = Restarted /\ UNCHANGED <<row, summary, batch, faults>>
  BY DEF Crash, storeVars
<1>1. /\ NoLoop \in LoopRecord /\ NoLoop.pc = "none" /\ NoLoop.queue = {} /\ NoLoop.pending = {}
      /\ NoLoop.inflight = {}
  BY DEF NoLoop, LoopRecord, LoopPc, BatchStatus
<1>2. boot' \in BootRecord /\ boot'.phase = "pending" /\ boot'.todo = {} /\ boot'.claimed = NoTask
  BY <1>0 DEF Restarted, BootRecord, Phase
<1>3. crashes' \in 0 .. MaxCrash
  BY DetachedAssumption DEF Crash, Inv, TypeOK
<1>4. TypeOK'
  BY <1>0, <1>1, <1>2, <1>3 DEF Crash, Inv, TypeOK
<1>5. BootInv'
  BY <1>0, <1>1, <1>2 DEF BootInv
<1>6. LoopInv'
  <2>1. \A b \in Batch : batch[b] = "none" => \A t \in Items[b] : row[t].status = "none"
    BY DEF Inv, LoopInv, LoopSound
  <2> QED BY <1>0, <1>1, <2>1 DEF LoopInv, LoopSound
<1>7. RunnerInv'
  BY <1>0 DEF RunnerInv
<1>8. ASSUME NEW u \in Task PROVE RowSound(u)' /\ RoleSound(u)'
  <2>1. RowSound(u) /\ Idle(u)' /\ public(u)' = public(u)
    BY <1>0 DEF Inv, RowInv, Idle, public
  <2>2. RowSound(u)'
    BY <1>0, <2>1 DEF RowSound
  <2>3. ~Checking(u)' /\ ~Pending(u)' /\ ~Queued(u)'
    BY <1>0, <1>1 DEF Checking, Pending, Queued
  <2>4. ~Starting(u)'
    BY <1>0, <1>1, <1>2 DEF Starting
  <2>5. ~Waiting(u)'
    BY <1>2, <2>3 DEF Waiting
  <2> QED BY <1>2, <2>2, <2>3, <2>4, <2>5 DEF RoleSound
<1> QED BY <1>4, <1>5, <1>6, <1>7, <1>8 DEF Inv, RowInv, RoleInv

\* The invariant holds of an empty store.
LEMMA InitInv ==
    ASSUME Init
    PROVE  Inv
<1>1. /\ NoLoop \in LoopRecord /\ NoLoop.pc = "none" /\ NoLoop.queue = {} /\ NoLoop.pending = {}
      /\ NoLoop.inflight = {}
  BY DEF NoLoop, LoopRecord, LoopPc, BatchStatus
<1>2. boot \in BootRecord /\ boot.phase = "up" /\ boot.todo = {} /\ boot.claimed = NoTask
  BY DEF Init, Up, BootRecord, Phase
<1>3. /\ NoRow \in RowRecord /\ NoRow.status = "none" /\ NoRow.hidden = FALSE
  BY Tasks DEF NoRow, RowRecord, TaskStatus
<1>4. TypeOK
  BY <1>1, <1>2, <1>3, DetachedAssumption DEF Init, TypeOK, BatchStatus
<1>5. BootInv
  BY <1>2 DEF BootInv, EarlyPhase
<1>6. LoopInv
  BY <1>1, <1>3, Tasks DEF Init, LoopInv, LoopSound
<1>7. RunnerInv
  BY DEF Init, RunnerInv
<1>8. ASSUME NEW u \in Task PROVE RowSound(u) /\ RoleSound(u)
  <2>1. RowSound(u)
    BY <1>3 DEF Init, RowSound, Idle, public, TerminalStatus
  <2>2. ~Checking(u) /\ ~Pending(u) /\ ~Queued(u)
    BY <1>1 DEF Init, Checking, Pending, Queued
  <2>3. ~Starting(u)
    BY <1>1, <1>2 DEF Init, Starting
  <2>4. ~Waiting(u)
    BY <1>2, <2>2 DEF Waiting
  <2> QED BY <1>2, <2>1, <2>2, <2>3, <2>4 DEF RoleSound
<1> QED BY <1>4, <1>5, <1>6, <1>7, <1>8 DEF Inv, RowInv, RoleInv

\* Every step keeps the invariant.
LEMMA NextInv ==
    ASSUME Inv, [Next]_vars
    PROVE  Inv'
<1>1. CASE UNCHANGED vars
  <2>1. TypeOK'
    BY <1>1 DEF vars, Inv, TypeOK
  <2> QED BY <1>1, <2>1, AsideInv DEF vars
<1> QED BY <1>1, TaskStepInv, LoopStepInv, BatchClientInv, BootStepInv, CrashInv DEF Next

-----------------------------------------------------------------------------
(* The theorems *)

\* The inductive invariant holds of every behaviour.
THEOREM Invariance == Spec => []Inv
  BY InitInv, NextInv, PTL DEF Spec

\* Every variable of the composed task and batch system keeps its type, whatever crashes and
\* fails; a resumed attempt never passes the cap (resume_attempt_cap).
THEOREM BatchTypeCorrect == Spec => []TypeOK
<1>1. Inv => TypeOK
  BY DEF Inv
<1> QED BY <1>1, Invariance, PTL

\* A task never has two runners, and the one it has executes the attempt its row names, the
\* only one that may be active in the history: submission, boot and the admission loops
\* never start a task that somebody else runs.
THEOREM AttemptsExclude == Spec => []AttemptExclusive
<1>1. Inv => AttemptExclusive
  BY DEF Inv, RunnerInv, RunnerSound, OnlyCurrent, AttemptExclusive, RunnersOf
<1> QED BY <1>1, Invariance, PTL

\* A task published as Completed or Failed has an ended summary or a marked locator, through
\* every crash between the transactions of its commit.
THEOREM EvidenceFirst == Spec => []PublishedHasEvidence
<1>1. Inv => PublishedHasEvidence
  BY DEF Inv, RowInv, RowSound, PublishedHasEvidence
<1> QED BY <1>1, Invariance, PTL
=============================================================================
