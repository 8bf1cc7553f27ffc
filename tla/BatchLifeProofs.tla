-------------------------- MODULE BatchLifeProofs --------------------------
(***************************************************************************)
(* The statuses a client reads follow TaskLife, no row stays hidden and no *)
(* item is left behind unless a call failed, for every number of tasks,    *)
(* batches, crashes and faults.                                            *)
(*                                                                         *)
(* The second layer of the invariant stands on the first (BatchProofs).    *)
(* It says who will publish a hidden row, what a token or a record about a *)
(* batch implies of the batch's row, and where every unsettled item of a   *)
(* Working batch is.  A step is described by what it does to the public    *)
(* statuses (LifeMove), to the runners (Tame) and to each batch (Aside).   *)
(***************************************************************************)
EXTENDS BatchProofs

\* Unless a call failed, a hidden row has a runner on the way to publish it.
HiddenSound(t) ==
    row[t].hidden /\ faults = 0 /\ boot.phase \notin {"pending", "checkpoints"} =>
        \E r \in runners : r.task = t /\ r.pc \in {"settle", "publish"}

\* Unless a call failed, a runner ends only after its task is settled.
DoneSound(r) == faults = 0 /\ r.pc = "done" => settled(r.task)

\* Every item of b has a public terminal status.
AllSettled(b) == \A t \in Items[b] : settled(t)

\* What a token, a flag or a status read earlier says of the batch's row and its items.
PlanSound(b) ==
    /\ b \in bfire \/ btok[b] = "fired" \/ adm[b].drain \/ adm[b].failed =>
         batch[b] \notin {"none", "Working"}
    /\ poll[b] = "Working" => AllSettled(b)
    /\ adm[b].pc = "cas" /\ adm[b].seen = "Working" => AllSettled(b)

\* The items the loop still has to start.
AtHand(b, t) ==
    \/ t \in adm[b].queue \cup adm[b].pending
    \/ adm[b].pc \in {"created", "check"} /\ adm[b].item = t

\* Boot has handed b over, if it had to.
Covered(b) == boot.phase = "up" \/ (boot.phase = "batches" /\ b \notin boot.todo)

\* An item that is neither settled nor with the loop is run by somebody.
Placed(b, t) == settled(t) \/ ~Idle(t) \/ AtHand(b, t)

\* A loop past its last item has none left, and no item of a Working batch is lost.
RestSound(b) ==
    /\ adm[b].pc \in {"settle", "cas"} /\ batch[b] = "Working" =>
         adm[b].queue = {} /\ adm[b].pending = {}
    /\ faults = 0 /\ batch[b] = "Working" /\ Covered(b) => \A t \in Items[b] : Placed(b, t)

\* The second layer of the invariant.
TaskLifeInv == (\A t \in Task : HiddenSound(t)) /\ \A r \in runners : DoneSound(r)
PlanInv == \A b \in Batch : PlanSound(b) /\ RestSound(b)
LifeInv == TaskLifeInv /\ PlanInv

-----------------------------------------------------------------------------
(* What a step may do *)

\* The status a client reads does not move.
PublicSame(u) == public(u)' = public(u)

\* A task starts, its batch being there; or it gets its terminal status.
Begins(t) ==
    /\ public(t) = "none" /\ public(t)' = "Working"
    /\ \A b \in Batch : t \in Items[b] => batch[b] # "none"
Ends(t) == public(t) = "Working" /\ public(t)' \in TerminalStatus

\* At most one public status moves, and then no batch does.
LifeMove ==
    \/ \A u \in Task : PublicSame(u)
    \/ /\ UNCHANGED batch
       /\ \E t \in Task : /\ \A u \in Task \ {t} : PublicSame(u)
                          /\ Begins(t) \/ Ends(t)

\* Runners only join, and no row is hidden.
Tame ==
    /\ LifeMove
    /\ faults' = 0 => faults = 0
    /\ runners \subseteq runners'
    /\ \A r \in runners' \ runners : r.pc # "done"
    /\ \A u \in Task : row'[u].hidden => row[u].hidden

\* A batch whose loop and token are left alone.
PlanMoves(c) == \/ batch'[c] = batch[c]
                \/ batch[c] # "none" /\ batch'[c] \notin {"none", "Working"}
Aside(c) ==
    /\ adm'[c] = adm[c] /\ btok'[c] = btok[c] /\ (c \in bfire' => c \in bfire)
    /\ poll'[c] = poll[c] \/ poll'[c] = "none"
    /\ PlanMoves(c)

\* A settled task stays as it is.
LEMMA SettledStays ==
    ASSUME LifeMove, NEW t \in Task, settled(t)
    PROVE  settled(t)' /\ public(t)' = public(t)
<1>1. public(t) \in TerminalStatus
  BY DEF settled
<1>2. public(t) # "none" /\ public(t) # "Working"
  BY <1>1 DEF TerminalStatus
<1>3. public(t)' = public(t)
  BY <1>2 DEF LifeMove, PublicSame, Begins, Ends
<1> QED BY <1>1, <1>3 DEF settled

\* A batch whose items are settled stays so.
LEMMA AllStay ==
    ASSUME LifeMove, NEW b \in Batch, AllSettled(b)
    PROVE  AllSettled(b)'
  BY SettledStays, Tasks DEF AllSettled

\* A batch left aside keeps what its tokens and records say.
LEMMA AsidePlan ==
    ASSUME LifeMove, NEW c \in Batch, PlanSound(c), Aside(c)
    PROVE  PlanSound(c)'
  BY AllStay DEF PlanSound, Aside, PlanMoves

\* No item of c gets lost in the step.
KeepsPlace(c) == faults' = 0 => faults = 0 /\ \A t \in Items[c] : Placed(c, t) => Placed(c, t)'

\* A batch left aside keeps its items placed.
LEMMA AsideRest ==
    ASSUME NEW c \in Batch, RestSound(c), Aside(c), KeepsPlace(c), Covered(c)' => Covered(c)
    PROVE  RestSound(c)'
  BY DEF RestSound, Aside, PlanMoves, KeepsPlace

\* Runners only join: what was run is run, what was settled is settled.
LEMMA TamePlace ==
    ASSUME Tame, NEW c \in Batch, NEW t \in Items[c], Placed(c, t)
    PROVE  settled(t)' \/ ~Idle(t)' \/ AtHand(c, t)
  BY SettledStays, Tasks DEF Placed, Idle, Tame

\* A tame step loses no item of a batch left aside.
LEMMA TameAside ==
    ASSUME Tame, NEW c \in Batch, Aside(c)
    PROVE  KeepsPlace(c)
<1>1. \A t : AtHand(c, t)' = AtHand(c, t)
  BY DEF AtHand, Aside
<1> QED BY <1>1, TamePlace DEF KeepsPlace, Tame, Placed

\* Boot does not go on past its reconciliations while a row is hidden.
PastReconciling == boot'.phase \notin {"pending", "checkpoints"} =>
    boot.phase \notin {"pending", "checkpoints"} \/ \A t \in Task : ~row[t].hidden

\* A tame step keeps a publisher for every hidden row.
LEMMA TameTasks ==
    ASSUME Inv, TaskLifeInv, Tame, PastReconciling
    PROVE  TaskLifeInv'
<1>1. ASSUME NEW t \in Task PROVE HiddenSound(t)'
  <2>1. HiddenSound(t)
    BY DEF TaskLifeInv
  <2> QED BY <2>1 DEF HiddenSound, Tame, PastReconciling
<1>2. ASSUME NEW r \in runners' PROVE DoneSound(r)'
  <2>1. CASE r \in runners
    BY <2>1, SettledStays, Running DEF DoneSound, TaskLifeInv, Tame
  <2>2. CASE r \notin runners
    BY <2>2 DEF DoneSound, Tame
  <2> QED BY <2>1, <2>2
<1> QED BY <1>1, <1>2 DEF TaskLifeInv

\* The invariant after a step that concerns b at most.
LEMMA TameStep ==
    ASSUME Inv, LifeInv, Tame, PastReconciling, NEW b \in Batch, PlanSound(b)', RestSound(b)',
           \A c \in Batch \ {b} : Aside(c) /\ (Covered(c)' => Covered(c))
    PROVE  LifeInv'
<1>1. TaskLifeInv'
  BY TameTasks DEF LifeInv
<1>2. ASSUME NEW c \in Batch \ {b} PROVE PlanSound(c)' /\ RestSound(c)'
  BY AsidePlan, AsideRest, TameAside DEF LifeInv, PlanInv, Tame
<1> QED BY <1>1, <1>2 DEF LifeInv, PlanInv

\* The invariant after a step that concerns no batch.
LEMMA TameAlone ==
    ASSUME Inv, LifeInv, Tame, PastReconciling,
           \A c \in Batch : Aside(c) /\ (Covered(c)' => Covered(c))
    PROVE  LifeInv'
<1>1. TaskLifeInv'
  BY TameTasks DEF LifeInv
<1>2. ASSUME NEW c \in Batch PROVE PlanSound(c)' /\ RestSound(c)'
  BY AsidePlan, AsideRest, TameAside DEF LifeInv, PlanInv, Tame
<1> QED BY <1>1, <1>2 DEF LifeInv, PlanInv

-----------------------------------------------------------------------------
(* The steps of a runner *)

\* A runner that is not on the way to publish has a visible row, unless a call failed.
LEMMA VisibleWhileRunning ==
    ASSUME Inv, TaskLifeInv, NEW r \in runners, faults = 0, r.pc \notin {"settle", "publish"}
    PROVE  ~row[r.task].hidden
<1>1. r.task \in Task
  BY Running
<1>2. boot.phase \notin {"pending", "checkpoints"}
  BY DEF Inv, BootInv, EarlyPhase
<1>3. \A s \in runners : s.task = r.task => s = r
  BY DEF Inv, RunnerInv
<1> QED BY <1>1, <1>2, <1>3 DEF TaskLifeInv, HiddenSound

\* What becomes of the task of r: it may be settled, and unless a call failed it is before
\* its runner ends, and a hidden row keeps a runner on the way to publish it.
RunnerFate(r) ==
    /\ public(r.task)' = public(r.task) \/ Ends(r.task)
    /\ faults' = 0 =>
         /\ faults = 0
         /\ \A s \in runners' : s.task = r.task /\ s.pc = "done" => settled(r.task)'
         /\ row'[r.task].hidden =>
              \E s \in runners' : s.task = r.task /\ s.pc \in {"settle", "publish"}
         /\ Idle(r.task)' => settled(r.task)'

\* The runner becomes s and the row of its task x.
LEMMA FateOf ==
    ASSUME Inv, NEW r \in runners, NEW s \in RunnerRecord,
           s.task = r.task, s.attempt = r.attempt, Become(r, s),
           Fault \/ NoFault, public(r.task)' = public(r.task) \/ Ends(r.task),
           faults' = 0 /\ s.pc = "done" => settled(r.task)',
           faults' = 0 /\ row'[r.task].hidden => s.pc \in {"settle", "publish"}
    PROVE  RunnerFate(r)
<1>1. s \in runners' /\ \A q \in runners' : q.task = r.task => q = s
  BY BecomeMoves DEF Inv
<1>2. faults' = 0 => faults = 0
  BY FaultType DEF Inv
<1> QED BY <1>1, <1>2 DEF RunnerFate, Idle

\* A refused runner tries once more, or ends: its task is settled or a call failed.
LEMMA RefusedFate ==
    ASSUME Inv, TaskLifeInv, NEW r \in runners, Refused(r), Fault \/ NoFault, UNCHANGED row,
           faults' = 0 => settled(r.task)
    PROVE  RunnerFate(r)
<1>0. r \in RunnerRecord /\ row[r.task] \in RowRecord
  BY Running
<1>1. public(r.task)' = public(r.task) /\ settled(r.task)' = settled(r.task)
  BY DEF public, settled
<1>2. settled(r.task) => ~row[r.task].hidden
  BY DEF settled, public, TerminalStatus
<1>3. CASE r.last
  <2> DEFINE s == [r EXCEPT !.pc = "done"]
  <2>1. s \in RunnerRecord /\ s.task = r.task /\ s.attempt = r.attempt /\ s.pc = "done"
    BY <1>0 DEF RunnerRecord, RunnerPc
  <2> QED BY <1>1, <1>2, <1>3, <2>1, FateOf DEF Refused
<1>4. CASE ~r.last
  <2> DEFINE s == [r EXCEPT !.pc = "commit", !.out = "Failed", !.last = TRUE]
  <2>1. s \in RunnerRecord /\ s.task = r.task /\ s.attempt = r.attempt
    BY <1>0 DEF RunnerRecord, RunnerPc, TerminalStatus
  <2> QED BY <1>1, <1>2, <1>4, <2>1, FateOf DEF Refused
<1> QED BY <1>3, <1>4

\* A call that fails counts.
LEMMA FaultCounts ==
    ASSUME TypeOK, Fault
    PROVE  faults' # 0
  BY DetachedAssumption DEF TypeOK, Fault

\* A checkpoint leaves the public status alone.
LEMMA CheckpointFate ==
    ASSUME Inv, TaskLifeInv, NEW r \in runners, Checkpoint(r)
    PROVE  RunnerFate(r)
<1> DEFINE t == r.task
<1>0. r \in RunnerRecord /\ t \in Task /\ row[t] \in RowRecord /\ r.pc = "run"
  BY Running DEF Checkpoint
<1>1. PICK k \in {"Completed", "Failed"}, o \in TerminalStatus :
        /\ row' = [row EXCEPT ![t].ck = k]
        /\ Become(r, [r EXCEPT !.pc = "commit", !.out = o])
  BY DEF Checkpoint, TerminalStatus
<1> DEFINE s == [r EXCEPT !.pc = "commit", !.out = o]
<1>2. s \in RunnerRecord /\ s.task = t /\ s.attempt = r.attempt /\ s.pc = "commit"
  BY <1>0 DEF RunnerRecord, RunnerPc
<1>3. row'[t].status = row[t].status /\ row'[t].hidden = row[t].hidden
  BY <1>0, <1>1 DEF RowRecord, Inv, TypeOK
<1>4. NoFault
  BY DEF Checkpoint, NoFault
<1>5. faults' = 0 => ~row'[t].hidden
  BY <1>0, <1>3, <1>4, VisibleWhileRunning DEF NoFault
<1>6. public(t)' = public(t)
  BY <1>3 DEF public
<1> QED BY <1>1, <1>2, <1>4, <1>5, <1>6, FateOf

\* A run that ends without a checkpoint goes on to commit and moves no status.
LEMMA EndEarlyFate ==
    ASSUME Inv, TaskLifeInv, NEW r \in runners, EndEarly(r) \/ Panic(r)
    PROVE  RunnerFate(r)
<1> DEFINE t == r.task
<1>0. r \in RunnerRecord /\ t \in Task /\ r.pc = "run"
  BY Running DEF EndEarly, Panic
<1>1. UNCHANGED row /\ (Fault \/ NoFault)
  BY DEF EndEarly, Panic, NoFault
<1>2. PICK s : s \in RunnerRecord /\ s.task = t /\ s.attempt = r.attempt /\ s.pc = "commit" /\ Become(r, s)
  <2>1. CASE EndEarly(r)
    <3>1. PICK o \in TerminalStatus :
            \/ Become(r, [r EXCEPT !.pc = "commit", !.out = o])
            \/ Become(r, [r EXCEPT !.pc = "commit", !.out = o, !.last = TRUE])
      BY <2>1 DEF EndEarly, TerminalStatus
    <3> DEFINE p == [r EXCEPT !.pc = "commit", !.out = o]
               q == [r EXCEPT !.pc = "commit", !.out = o, !.last = TRUE]
    <3>2. /\ p \in RunnerRecord /\ p.task = t /\ p.attempt = r.attempt /\ p.pc = "commit"
          /\ q \in RunnerRecord /\ q.task = t /\ q.attempt = r.attempt /\ q.pc = "commit"
      BY <1>0 DEF RunnerRecord, RunnerPc
    <3> QED BY <3>1, <3>2
  <2>2. CASE Panic(r)
    <3> DEFINE p == [r EXCEPT !.pc = "commit", !.out = "Failed", !.last = TRUE, !.detached = TRUE]
    <3>1. p \in RunnerRecord /\ p.task = t /\ p.attempt = r.attempt /\ p.pc = "commit"
      BY <1>0 DEF RunnerRecord, RunnerPc, TerminalStatus
    <3> QED BY <2>2, <3>1 DEF Panic
  <2> QED BY <2>1, <2>2
<1>3. faults' = 0 => ~row'[t].hidden
  BY <1>0, <1>1, FaultType, VisibleWhileRunning DEF Inv
<1>4. public(t)' = public(t)
  BY <1>1 DEF public
<1> QED BY <1>1, <1>2, <1>3, <1>4, FateOf

\* A commit that is refused although no call failed: the task was canceled.
LEMMA CommitFate ==
    ASSUME Inv, TaskLifeInv, NEW r \in runners, Commit(r)
    PROVE  RunnerFate(r)
<1> DEFINE t == r.task
           s == [r EXCEPT !.pc = "settle"]
<1>0. /\ r \in RunnerRecord /\ t \in Task /\ row[t] \in RowRecord /\ row[t].status # "none"
      /\ row[t].attempt = r.attempt /\ r.pc = "commit" /\ RowSound(t)
  BY Running DEF Commit
<1>1. s \in RunnerRecord /\ s.task = t /\ s.attempt = r.attempt /\ s.pc = "settle"
  BY <1>0 DEF RunnerRecord, RunnerPc
<1>2. CASE /\ can_set_pending(row[t], r.attempt)
           /\ row' = [row EXCEPT ![t] = set_terminal_sequenced_pending(@, r.out)]
           /\ Become(r, s) /\ NoFault
  <2>1. row'[t].hidden = TRUE /\ row[t].hidden = FALSE /\ row[t].status = "Working"
    BY <1>0, <1>2 DEF set_terminal_sequenced_pending, can_set_pending, RowRecord, Inv, TypeOK
  <2>2. public(t)' = public(t)
    BY <2>1 DEF public
  <2> QED BY <1>1, <1>2, <2>2, FateOf
<1>3. CASE Become(r, s) /\ NoFault /\ UNCHANGED row
  <2>1. public(t)' = public(t)
    BY <1>3 DEF public
  <2> QED BY <1>1, <1>3, <2>1, FateOf
<1>4. CASE /\ ~can_set_pending(row[t], r.attempt) /\ Refused(r) /\ NoFault /\ UNCHANGED row
  <2>1. faults' = 0 => settled(t)
    <3>1. faults' = 0 => ~row[t].hidden
      BY <1>0, <1>4, VisibleWhileRunning DEF NoFault
    <3> QED BY <1>0, <1>4, <3>1 DEF can_set_pending, settled, public, RowRecord, TaskStatus
  <2> QED BY <1>4, <2>1, RefusedFate
<1>5. CASE Fault /\ Refused(r) /\ UNCHANGED row
  BY <1>5, FaultCounts, RefusedFate DEF Inv
<1> QED BY <1>2, <1>3, <1>4, <1>5 DEF Commit

\* A runner that settles goes on to publish.
LEMMA SettleFate ==
    ASSUME Inv, TaskLifeInv, NEW r \in runners, Settle(r)
    PROVE  RunnerFate(r)
<1> DEFINE t == r.task
           s == [r EXCEPT !.pc = "publish"]
<1>0. r \in RunnerRecord /\ t \in Task /\ row[t] \in RowRecord
  BY Running
<1>1. s \in RunnerRecord /\ s.task = t /\ s.attempt = r.attempt /\ s.pc = "publish"
  BY <1>0 DEF RunnerRecord, RunnerPc
<1>2. CASE Become(r, s) /\ (Fault \/ NoFault) /\ (UNCHANGED row \/ row' = [row EXCEPT ![t].marked = TRUE])
  <2>1. row'[t].hidden = row[t].hidden /\ row'[t].status = row[t].status
    <3>1. CASE row' = [row EXCEPT ![t].marked = TRUE]
      <4>1. row'[t] = [row[t] EXCEPT !.marked = TRUE]
        BY <1>0, <3>1 DEF Inv, TypeOK
      <4> QED BY <1>0, <4>1 DEF RowRecord
    <3> QED BY <1>2, <3>1
  <2>2. public(t)' = public(t)
    BY <2>1 DEF public
  <2> QED BY <1>1, <1>2, <2>2, FateOf
<1>3. CASE Fault /\ Refused(r) /\ UNCHANGED row
  BY <1>3, FaultCounts, RefusedFate DEF Inv
<1> QED BY <1>2, <1>3 DEF Settle, Fault, NoFault

\* Publication moves the public status from Working to a terminal one.
LEMMA PublishFate ==
    ASSUME Inv, TaskLifeInv, NEW r \in runners, Publish(r)
    PROVE  RunnerFate(r)
<1> DEFINE t == r.task
           s == [r EXCEPT !.pc = "done"]
<1>0. /\ r \in RunnerRecord /\ t \in Task /\ row[t] \in RowRecord
      /\ row[t].status \in TerminalStatus
  BY Running DEF Publish, RunnerSound
<1>1. s \in RunnerRecord /\ s.task = t /\ s.attempt = r.attempt /\ s.pc = "done"
  BY <1>0 DEF RunnerRecord, RunnerPc
<1>2. CASE row' = [row EXCEPT ![t] = mark_terminal_projection_ready(@)] /\ Become(r, s) /\ NoFault
  <2>1. row'[t].hidden = FALSE /\ row'[t].status = row[t].status
    BY <1>0, <1>2 DEF RowRecord, mark_terminal_projection_ready, Inv, TypeOK
  <2>2. settled(t)' /\ (public(t)' = public(t) \/ Ends(t))
    BY <1>0, <2>1 DEF public, Ends, settled
  <2> QED BY <1>1, <1>2, <2>1, <2>2, FateOf
<1>3. CASE Fault /\ Refused(r) /\ UNCHANGED row
  BY <1>3, FaultCounts, RefusedFate DEF Inv
<1> QED BY <1>2, <1>3 DEF Publish

\* A runner leaves the table after its task is settled, unless a call failed.
LEMMA EndFate ==
    ASSUME Inv, TaskLifeInv, NEW r \in runners, End(r)
    PROVE  RunnerFate(r)
<1>1. faults = 0 => settled(r.task)
  BY DEF TaskLifeInv, DoneSound, End
<1>2. public(r.task)' = public(r.task) /\ settled(r.task)' = settled(r.task)
  BY DEF End, public, settled
<1>3. settled(r.task) => ~row[r.task].hidden
  BY DEF settled, public, TerminalStatus
<1>4. UNCHANGED <<row, faults>>
  BY DEF End
<1> QED BY <1>1, <1>2, <1>3, <1>4 DEF RunnerFate

\* A runner's step moves one public status, and leaves every item where somebody has it.
LEMMA RunnerStepLife ==
    ASSUME Inv, LifeInv, NEW r \in runners, RunnerStep(r), UNCHANGED <<adm, btok, bfire, poll>>
    PROVE  LifeMove /\ UNCHANGED batch /\ LifeInv'
<1> DEFINE t == r.task
<1>0. t \in Task
  BY Running
<1>1. RunnerFate(r)
  BY CheckpointFate, EndEarlyFate, CommitFate, SettleFate, PublishFate, EndFate
     DEF RunnerStep, Finishing, LifeInv
<1>2. RunnerEffect(r)
  BY CheckpointKeeps, EndEarlyKeeps, CommitKeeps, SettleKeeps, PublishKeeps, EndKeeps
     DEF RunnerStep, Finishing, RunnerKeeps
<1>3. /\ \A u \in Task \ {t} : row'[u] = row[u]
      /\ \A s \in runners : s.task # t => s \in runners'
      /\ \A s \in runners' : s.task # t => s \in runners
      /\ UNCHANGED <<batch, boot>>
  BY <1>2 DEF RunnerEffect, RunnersMove
<1>4. LifeMove
  <2>1. \A u \in Task \ {t} : PublicSame(u)
    BY <1>3 DEF PublicSame, public
  <2> QED BY <1>0, <1>1, <1>3, <2>1 DEF LifeMove, RunnerFate, PublicSame
<1>5. ASSUME NEW u \in Task PROVE HiddenSound(u)'
  <2>1. CASE u = t
    BY <1>1, <2>1 DEF HiddenSound, RunnerFate
  <2>2. CASE u # t
    BY <1>1, <1>3, <2>2 DEF HiddenSound, RunnerFate, LifeInv, TaskLifeInv
  <2> QED BY <2>1, <2>2
<1>6. ASSUME NEW s \in runners' PROVE DoneSound(s)'
  <2>1. CASE s.task = t
    BY <1>1, <2>1 DEF DoneSound, RunnerFate
  <2>2. CASE s.task # t
    <3>1. s \in runners /\ s.task \in Task /\ DoneSound(s)
      BY <1>3, <2>2, Running DEF LifeInv, TaskLifeInv
    <3> QED BY <1>1, <1>4, <3>1, SettledStays DEF DoneSound, RunnerFate
  <2> QED BY <2>1, <2>2
<1>7. ASSUME NEW c \in Batch PROVE PlanSound(c)' /\ RestSound(c)'
  <2>1. Aside(c) /\ (Covered(c)' => Covered(c))
    BY <1>3 DEF Aside, PlanMoves, Covered
  <2>2. KeepsPlace(c)
    <3>1. ASSUME NEW u \in Items[c], Placed(c, u), faults' = 0 PROVE Placed(c, u)'
      <4>1. u \in Task
        BY Tasks
      <4>2. AtHand(c, u)' = AtHand(c, u)
        BY DEF AtHand
      <4>3. ~Idle(u) => ~Idle(u)' \/ settled(u)'
        BY <1>1, <1>3, <3>1 DEF Idle, RunnerFate
      <4> QED BY <1>4, <3>1, <4>1, <4>2, <4>3, SettledStays DEF Placed
    <3> QED BY <1>1, <3>1 DEF KeepsPlace, RunnerFate
  <2> QED BY <1>4, <2>1, <2>2, AsidePlan, AsideRest DEF LifeInv, PlanInv
<1> QED BY <1>3, <1>4, <1>5, <1>6, <1>7 DEF LifeInv, TaskLifeInv, PlanInv

-----------------------------------------------------------------------------
(* What a step may do to the batches *)

\* The row of b goes to s; it completes only over settled items.
PlanGoes(b, s) ==
    \/ batch[b] = "none" /\ s = "Working"
    \/ batch[b] = "Working" /\ s \in {"Canceling", "Failed"}
    \/ batch[b] = "Working" /\ s = "Completed" /\ AllSettled(b)
    \/ batch[b] = "Canceling" /\ s \in {"Canceled", "Failed"}

\* At most one batch moves, and then no public status does.
LifeStep ==
    /\ LifeMove
    /\ \/ UNCHANGED batch
       \/ /\ \A u \in Task : PublicSame(u)
          /\ \E b \in Batch, s \in BatchStatus :
                PlanGoes(b, s) /\ batch' = [batch EXCEPT ![b] = s]

\* A step that leaves rows and runners alone is tame.
LEMMA StillTame ==
    ASSUME UNCHANGED <<row, runners, faults>>
    PROVE  Tame /\ \A u \in Task : PublicSame(u) /\ settled(u)' = settled(u) /\ Idle(u)' = Idle(u)
  BY DEF Tame, LifeMove, PublicSame, public, settled, Idle

-----------------------------------------------------------------------------
(* The loop of a batch: steps that leave the tasks alone *)

\* The loop keeps its items, and drains only after the batch was canceled.
LoopKeeps(b) ==
    /\ \A c \in Batch \ {b} : adm'[c] = adm[c]
    /\ adm'[b].queue = adm[b].queue /\ adm'[b].pending = adm[b].pending
    /\ adm'[b].failed = adm[b].failed
    /\ adm'[b].drain => adm[b].drain \/ btok[b] = "fired"

\* A step of one loop leaves the other batches aside.
LEMMA LoopAside ==
    ASSUME NEW b \in Batch, NEW c \in Batch \ {b}, adm'[c] = adm[c], btok'[c] = btok[c],
           UNCHANGED <<bfire, poll>>, PlanMoves(c)
    PROVE  Aside(c)
  BY DEF Aside

\* A step of the loop that leaves the tasks and the batch rows alone.
LEMMA StillLoop ==
    ASSUME Inv, LifeInv, NEW b \in Batch,
           UNCHANGED <<row, runners, faults, batch, boot, bfire, poll>>,
           \A c \in Batch \ {b} : adm'[c] = adm[c] /\ btok'[c] = btok[c],
           btok'[b] = "fired" => btok[b] = "fired",
           adm'[b].failed => adm[b].failed,
           adm'[b].drain => adm[b].drain \/ btok[b] = "fired",
           adm'[b].pc # "cas",
           adm'[b].pc = "settle" /\ batch[b] = "Working" =>
               adm[b].queue = {} /\ adm[b].pending = {},
           adm'[b].queue \subseteq adm[b].queue, adm'[b].pending \subseteq adm[b].pending,
           \A t \in Items[b] : AtHand(b, t) => AtHand(b, t)' \/ settled(t)
    PROVE  LifeStep /\ LifeInv'
<1>1. Tame /\ \A u \in Task : PublicSame(u) /\ settled(u)' = settled(u) /\ Idle(u)' = Idle(u)
  BY StillTame
<1>2. LifeStep
  BY <1>1 DEF LifeStep, Tame
<1>3. PlanSound(b) /\ RestSound(b)
  BY DEF LifeInv, PlanInv
<1>4. AllSettled(b) => AllSettled(b)'
  BY <1>1, AllStay DEF Tame
<1>5. PlanSound(b)'
  BY <1>3, <1>4 DEF PlanSound
<1>6. RestSound(b)'
  <2>1. Covered(b)' = Covered(b)
    BY DEF Covered
  <2>2. \A t \in Items[b] : Placed(b, t) => Placed(b, t)'
    BY <1>1, Tasks DEF Placed
  <2> QED BY <1>3, <2>1, <2>2 DEF RestSound
<1>7. \A c \in Batch \ {b} : Aside(c) /\ (Covered(c)' => Covered(c))
  BY LoopAside DEF PlanMoves, Covered
<1>8. PastReconciling
  BY DEF PastReconciling
<1> QED BY <1>1, <1>2, <1>5, <1>6, <1>7, <1>8, TameStep

\* The same for a loop that keeps its items.
LEMMA StillKeeps ==
    ASSUME Inv, LifeInv, NEW b \in Batch, LoopKeeps(b), adm[b].pc \notin {"created", "check"},
           UNCHANGED <<row, runners, faults, batch, boot, bfire, poll>>,
           \A c \in Batch \ {b} : btok'[c] = btok[c],
           btok'[b] = "fired" => btok[b] = "fired",
           adm'[b].pc # "cas",
           adm'[b].pc = "settle" /\ batch[b] = "Working" =>
               adm[b].queue = {} /\ adm[b].pending = {}
    PROVE  LifeStep /\ LifeInv'
<1>1. \A t \in Items[b] : AtHand(b, t) => AtHand(b, t)'
  BY DEF AtHand, LoopKeeps
<1>2. /\ \A c \in Batch \ {b} : adm'[c] = adm[c] /\ btok'[c] = btok[c]
      /\ adm'[b].failed => adm[b].failed
      /\ adm'[b].drain => adm[b].drain \/ btok[b] = "fired"
      /\ adm'[b].queue \subseteq adm[b].queue /\ adm'[b].pending \subseteq adm[b].pending
  BY DEF LoopKeeps
<1> QED BY <1>1, <1>2, StillLoop

\* The record of a loop has its type.
LEMMA LoopOf ==
    ASSUME TypeOK, NEW b \in Batch
    PROVE  adm[b] \in LoopRecord
  BY DEF TypeOK

\* The loop only goes to another program counter.
LEMMA GotoKeeps ==
    ASSUME TypeOK, NEW b \in Batch, NEW pc \in LoopPc, goto(b, pc)
    PROVE  LoopKeeps(b) /\ adm'[b].pc = pc
<1> DEFINE x == [adm[b] EXCEPT !.pc = pc]
<1>1. /\ x \in LoopRecord /\ x.pc = pc /\ x.queue = adm[b].queue /\ x.pending = adm[b].pending
      /\ x.failed = adm[b].failed /\ x.drain = adm[b].drain
  BY LoopOf DEF LoopRecord
<1>2. adm' = [adm EXCEPT ![b] = x]
  BY DEF goto
<1> QED BY <1>1, <1>2, LoopPut DEF LoopKeeps

\* The loop reaps a child.
LEMMA ReapKeeps ==
    ASSUME TypeOK, NEW b \in Batch, NEW t, NEW pc \in LoopPc,
           \/ adm' = [adm EXCEPT ![b].pc = pc, ![b].inflight = @ \ {t}]
           \/ pc = adm[b].pc /\ adm' = [adm EXCEPT ![b].inflight = @ \ {t}]
    PROVE  LoopKeeps(b) /\ adm'[b].pc = pc
<1>1. CASE adm' = [adm EXCEPT ![b].pc = pc, ![b].inflight = @ \ {t}]
  <2> DEFINE x == [adm[b] EXCEPT !.pc = pc, !.inflight = adm[b].inflight \ {t}]
  <2>1. /\ x \in LoopRecord /\ x.pc = pc /\ x.queue = adm[b].queue /\ x.pending = adm[b].pending
        /\ x.failed = adm[b].failed /\ x.drain = adm[b].drain
    BY LoopOf DEF LoopRecord
  <2>2. adm' = [adm EXCEPT ![b] = x]
    BY <1>1 DEF TypeOK, LoopRecord
  <2> QED BY <2>1, <2>2, LoopPut DEF LoopKeeps
<1>2. CASE pc = adm[b].pc /\ adm' = [adm EXCEPT ![b].inflight = @ \ {t}]
  <2> DEFINE x == [adm[b] EXCEPT !.inflight = adm[b].inflight \ {t}]
  <2>1. /\ x \in LoopRecord /\ x.pc = adm[b].pc /\ x.queue = adm[b].queue
        /\ x.pending = adm[b].pending /\ x.failed = adm[b].failed /\ x.drain = adm[b].drain
    BY LoopOf DEF LoopRecord
  <2>2. adm' = [adm EXCEPT ![b] = x]
    BY <1>2
  <2> QED BY <1>2, <2>1, <2>2, LoopPut DEF LoopKeeps
<1> QED BY <1>1, <1>2

\* Registering a token that was fired meanwhile: the batch is being canceled.
LEMMA RegisterLife ==
    ASSUME Inv, LifeInv, NEW b \in Batch, Register(b)
    PROVE  LifeStep /\ LifeInv'
<1>1. LoopKeeps(b) /\ adm'[b].pc = "top"
  BY GotoKeeps DEF Register, goto, LoopPc, Inv
<1>2. UNCHANGED <<row, runners, faults, batch, boot, bfire, poll>>
  BY DEF Register, storeVars, taskVars
<1>3. (\A c \in Batch \ {b} : btok'[c] = btok[c]) /\ btok'[b] # "fired"
  BY DEF Register, Inv, TypeOK
<1>4. adm[b].pc = "register"
  BY DEF Register
<1> QED BY <1>1, <1>2, <1>3, <1>4, StillKeeps

\* A loop that leaves while its batch is Working has nothing left to admit.
LEMMA TopLife ==
    ASSUME Inv, LifeInv, NEW b \in Batch, Top(b)
    PROVE  LifeStep /\ LifeInv'
<1>0. TypeOK /\ adm[b].pc = "top" /\ PlanSound(b)
  BY DEF Inv, LifeInv, PlanInv, Top
<1>1. UNCHANGED <<row, runners, faults, batch, boot, btok, bfire, poll>>
  BY DEF Top, storeVars
<1>2. CASE goto(b, "permit") \/ goto(b, "select")
  <2>1. LoopKeeps(b) /\ adm'[b].pc \in {"permit", "select"}
    BY <1>0, <1>2, GotoKeeps DEF LoopPc
  <2> QED BY <1>0, <1>1, <2>1, StillKeeps
<1>3. CASE ~MayAdmit(b) /\ adm[b].inflight = {} /\ goto(b, "settle")
  <2>1. LoopKeeps(b) /\ adm'[b].pc = "settle"
    BY <1>0, <1>3, GotoKeeps DEF LoopPc
  <2>2. batch[b] = "Working" => adm[b].queue = {} /\ adm[b].pending = {}
    <3>1. Cardinality({}) = 0 /\ 0 < Concurrency
      BY BatchAssumption, FS_EmptySet
    <3>2. batch[b] = "Working" => adm[b].queue \cup adm[b].pending = {}
      BY <1>0, <1>3, <3>1 DEF MayAdmit, PlanSound
    <3> QED BY <3>2
  <2> QED BY <1>0, <1>1, <2>1, <2>2, StillKeeps
<1>4. CASE adm' = [adm EXCEPT ![b].pc = "drain", ![b].told = TRUE]
  <2> DEFINE x == [adm[b] EXCEPT !.pc = "drain", !.told = TRUE]
  <2>1. /\ x \in LoopRecord /\ x.pc = "drain" /\ x.queue = adm[b].queue
        /\ x.pending = adm[b].pending /\ x.failed = adm[b].failed /\ x.drain = adm[b].drain
    BY <1>0, LoopOf DEF LoopRecord, LoopPc
  <2>2. adm' = [adm EXCEPT ![b] = x]
    BY <1>4
  <2>3. LoopKeeps(b) /\ adm'[b].pc = "drain"
    BY <1>0, <2>1, <2>2, LoopPut DEF LoopKeeps
  <2> QED BY <1>0, <1>1, <2>3, StillKeeps
<1> QED BY <1>2, <1>3, <1>4 DEF Top

\* The loop drains: the batch's token has fired.
LEMMA DrainKeeps ==
    ASSUME TypeOK, NEW b \in Batch, btok[b] = "fired",
           \/ adm' = [adm EXCEPT ![b].pc = "top", ![b].drain = TRUE]
           \/ adm' = [adm EXCEPT ![b].pc = "top", ![b].drain = TRUE, ![b].told = TRUE]
    PROVE  LoopKeeps(b) /\ adm'[b].pc = "top"
<1> DEFINE x == [adm[b] EXCEPT !.pc = "top", !.drain = TRUE]
           y == [adm[b] EXCEPT !.pc = "top", !.drain = TRUE, !.told = TRUE]
<1>1. /\ x \in LoopRecord /\ x.pc = "top" /\ x.queue = adm[b].queue /\ x.pending = adm[b].pending
      /\ x.failed = adm[b].failed
  BY LoopOf DEF LoopRecord, LoopPc
<1>2. /\ y \in LoopRecord /\ y.pc = "top" /\ y.queue = adm[b].queue /\ y.pending = adm[b].pending
      /\ y.failed = adm[b].failed
  BY LoopOf DEF LoopRecord, LoopPc
<1>3. adm' = [adm EXCEPT ![b] = x] \/ adm' = [adm EXCEPT ![b] = y]
  OBVIOUS
<1>4. CASE adm' = [adm EXCEPT ![b] = x]
  BY <1>1, <1>4, LoopPut DEF LoopKeeps
<1>5. CASE adm' = [adm EXCEPT ![b] = y]
  BY <1>2, <1>5, LoopPut DEF LoopKeeps
<1> QED BY <1>3, <1>4, <1>5

\* Waiting for a permit keeps the items.
LEMMA AwaitPermitLife ==
    ASSUME Inv, LifeInv, NEW b \in Batch, AwaitPermit(b)
    PROVE  LifeStep /\ LifeInv'
<1>0. TypeOK /\ adm[b].pc = "permit" /\ adm[b].pc \in LoopPc
  BY DEF Inv, AwaitPermit, LoopPc
<1>1. UNCHANGED <<row, runners, faults, batch, boot, btok, bfire, poll>>
  BY DEF AwaitPermit, storeVars, taskVars
<1>2. LoopKeeps(b) /\ adm'[b].pc \in {"top", "admit", "permit"}
  <2>1. CASE btok[b] = "fired" /\ adm' = [adm EXCEPT ![b].pc = "top", ![b].drain = TRUE]
    BY <1>0, <2>1, DrainKeeps
  <2>2. CASE goto(b, "admit")
    BY <1>0, <2>2, GotoKeeps DEF LoopPc
  <2>3. CASE \E t \in Task : adm' = [adm EXCEPT ![b].inflight = @ \ {t}]
    BY <1>0, <2>3, ReapKeeps
  <2> QED BY <2>1, <2>2, <2>3 DEF AwaitPermit
<1> QED BY <1>0, <1>1, <1>2, StillKeeps

\* A draining loop's batch is not Working.
LEMMA DrainLife ==
    ASSUME Inv, LifeInv, NEW b \in Batch, Drain(b) \/ Select(b)
    PROVE  LifeStep /\ LifeInv'
<1>0. TypeOK /\ adm[b].pc \in {"drain", "select"}
  BY DEF Inv, Drain, Select
<1>1. UNCHANGED <<row, runners, faults, batch, boot, btok, bfire, poll>>
  BY DEF Drain, Select, storeVars, taskVars
<1>2. LoopKeeps(b) /\ adm'[b].pc = "top"
  <2>1. CASE btok[b] = "fired" /\ adm' = [adm EXCEPT ![b].pc = "top", ![b].drain = TRUE, ![b].told = TRUE]
    BY <1>0, <2>1, DrainKeeps
  <2>2. CASE \E t \in Task : adm' = [adm EXCEPT ![b].pc = "top", ![b].inflight = @ \ {t}]
    BY <1>0, <2>2, ReapKeeps DEF LoopPc
  <2> QED BY <2>1, <2>2 DEF Drain, Select
<1> QED BY <1>0, <1>1, <1>2, StillKeeps

\* The item the loop gave up is settled, or a call failed.
LEMMA FinalizedLife ==
    ASSUME Inv, LifeInv, NEW b \in Batch, NEW t \in Items[b], Finalized(b, t)
    PROVE  LifeStep /\ LifeInv'
<1> DEFINE x == [adm[b] EXCEPT !.pc = "top", !.item = NoTask,
                               !.drain = adm[b].drain \/ btok[b] = "fired"]
<1>0. TypeOK /\ adm[b].pc = "finalize" /\ adm[b] \in LoopRecord
  BY LoopOf DEF Inv, Finalized
<1>1. UNCHANGED <<row, runners, faults, batch, boot, btok, bfire, poll>>
  BY DEF Finalized, storeVars, taskVars
<1>2. /\ x \in LoopRecord /\ x.pc = "top" /\ x.queue = adm[b].queue /\ x.pending = adm[b].pending
      /\ x.failed = adm[b].failed /\ (x.drain => adm[b].drain \/ btok[b] = "fired")
  BY <1>0 DEF LoopRecord, LoopPc
<1>3. adm' = [adm EXCEPT ![b] = x]
  BY DEF Finalized
<1>4. LoopKeeps(b) /\ adm'[b].pc = "top"
  BY <1>0, <1>2, <1>3, LoopPut DEF LoopKeeps
<1> QED BY <1>0, <1>1, <1>4, StillKeeps

\* A queued child that no longer reads Working is settled: it may be passed over.
LEMMA ResumeGetLife ==
    ASSUME Inv, LifeInv, NEW b \in Batch, NEW t \in Items[b], ResumeGet(b, t)
    PROVE  LifeStep /\ LifeInv'
<1>0. /\ TypeOK /\ adm[b].pc = "admit" /\ adm[b] \in LoopRecord /\ t \in Task
      /\ t \in adm[b].queue /\ row[t] \in RowRecord
  BY LoopOf, Tasks DEF Inv, ResumeGet, TypeOK
<1>1. UNCHANGED <<row, runners, faults, batch, boot, btok, bfire, poll>>
  BY DEF ResumeGet, storeVars, taskVars
<1>2. CASE public(t) = "Working"
  <2> DEFINE x == [adm[b] EXCEPT !.pc = "claim", !.item = t]
  <2>1. /\ x \in LoopRecord /\ x.pc = "claim" /\ x.queue = adm[b].queue
        /\ x.pending = adm[b].pending /\ x.failed = adm[b].failed /\ x.drain = adm[b].drain
    BY <1>0 DEF LoopRecord, LoopPc
  <2>2. adm' = [adm EXCEPT ![b] = x]
    BY <1>2 DEF ResumeGet
  <2>3. LoopKeeps(b) /\ adm'[b].pc = "claim"
    BY <1>0, <2>1, <2>2, LoopPut DEF LoopKeeps
  <2> QED BY <1>0, <1>1, <2>3, StillKeeps
<1>3. CASE public(t) # "Working"
  <2> DEFINE x == [adm[b] EXCEPT !.pc = "top", !.queue = adm[b].queue \ {t}]
  <2>1. /\ x \in LoopRecord /\ x.pc = "top" /\ x.queue = adm[b].queue \ {t}
        /\ x.pending = adm[b].pending /\ x.failed = adm[b].failed /\ x.drain = adm[b].drain
    BY <1>0 DEF LoopRecord, LoopPc
  <2>2. adm' = [adm EXCEPT ![b] = x]
    BY <1>0, <1>3 DEF ResumeGet, TypeOK, LoopRecord
  <2>3. adm'[b] = x /\ \A c \in Batch \ {b} : adm'[c] = adm[c]
    BY <1>0, <2>1, <2>2, LoopPut
  <2>4. settled(t)
    <3>1. RoleSound(t) /\ Queued(t)
      BY <1>0 DEF Inv, RoleInv, Queued
    <3>2. ~row[t].hidden /\ row[t].status # "none"
      BY <3>1 DEF RoleSound, Waiting, Dormant
    <3> QED BY <1>0, <1>3, <3>2 DEF public, settled, RowRecord, TaskStatus
  <2>5. \A u \in Items[b] : AtHand(b, u) => AtHand(b, u)' \/ settled(u)
    BY <1>0, <2>1, <2>3, <2>4 DEF AtHand
  <2> QED BY <1>0, <1>1, <2>1, <2>3, <2>5, StillLoop
<1> QED BY <1>2, <1>3

\* The rollup: what is settled when the status is read stays settled.
LEMMA RollupLife ==
    ASSUME Inv, LifeInv, NEW b \in Batch, Rollup(b)
    PROVE  LifeStep /\ LifeInv'
<1>0. /\ TypeOK /\ adm[b].pc = "settle" /\ adm[b] \in LoopRecord
      /\ UNCHANGED <<row, runners, faults, batch, boot, btok, bfire, poll>>
  BY LoopOf DEF Inv, Rollup, storeVars, taskVars
<1> DEFINE e == IF \E s \in BatchStatus : Settleable(b, s) THEN batch[b] ELSE "none"
           x == [adm[b] EXCEPT !.pc = "cas", !.seen = e]
<1>1. e \in {"none", "Working", "Canceling"} /\ (e = "Working" => AllSettled(b))
  BY DEF Settleable, AllSettled
<1>2. adm' = [adm EXCEPT ![b] = x]
  BY DEF Rollup
<1> HIDE DEF e
<1>3. /\ x \in LoopRecord /\ x.pc = "cas" /\ x.seen = e /\ x.queue = adm[b].queue
      /\ x.pending = adm[b].pending /\ x.failed = adm[b].failed /\ x.drain = adm[b].drain
  BY <1>0, <1>1 DEF LoopRecord, LoopPc, BatchStatus
<1>4. adm'[b] = x /\ \A c \in Batch \ {b} : adm'[c] = adm[c]
  BY <1>0, <1>2, <1>3, LoopPut
<1>5. Tame /\ \A u \in Task : PublicSame(u) /\ settled(u)' = settled(u) /\ Idle(u)' = Idle(u)
  BY <1>0, StillTame
<1>6. LifeStep
  BY <1>0, <1>5 DEF LifeStep, Tame
<1>7. PlanSound(b) /\ RestSound(b)
  BY DEF LifeInv, PlanInv
<1>8. AllSettled(b)' = AllSettled(b)
  BY <1>5, Tasks DEF AllSettled
<1>9. PlanSound(b)'
  BY <1>0, <1>1, <1>3, <1>4, <1>7, <1>8 DEF PlanSound
<1>10. RestSound(b)'
  <2>1. \A u \in Items[b] : AtHand(b, u) => AtHand(b, u)'
    BY <1>0, <1>3, <1>4 DEF AtHand
  <2>2. \A u \in Items[b] : Placed(b, u) => Placed(b, u)'
    BY <1>5, <2>1, Tasks DEF Placed
  <2>3. Covered(b)' = Covered(b)
    BY <1>0 DEF Covered
  <2> QED BY <1>0, <1>3, <1>4, <1>7, <2>2, <2>3 DEF RestSound
<1>11. \A c \in Batch \ {b} : Aside(c) /\ (Covered(c)' => Covered(c))
  BY <1>0, <1>4, LoopAside DEF PlanMoves, Covered
<1>12. PastReconciling
  BY <1>0 DEF PastReconciling
<1> QED BY <1>5, <1>6, <1>9, <1>10, <1>11, <1>12, TameStep

\* A compare and set on the row of b that may only go where PlanGoes allows.
LEMMA SettleRow ==
    ASSUME Inv, NEW b \in Batch, NEW e, NEW s \in BatchStatus \ {"none", "Working"},
           settle_batch_if_status(b, e, s), batch[b] = e => PlanGoes(b, s),
           \A u \in Task : PublicSame(u)
    PROVE  /\ LifeStep
           /\ \A c \in Batch : PlanMoves(c)
           /\ \A c \in Batch \ {b} : batch'[c] = batch[c]
           /\ batch'[b] = batch[b] \/ (batch[b] = e /\ batch'[b] = s)
<1>0. batch \in [Batch -> BatchStatus]
  BY DEF Inv, TypeOK
<1>1. LifeMove
  BY DEF LifeMove
<1>2. CASE batch[b] = e
  <2>1. batch' = [batch EXCEPT ![b] = s] /\ PlanGoes(b, s)
    BY <1>2 DEF settle_batch_if_status
  <2>2. batch[b] # "none"
    BY <2>1 DEF PlanGoes
  <2> QED BY <1>0, <1>1, <1>2, <2>1, <2>2 DEF LifeStep, PlanMoves
<1>3. CASE batch[b] # e
  <2>1. batch' = batch
    BY <1>0, <1>3 DEF settle_batch_if_status
  <2> QED BY <1>1, <2>1 DEF LifeStep, PlanMoves
<1> QED BY <1>2, <1>3

\* The loop of a Working batch leaves nothing behind.
LEMMA LeaveLife ==
    ASSUME Inv, LifeInv, NEW b \in Batch, Leave(b)
    PROVE  LifeStep /\ LifeInv'
<1>0. /\ TypeOK /\ adm[b].pc = "cas" /\ UNCHANGED <<row, runners, faults, boot, bfire, poll>>
      /\ PlanSound(b) /\ RestSound(b) /\ LoopSound(b)
  BY DEF Inv, LoopInv, LifeInv, PlanInv, Leave, taskVars
<1>1. Tame /\ \A u \in Task : PublicSame(u) /\ settled(u)' = settled(u) /\ Idle(u)' = Idle(u)
  BY <1>0, StillTame
<1>2. /\ LifeStep /\ \A c \in Batch : PlanMoves(c)
  <2>1. CASE UNCHANGED batch
    BY <1>1, <2>1 DEF LifeStep, Tame, PlanMoves
  <2>2. CASE adm[b].seen # "none"
    <3> DEFINE e == adm[b].seen
               s == SettledAs(e)
    <3>1. e \in {"Working", "Canceling"} /\ settle_batch_if_status(b, e, s)
      BY <1>0, <2>2 DEF LoopSound, Leave
    <3>2. s \in BatchStatus \ {"none", "Working"} /\ (batch[b] = e => PlanGoes(b, s))
      BY <1>0, <3>1 DEF SettledAs, BatchStatus, PlanGoes, PlanSound
    <3> QED BY <1>1, <3>1, <3>2, SettleRow
  <2> QED BY <2>1, <2>2 DEF Leave
<1>3. adm'[b] = NoLoop /\ \A c \in Batch \ {b} : adm'[c] = adm[c]
  BY <1>0 DEF Leave, TypeOK
<1>4. btok'[b] = "none" /\ \A c \in Batch \ {b} : btok'[c] = btok[c]
  BY <1>0 DEF Leave, TypeOK
<1>5. PlanSound(b)'
  <2>1. AllSettled(b)' = AllSettled(b)
    BY <1>1, Tasks DEF AllSettled
  <2>2. PlanMoves(b)
    BY <1>2
  <2> QED BY <1>0, <1>3, <1>4, <2>1, <2>2 DEF PlanSound, NoLoop, PlanMoves
<1>6. RestSound(b)'
  <2>1. batch'[b] = "Working" => batch[b] = "Working"
    BY <1>2 DEF PlanMoves
  <2>2. batch[b] = "Working" => \A u \in Items[b] : ~AtHand(b, u)
    BY <1>0 DEF RestSound, AtHand
  <2>3. Covered(b)' = Covered(b)
    BY <1>0 DEF Covered
  <2>4. batch[b] = "Working" => \A u \in Items[b] : Placed(b, u) => Placed(b, u)'
    BY <1>1, <2>2, Tasks DEF Placed
  <2> QED BY <1>0, <1>3, <2>1, <2>3, <2>4 DEF RestSound, NoLoop
<1>7. \A c \in Batch \ {b} : Aside(c) /\ (Covered(c)' => Covered(c))
  BY <1>0, <1>2, <1>3, <1>4, LoopAside DEF Covered
<1>8. PastReconciling
  BY <1>0 DEF PastReconciling
<1> QED BY <1>1, <1>2, <1>5, <1>6, <1>7, <1>8, TameStep

-----------------------------------------------------------------------------
(* The loop of a batch: steps that concern an item *)

\* A step that concerns t at most, and hides nothing.
LEMMA TaskTame ==
    ASSUME NEW t \in Task, Others(t), faults' = 0 => faults = 0,
           runners \subseteq runners', \A r \in runners' \ runners : r.pc # "done",
           row'[t].hidden => row[t].hidden,
           PublicSame(t) \/ (UNCHANGED batch /\ (Begins(t) \/ Ends(t)))
    PROVE  Tame
<1>1. \A u \in Task \ {t} : row'[u] = row[u]
  BY DEF Others, SameTask
<1>2. \A u \in Task \ {t} : PublicSame(u)
  BY <1>1 DEF PublicSame, public
<1>3. LifeMove
  BY <1>2 DEF LifeMove
<1> QED BY <1>1, <1>3 DEF Tame

\* The loop works on an item: what it lets go of is run or settled, unless a call failed.
LEMMA LoopWorks ==
    ASSUME Inv, LifeInv, Tame, NEW b \in Batch,
           UNCHANGED <<batch, boot, btok, bfire, poll>>,
           \A c \in Batch \ {b} : adm'[c] = adm[c],
           adm'[b].failed => adm[b].failed, adm'[b].drain => adm[b].drain,
           adm'[b].pc \notin {"settle", "cas"},
           faults' = 0 => \A u \in Items[b] :
               AtHand(b, u) => AtHand(b, u)' \/ settled(u)' \/ ~Idle(u)'
    PROVE  LifeStep /\ LifeInv'
<1>1. LifeStep
  BY DEF LifeStep, Tame
<1>2. PlanSound(b) /\ RestSound(b)
  BY DEF LifeInv, PlanInv
<1>3. PlanSound(b)'
  BY <1>2, AllStay DEF PlanSound, Tame
<1>4. RestSound(b)'
  <2>1. Covered(b)' = Covered(b)
    BY DEF Covered
  <2>2. faults' = 0 => \A u \in Items[b] : Placed(b, u) => Placed(b, u)'
    BY TamePlace DEF Placed
  <2> QED BY <1>2, <2>1, <2>2 DEF RestSound, Tame
<1>5. \A c \in Batch \ {b} : Aside(c) /\ (Covered(c)' => Covered(c))
  BY LoopAside DEF PlanMoves, Covered
<1>6. PastReconciling
  BY DEF PastReconciling
<1> QED BY <1>1, <1>3, <1>4, <1>5, <1>6, TameStep

\* A resumption that is given up leaves a settled task, unless a call failed.
LEMMA GivesUpSettles ==
    ASSUME Inv, NEW t \in Task, Dormant(t), row[t].ck = "none", row[t].status # "none",
           ResumeGivesUp(t), UNCHANGED <<summary, runners>>
    PROVE  /\ faults' = 0 => faults = 0 /\ settled(t)'
           /\ PublicSame(t) \/ Ends(t)
           /\ row'[t].hidden => row[t].hidden
<1>0. /\ TypeOK /\ row[t] \in RowRecord /\ row[t].hidden = FALSE
  BY DEF Inv, Dormant, TypeOK, RowRecord
<1>1. faults' = 0 => faults = 0
  BY <1>0, FaultType DEF ResumeGivesUp
<1>2. UNCHANGED row \/ (public(t) = "Working" /\ public(t)' = "Interrupted")
  BY GivesUpKeeps
<1>3. PublicSame(t) \/ Ends(t)
  BY <1>2 DEF PublicSame, public, Ends, TerminalStatus
<1>4. row'[t].hidden => row[t].hidden
  BY <1>0, <1>2 DEF public
<1>5. CASE ~working(t)
  <2>1. settled(t)
    BY <1>0, <1>5 DEF settled, public, working, RowRecord, TaskStatus
  <2>2. public(t) # "Working"
    BY <2>1 DEF settled, TerminalStatus
  <2>3. settled(t)'
    BY <1>2, <2>1, <2>2 DEF settled, public
  <2> QED BY <1>1, <1>3, <1>4, <2>3
<1>6. CASE working(t) /\ ~resume_exhausted(row[t])
  BY <1>0, <1>3, <1>4, <1>6, FaultCounts DEF ResumeGivesUp
<1>7. CASE working(t) /\ resume_exhausted(row[t])
  <2>1. row' = [row EXCEPT ![t] = set_terminal_sequenced(row[t], "Interrupted")]
    BY <1>7 DEF ResumeGivesUp
  <2>2. set_terminal_sequenced(row[t], "Interrupted") = [row[t] EXCEPT !.status = "Interrupted"]
    BY <1>0, <1>7 DEF set_terminal_sequenced, working
  <2>3. row'[t].status = "Interrupted" /\ row'[t].hidden = FALSE
    BY <1>0, <2>1, <2>2 DEF TypeOK, RowRecord
  <2> QED BY <1>1, <1>3, <1>4, <2>3 DEF settled, public, TerminalStatus
<1> QED BY <1>5, <1>6, <1>7

\* A claim that is refused drops an item that is settled, unless a call failed.
LEMMA ResumeClaimLife ==
    ASSUME Inv, LifeInv, NEW b \in Batch, NEW t \in Items[b], ResumeClaim(b, t)
    PROVE  LifeStep /\ LifeInv'
<1>0. /\ TypeOK /\ adm[b].pc = "claim" /\ adm[b].item = t /\ adm[b] \in LoopRecord /\ t \in Task
      /\ UNCHANGED <<summary, batch, runners, boot, btok, bfire, poll>>
      /\ LoopSound(b) /\ RoleSound(t)
  BY LoopOf, Tasks DEF Inv, ResumeClaim, LoopInv, RoleInv
<1>1. /\ t \in adm[b].queue /\ Dormant(t) /\ row[t].ck = "none" /\ row[t].status # "none"
  BY <1>0 DEF LoopSound, RoleSound, Queued, Waiting
<1>2. CASE ResumeClaims(t) /\ goto(b, "spawn")
  <2>1. LoopKeeps(b) /\ adm'[b].pc = "spawn"
    BY <1>0, <1>2, GotoKeeps DEF LoopPc
  <2>2. row'[t].status = "Working" /\ Others(t) /\ faults' = faults /\ Dormant(t)'
    BY <1>0, <1>1, <1>2, ResumeKeeps
  <2>3. Tame
    <3>1. PublicSame(t) /\ (row'[t].hidden => row[t].hidden)
      BY <1>1, <1>2, <2>2 DEF PublicSame, public, Dormant, ResumeClaims, working
    <3> QED BY <1>0, <2>2, <3>1, TaskTame
  <2>4. \A u \in Items[b] : AtHand(b, u) => AtHand(b, u)'
    BY <1>0, <2>1 DEF AtHand, LoopKeeps
  <2>5. adm'[b].drain => adm[b].drain
    <3> DEFINE x == [adm[b] EXCEPT !.pc = "spawn"]
    <3>1. x \in LoopRecord /\ x.drain = adm[b].drain
      BY <1>0 DEF LoopRecord, LoopPc
    <3>2. adm' = [adm EXCEPT ![b] = x]
      BY <1>2 DEF goto
    <3> QED BY <1>0, <3>1, <3>2, LoopPut
  <2> QED BY <1>0, <2>1, <2>3, <2>4, <2>5, LoopWorks DEF LoopKeeps
<1>3. CASE /\ ResumeGivesUp(t)
           /\ adm' = [adm EXCEPT ![b].pc = "top", ![b].queue = @ \ {t}, ![b].item = NoTask]
  <2> DEFINE x == [adm[b] EXCEPT !.pc = "top", !.queue = adm[b].queue \ {t}, !.item = NoTask]
  <2>1. /\ x \in LoopRecord /\ x.pc = "top" /\ x.queue = adm[b].queue \ {t}
        /\ x.pending = adm[b].pending /\ x.failed = adm[b].failed /\ x.drain = adm[b].drain
    BY <1>0 DEF LoopRecord, LoopPc
  <2>2. adm' = [adm EXCEPT ![b] = x]
    BY <1>0, <1>3 DEF TypeOK, LoopRecord
  <2>3. adm'[b] = x /\ \A c \in Batch \ {b} : adm'[c] = adm[c]
    BY <1>0, <2>1, <2>2, LoopPut
  <2>4. /\ faults' = 0 => faults = 0 /\ settled(t)'
        /\ PublicSame(t) \/ Ends(t)
        /\ row'[t].hidden => row[t].hidden
    BY <1>0, <1>1, <1>3, GivesUpSettles
  <2>5. Others(t)
    BY <1>0, <1>1, <1>3, GivesUpKeeps
  <2>6. Tame
    BY <1>0, <2>4, <2>5, TaskTame
  <2>7. faults' = 0 => \A u \in Items[b] : AtHand(b, u) => AtHand(b, u)' \/ settled(u)'
    BY <1>0, <2>1, <2>3, <2>4 DEF AtHand
  <2> QED BY <1>0, <2>1, <2>3, <2>6, <2>7, LoopWorks
<1> QED BY <1>2, <1>3 DEF ResumeClaim

\* A runner joins.
LEMMA RunnerJoins ==
    ASSUME NEW t, NEW a, NEW pc \in {"run", "commit"}, NEW out, NEW last,
           runners' = runners \cup {Runner(t, a, pc, out, last)}
    PROVE  /\ runners \subseteq runners' /\ ~Idle(t)'
           /\ \A r \in runners' \ runners : r.pc # "done" /\ r.task = t
<1> DEFINE q == Runner(t, a, pc, out, last)
<1>1. q.task = t /\ q.pc = pc
  BY DEF Runner
<1>2. q \in runners' /\ \A r \in runners' \ runners : r = q
  OBVIOUS
<1> HIDE DEF q
<1> QED BY <1>1, <1>2 DEF Idle

\* A reservation and a runner: a tame step after which t is run.
LEMMA ReserveTame ==
    ASSUME Inv, NEW t \in Task, Ready(t), reserve(t), spawn(t)
    PROVE  Tame /\ ~Idle(t)'
<1>0. TypeOK /\ ~row[t].hidden
  BY DEF Inv, Ready, Held
<1>1. Others(t) /\ Starts(t, "run") /\ public(t)' = public(t) /\ RowSound(t)'
  BY ReserveStarts
<1>2. row'[t].hidden = FALSE
  BY ReserveKeeps
<1>3. faults' = 0 => faults = 0
  BY <1>0, FaultType DEF reserve
<1>4. /\ runners \subseteq runners' /\ ~Idle(t)'
      /\ \A r \in runners' \ runners : r.pc # "done"
  BY RunnerJoins DEF spawn
<1>5. Tame
  BY <1>1, <1>2, <1>3, <1>4, TaskTame DEF PublicSame
<1> QED BY <1>4, <1>5

\* A resumed item passes from the queue to its runner.
LEMMA ResumeSpawnLife ==
    ASSUME Inv, LifeInv, NEW b \in Batch, NEW t \in Items[b], ResumeSpawn(b, t)
    PROVE  LifeStep /\ LifeInv'
<1>0. /\ TypeOK /\ adm[b].pc = "spawn" /\ adm[b].item = t /\ adm[b] \in LoopRecord /\ t \in Task
      /\ UNCHANGED <<batch, boot, btok, bfire, poll>> /\ RoleSound(t)
  BY LoopOf, Tasks DEF Inv, ResumeSpawn, RoleInv
<1>1. Ready(t)
  BY <1>0 DEF RoleSound, Starting
<1>2. Tame /\ ~Idle(t)'
  BY <1>0, <1>1, ReserveTame DEF ResumeSpawn
<1> DEFINE x == [adm[b] EXCEPT !.pc = "top", !.queue = adm[b].queue \ {t}, !.item = NoTask,
                               !.inflight = adm[b].inflight \cup {t}]
<1>3. /\ x \in LoopRecord /\ x.pc = "top" /\ x.queue = adm[b].queue \ {t}
      /\ x.pending = adm[b].pending /\ x.failed = adm[b].failed /\ x.drain = adm[b].drain
  BY <1>0 DEF LoopRecord, LoopPc
<1>4. adm' = [adm EXCEPT ![b] = x]
  BY <1>0 DEF ResumeSpawn, TypeOK, LoopRecord
<1>5. adm'[b] = x /\ \A c \in Batch \ {b} : adm'[c] = adm[c]
  BY <1>0, <1>3, <1>4, LoopPut
<1>6. \A u \in Items[b] : AtHand(b, u) => AtHand(b, u)' \/ ~Idle(u)'
  BY <1>0, <1>2, <1>3, <1>5 DEF AtHand
<1> QED BY <1>0, <1>2, <1>3, <1>5, <1>6, LoopWorks

\* A created item is still at hand, or its reservation failed.
LEMMA CreatedLife ==
    ASSUME Inv, LifeInv, NEW b \in Batch, NEW t \in Items[b], Created(b, t)
    PROVE  LifeStep /\ LifeInv'
<1>0. /\ TypeOK /\ adm[b].pc = "created" /\ adm[b].item = t /\ adm[b] \in LoopRecord /\ t \in Task
      /\ UNCHANGED <<batch, boot, btok, bfire, poll, runners>> /\ RoleSound(t)
      /\ batch[b] \in BatchStatus
  BY LoopOf, Tasks DEF Inv, Created, RoleInv, TypeOK
<1>1. Ready(t)
  BY <1>0 DEF RoleSound, Starting
<1>2. /\ \A u \in Task \ {t} : row'[u] = row[u] /\ summary'[u] = summary[u]
      /\ row'[t].status = row[t].status /\ row'[t].hidden = FALSE
  BY <1>0, <1>1, ReserveKeeps DEF Created
<1>3. Tame
  <2>1. Others(t)
    BY <1>0, <1>2 DEF Others, SameTask
  <2>2. PublicSame(t)
    BY <1>1, <1>2 DEF PublicSame, public, Ready, Held
  <2>3. faults' = 0 => faults = 0
    BY <1>0, FaultType DEF Created, reserve
  <2> QED BY <1>0, <1>2, <2>1, <2>2, <2>3, TaskTame
<1> DEFINE x == [adm[b] EXCEPT !.pc = "check", !.seen = batch[b]]
<1>4. /\ x \in LoopRecord /\ x.pc = "check" /\ x.queue = adm[b].queue /\ x.item = t
      /\ x.pending = adm[b].pending /\ x.failed = adm[b].failed /\ x.drain = adm[b].drain
  BY <1>0 DEF LoopRecord, LoopPc
<1>5. adm' = [adm EXCEPT ![b] = x]
  BY DEF Created
<1>6. adm'[b] = x /\ \A c \in Batch \ {b} : adm'[c] = adm[c]
  BY <1>0, <1>4, <1>5, LoopPut
<1>7. \A u \in Items[b] : AtHand(b, u) => AtHand(b, u)'
  BY <1>0, <1>4, <1>6 DEF AtHand
<1> QED BY <1>0, <1>3, <1>4, <1>6, <1>7, LoopWorks

\* Spawned or finalized, the child has a runner.
LEMMA CheckLife ==
    ASSUME Inv, LifeInv, NEW b \in Batch, NEW t \in Items[b], Check(b, t)
    PROVE  LifeStep /\ LifeInv'
<1>0. /\ TypeOK /\ adm[b].pc = "check" /\ adm[b].item = t /\ adm[b] \in LoopRecord /\ t \in Task
      /\ UNCHANGED <<row, summary, batch, boot, faults, btok, bfire, poll>>
      /\ adm[b].item \in Items[b] \ (adm[b].queue \cup adm[b].pending)
  BY LoopOf, Tasks DEF Inv, Check, storeVars, LoopInv, LoopSound
<1>1. /\ runners \subseteq runners' /\ ~Idle(t)'
      /\ \A r \in runners' \ runners : r.pc # "done" /\ r.task = t
  <2>1. CASE runners' = runners \cup {Runner(t, row[t].attempt, "commit", "Canceled", TRUE)}
    BY <2>1, RunnerJoins
  <2>2. CASE runners' = runners \cup {Runner(t, row[t].attempt, "run", "none", FALSE)}
    BY <2>2, RunnerJoins
  <2> QED BY <2>1, <2>2 DEF Check, spawn
<1>2. Tame
  <2>1. Others(t)
    BY <1>0, <1>1 DEF Others, SameTask
  <2>2. PublicSame(t)
    BY <1>0 DEF PublicSame, public
  <2> QED BY <1>0, <1>1, <2>1, <2>2, TaskTame
<1>3. /\ adm'[b].pc \in {"finalize", "top"} /\ adm'[b].queue = adm[b].queue
      /\ adm'[b].pending = adm[b].pending
      /\ adm'[b].failed = adm[b].failed /\ adm'[b].drain = adm[b].drain
      /\ \A c \in Batch \ {b} : adm'[c] = adm[c]
  <2> DEFINE x == [adm[b] EXCEPT !.pc = "finalize", !.seen = "none"]
             y == [adm[b] EXCEPT !.pc = "top", !.inflight = adm[b].inflight \cup {t},
                                 !.item = NoTask, !.seen = "none"]
  <2>1. /\ x \in LoopRecord /\ x.pc = "finalize" /\ x.queue = adm[b].queue
        /\ x.pending = adm[b].pending /\ x.failed = adm[b].failed /\ x.drain = adm[b].drain
    BY <1>0 DEF LoopRecord, LoopPc, BatchStatus
  <2>2. /\ y \in LoopRecord /\ y.pc = "top" /\ y.queue = adm[b].queue
        /\ y.pending = adm[b].pending /\ y.failed = adm[b].failed /\ y.drain = adm[b].drain
    BY <1>0 DEF LoopRecord, LoopPc, BatchStatus
  <2>3. CASE adm' = [adm EXCEPT ![b].pc = "finalize", ![b].seen = "none"]
    <3>1. adm' = [adm EXCEPT ![b] = x]
      BY <2>3
    <3> QED BY <1>0, <2>1, <3>1, LoopPut
  <2>4. CASE adm' = [adm EXCEPT ![b].pc = "top", ![b].inflight = @ \cup {t},
                                ![b].item = NoTask, ![b].seen = "none"]
    <3>1. adm' = [adm EXCEPT ![b] = y]
      BY <1>0, <2>4 DEF TypeOK, LoopRecord
    <3> QED BY <1>0, <2>2, <3>1, LoopPut
  <2> QED BY <2>3, <2>4 DEF Check
<1>4. \A u \in Items[b] : AtHand(b, u) => AtHand(b, u)' \/ ~Idle(u)'
  BY <1>0, <1>1, <1>3 DEF AtHand
<1> QED BY <1>0, <1>2, <1>3, <1>4, LoopWorks

\* A new child: its row is there and the loop has it, or the batch is failed.
LEMMA NewChildLife ==
    ASSUME Inv, LifeInv, NEW b \in Batch, NEW t \in Items[b], NewChild(b, t)
    PROVE  LifeStep /\ LifeInv'
<1>0. /\ adm[b].pc = "admit" /\ TypeOK /\ adm[b] \in LoopRecord /\ t \in Task
      /\ t \in adm[b].pending /\ batch[b] # "none"
      /\ UNCHANGED <<summary, runners, boot, btok, bfire, poll>>
  BY LoopOf, Tasks DEF NewChild, Inv, LoopInv, LoopSound
<1>1. row[t].status = "none" /\ ~row[t].hidden
  BY <1>0 DEF Inv, RoleInv, RoleSound, Pending, RowInv, RowSound, NoRow
<1>2. CASE /\ row' = [row EXCEPT ![t] = NewRow]
           /\ adm' = [adm EXCEPT ![b].pending = @ \ {t}, ![b].pc = "created", ![b].item = t]
           /\ NoFault /\ UNCHANGED batch
  <2> DEFINE x == [adm[b] EXCEPT !.pending = adm[b].pending \ {t}, !.pc = "created", !.item = t]
  <2>1. /\ x \in LoopRecord /\ x.pc = "created" /\ x.queue = adm[b].queue /\ x.item = t
        /\ x.pending = adm[b].pending \ {t} /\ x.failed = adm[b].failed /\ x.drain = adm[b].drain
    BY <1>0 DEF LoopRecord, LoopPc
  <2>2. adm' = [adm EXCEPT ![b] = x]
    BY <1>0, <1>2 DEF TypeOK, LoopRecord
  <2>3. adm'[b] = x /\ \A c \in Batch \ {b} : adm'[c] = adm[c]
    BY <1>0, <2>1, <2>2, LoopPut
  <2>4. Others(t) /\ row'[t].status = "Working" /\ Ready(t)'
    BY <1>0, <1>1, <1>2, FreshRow
  <2>5. Begins(t) /\ ~row'[t].hidden
    BY <1>0, <1>1, <2>4, Tasks DEF Begins, public, Ready, Held
  <2>6. Tame
    BY <1>0, <1>2, <2>4, <2>5, TaskTame DEF NoFault
  <2>7. \A u \in Items[b] : AtHand(b, u) => AtHand(b, u)'
    BY <1>0, <2>1, <2>3 DEF AtHand
  <2> QED BY <1>0, <1>2, <2>1, <2>3, <2>6, <2>7, LoopWorks
<1>3. CASE /\ settle_batch_if_status(b, "Working", "Failed")
           /\ adm' = [adm EXCEPT ![b].pc = "top", ![b].failed = TRUE]
           /\ Fault /\ UNCHANGED row
  <2> DEFINE x == [adm[b] EXCEPT !.pc = "top", !.failed = TRUE]
  <2>1. /\ x \in LoopRecord /\ x.pc = "top"
    BY <1>0 DEF LoopRecord, LoopPc
  <2>2. adm' = [adm EXCEPT ![b] = x]
    BY <1>3
  <2>3. adm'[b] = x /\ \A c \in Batch \ {b} : adm'[c] = adm[c]
    BY <1>0, <2>1, <2>2, LoopPut
  <2>4. faults' # 0
    BY <1>0, <1>3, FaultCounts
  <2>5. /\ \A u \in Task : PublicSame(u)
        /\ Tame
    BY <1>0, <1>3, <2>4 DEF Tame, LifeMove, PublicSame, public
  <2>6. "Failed" \in BatchStatus \ {"none", "Working"} /\ (batch[b] = "Working" => PlanGoes(b, "Failed"))
    BY DEF BatchStatus, PlanGoes
  <2>7. /\ LifeStep /\ \A c \in Batch : PlanMoves(c)
        /\ batch'[b] = batch[b] \/ batch'[b] = "Failed"
    BY <1>3, <2>5, <2>6, SettleRow
  <2>8. batch'[b] \notin {"none", "Working"}
    BY <1>0, <1>3 DEF settle_batch_if_status, TypeOK
  <2>9. PlanSound(b)'
    <3>1. PlanSound(b)
      BY DEF LifeInv, PlanInv
    <3>2. AllSettled(b) => AllSettled(b)'
      BY <2>5, AllStay DEF Tame
    <3> QED BY <1>0, <2>1, <2>3, <2>8, <3>1, <3>2 DEF PlanSound
  <2>10. RestSound(b)'
    BY <2>4, <2>8 DEF RestSound
  <2>11. \A c \in Batch \ {b} : Aside(c) /\ (Covered(c)' => Covered(c))
    BY <1>0, <2>3, <2>7, LoopAside DEF Covered
  <2>12. PastReconciling
    BY <1>0 DEF PastReconciling
  <2> QED BY <2>5, <2>7, <2>9, <2>10, <2>11, <2>12, TameStep
<1> QED BY <1>1, <1>2, <1>3 DEF NewChild

\* Every step of a loop follows TaskLife and keeps the second layer.
LEMMA LoopStepLife ==
    ASSUME Inv, LifeInv, NEW b \in Batch, LoopStep(b)
    PROVE  LifeStep /\ LifeInv'
  BY RegisterLife, TopLife, AwaitPermitLife, DrainLife, RollupLife, LeaveLife, ResumeGetLife,
     ResumeClaimLife, ResumeSpawnLife, NewChildLife, CreatedLife, CheckLife, FinalizedLife
     DEF LoopStep

-----------------------------------------------------------------------------
(* The clients *)

\* A step of a client or of boot that concerns the tasks only.
LEMMA TasksOnly ==
    ASSUME Inv, LifeInv, Tame, PastReconciling, UNCHANGED <<batch, adm, btok, bfire, poll>>,
           \A c \in Batch : Covered(c)' => Covered(c)
    PROVE  LifeStep /\ LifeInv'
<1>1. LifeStep
  BY DEF LifeStep, Tame
<1>2. \A c \in Batch : Aside(c)
  BY DEF Aside, PlanMoves
<1> QED BY <1>1, <1>2, TameAlone

\* A new batch has its items with the loop.
LEMMA RunBatchLife ==
    ASSUME Inv, LifeInv, NEW b \in Batch, RunBatch(b)
    PROVE  LifeStep /\ LifeInv'
<1> DEFINE x == NewLoop("register", {}, Items[b])
<1>0. /\ TypeOK /\ boot.phase = "up" /\ batch[b] = "none" /\ adm[b].pc = "none"
      /\ UNCHANGED <<row, runners, faults, boot, btok, bfire, poll>>
      /\ PlanSound(b)
  BY DEF RunBatch, Inv, LoopInv, LoopSound, taskVars, LifeInv, PlanInv
<1>1. /\ x \in LoopRecord /\ x.pc = "register" /\ x.pending = Items[b]
      /\ x.drain = FALSE /\ x.failed = FALSE
  BY Tasks DEF NewLoop, NoLoop, LoopRecord, LoopPc, BatchStatus
<1>2. adm'[b] = x /\ \A c \in Batch \ {b} : adm'[c] = adm[c]
  BY <1>0, <1>1, LoopPut DEF RunBatch
<1>3. /\ batch' = [batch EXCEPT ![b] = "Working"] /\ batch'[b] = "Working"
      /\ \A c \in Batch \ {b} : batch'[c] = batch[c]
  BY <1>0 DEF RunBatch, TypeOK
<1>4. Tame /\ \A u \in Task : PublicSame(u) /\ settled(u)' = settled(u) /\ Idle(u)' = Idle(u)
  BY <1>0, StillTame
<1>5. LifeStep
  BY <1>0, <1>3, <1>4 DEF LifeStep, Tame, PlanGoes, BatchStatus
<1>6. PlanSound(b)'
  <2>1. AllSettled(b) => AllSettled(b)'
    BY <1>4, AllStay DEF Tame
  <2>2. b \notin bfire /\ btok[b] # "fired"
    BY <1>0 DEF PlanSound
  <2> QED BY <1>0, <1>1, <1>2, <2>1, <2>2 DEF PlanSound
<1>7. RestSound(b)'
  <2>1. \A u \in Items[b] : AtHand(b, u)'
    BY <1>1, <1>2 DEF AtHand
  <2> QED BY <1>1, <1>2, <2>1 DEF RestSound, Placed
<1>8. \A c \in Batch \ {b} : Aside(c) /\ (Covered(c)' => Covered(c))
  BY <1>0, <1>2, <1>3, LoopAside DEF Covered, PlanMoves
<1>9. PastReconciling
  BY <1>0 DEF PastReconciling
<1> QED BY <1>4, <1>5, <1>6, <1>7, <1>8, <1>9, TameStep

\* A client that touches the row, the token or the reader of b, and no loop.
LEMMA ClientLife ==
    ASSUME Inv, LifeInv, LifeStep, NEW b \in Batch, UNCHANGED <<row, runners, faults, boot, adm>>,
           \A c \in Batch : PlanMoves(c),
           \A c \in Batch \ {b} : /\ btok'[c] = btok[c] /\ (c \in bfire' => c \in bfire)
                                  /\ poll'[c] = poll[c],
           b \in bfire' \/ btok'[b] = "fired" => batch'[b] \notin {"none", "Working"},
           poll'[b] = "Working" => AllSettled(b)
    PROVE  LifeStep /\ LifeInv'
<1>1. Tame /\ \A u \in Task : PublicSame(u) /\ settled(u)' = settled(u) /\ Idle(u)' = Idle(u)
  BY StillTame
<1>2. PlanSound(b) /\ RestSound(b) /\ PlanMoves(b)
  BY DEF LifeInv, PlanInv
<1>3. AllSettled(b) => AllSettled(b)'
  BY <1>1, AllStay DEF Tame
<1>4. PlanSound(b)'
  BY <1>2, <1>3 DEF PlanSound, PlanMoves
<1>5. RestSound(b)'
  <2>1. \A u \in Items[b] : Placed(b, u)' = Placed(b, u)
    BY <1>1, Tasks DEF Placed, AtHand
  <2>2. Covered(b)' = Covered(b)
    BY DEF Covered
  <2> QED BY <1>2, <2>1, <2>2 DEF RestSound, PlanMoves
<1>6. \A c \in Batch \ {b} : Aside(c) /\ (Covered(c)' => Covered(c))
  BY DEF Aside, Covered
<1>7. PastReconciling
  BY DEF PastReconciling
<1> QED BY <1>1, <1>4, <1>5, <1>6, <1>7, TameStep

\* Cancellation and polling of a batch follow TaskLife.
LEMMA BatchClientLife ==
    ASSUME Inv, LifeInv, NEW b \in Batch, BatchClient(b)
    PROVE  LifeStep /\ LifeInv'
<1>0. TypeOK /\ PlanSound(b)
  BY DEF Inv, LifeInv, PlanInv
<1>1. CASE CancelBatch(b)
  <2>1. UNCHANGED <<row, runners, faults, boot, adm, btok, poll>> /\ batch[b] # "none"
    BY <1>1 DEF CancelBatch, taskVars
  <2>2. \A u \in Task : PublicSame(u)
    BY <2>1, StillTame
  <2>3. settle_batch_if_status(b, "Working", "Canceling")
    BY <1>1 DEF CancelBatch, cancel_batch_if_working, settle_batch_if_status
  <2>4. "Canceling" \in BatchStatus \ {"none", "Working"} /\ (batch[b] = "Working" => PlanGoes(b, "Canceling"))
    BY DEF BatchStatus, PlanGoes
  <2>5. LifeStep /\ \A c \in Batch : PlanMoves(c)
    BY <2>2, <2>3, <2>4, SettleRow
  <2>6. batch'[b] \notin {"none", "Working"}
    BY <1>0, <2>1, <2>3 DEF settle_batch_if_status, TypeOK
  <2>7. \A c \in Batch \ {b} : c \in bfire' => c \in bfire
    BY <1>1 DEF CancelBatch
  <2> QED BY <1>0, <2>1, <2>5, <2>6, <2>7, ClientLife DEF PlanSound
<1>2. CASE CancelBatchFire(b)
  <2>1. UNCHANGED <<row, runners, faults, boot, adm, poll, batch>> /\ b \in bfire
    BY <1>2 DEF CancelBatchFire, taskVars, storeVars
  <2>2. LifeStep /\ \A c \in Batch : PlanMoves(c)
    BY <2>1, StillTame DEF LifeStep, PlanMoves, Tame
  <2>3. /\ \A c \in Batch \ {b} : btok'[c] = btok[c] /\ (c \in bfire' => c \in bfire)
    BY <1>0, <1>2 DEF CancelBatchFire, TypeOK
  <2> QED BY <1>0, <2>1, <2>2, <2>3, ClientLife DEF PlanSound
<1>3. CASE Poll(b)
  <2>1. UNCHANGED <<row, runners, faults, boot, adm, btok, bfire, batch>>
    BY <1>3 DEF Poll, taskVars, storeVars
  <2>2. LifeStep /\ \A c \in Batch : PlanMoves(c)
    BY <2>1, StillTame DEF LifeStep, PlanMoves, Tame
  <2>3. /\ \A c \in Batch \ {b} : poll'[c] = poll[c]
        /\ poll'[b] = "Working" => AllSettled(b)
    BY <1>0, <1>3 DEF Poll, TypeOK, Settleable, AllSettled
  <2> QED BY <1>0, <2>1, <2>2, <2>3, ClientLife DEF PlanSound
<1>4. CASE PollSettle(b)
  <2> DEFINE e == poll[b]
             s == SettledAs(e)
  <2>1. /\ UNCHANGED <<row, runners, faults, boot, adm, btok, bfire>>
        /\ settle_batch_if_status(b, e, s) /\ e \in {"Working", "Canceling"}
    BY <1>0, <1>4 DEF PollSettle, taskVars, TypeOK
  <2>2. s \in BatchStatus \ {"none", "Working"} /\ (batch[b] = e => PlanGoes(b, s))
    BY <1>0, <2>1 DEF SettledAs, BatchStatus, PlanGoes, PlanSound
  <2>3. \A u \in Task : PublicSame(u)
    BY <2>1, StillTame
  <2>4. LifeStep /\ \A c \in Batch : PlanMoves(c)
    BY <2>1, <2>2, <2>3, SettleRow
  <2>5. poll'[b] = "none" /\ \A c \in Batch \ {b} : poll'[c] = poll[c]
    BY <1>0, <1>4 DEF PollSettle, TypeOK
  <2>6. b \in bfire' \/ btok'[b] = "fired" => batch'[b] \notin {"none", "Working"}
    <3>1. PlanMoves(b)
      BY <2>4
    <3> QED BY <1>0, <2>1, <3>1 DEF PlanSound, PlanMoves
  <2> QED BY <2>1, <2>4, <2>5, <2>6, ClientLife
<1> QED BY <1>1, <1>2, <1>3, <1>4, RunBatchLife DEF BatchClient

\* A Working row is canceled or interrupted: the task ends.
LEMMA RowEndsTame ==
    ASSUME Inv, NEW t \in Task, working(t), NEW s \in {"Canceled", "Interrupted"},
           row' = [row EXCEPT ![t] = [row[t] EXCEPT !.status = s]],
           UNCHANGED <<summary, batch, runners, faults>>
    PROVE  Tame
<1>1. row'[t].status = s /\ row'[t].hidden = FALSE /\ Others(t)
  BY RowEnds
<1>2. row[t].status = "Working" /\ ~row[t].hidden
  BY DEF working, Inv, RowInv, RowSound, TerminalStatus
<1>3. Ends(t)
  BY <1>1, <1>2 DEF Ends, public, TerminalStatus
<1> QED BY <1>1, <1>3, TaskTame

\* Steps of a task's clients and runners follow TaskLife.
LEMMA TaskStepLife ==
    ASSUME Inv, LifeInv, TaskStep
    PROVE  LifeStep /\ LifeInv'
<1>0. TypeOK /\ UNCHANGED <<adm, btok, bfire, poll>>
  BY DEF Inv, TaskStep
<1>1. ASSUME NEW r \in runners, RunnerStep(r) PROVE LifeStep /\ LifeInv'
  BY <1>0, <1>1, RunnerStepLife DEF LifeStep
<1>2. ASSUME NEW t \in Task, Submit(t) PROVE LifeStep /\ LifeInv'
  <2>1. /\ t \in Solo /\ row[t].status = "none" /\ row' = [row EXCEPT ![t] = NewRow]
        /\ UNCHANGED <<summary, batch, runners, boot, faults>>
    BY <1>2 DEF Submit
  <2>2. Others(t) /\ row'[t].status = "Working" /\ Ready(t)'
    BY <2>1, FreshRow
  <2>3. ~row[t].hidden
    BY <2>1 DEF Inv, RowInv, RowSound, NoRow
  <2>4. Begins(t) /\ ~row'[t].hidden
    BY <2>1, <2>2, <2>3, Tasks DEF Begins, public, Ready, Held
  <2>5. Tame
    BY <2>1, <2>2, <2>4, TaskTame
  <2> QED BY <1>0, <2>1, <2>5, TasksOnly DEF PastReconciling, Covered
<1>3. ASSUME NEW t \in Task, SubmitSpawn(t) PROVE LifeStep /\ LifeInv'
  <2>1. t \in submitting /\ reserve(t) /\ spawn(t) /\ UNCHANGED <<batch, boot>>
    BY <1>3 DEF SubmitSpawn
  <2>2. Ready(t)
    BY <2>1 DEF Inv, RoleInv, RoleSound, Starting
  <2>3. Tame
    BY <2>1, <2>2, ReserveTame
  <2> QED BY <1>0, <2>1, <2>3, TasksOnly DEF PastReconciling, Covered
<1>4. ASSUME NEW t \in Task, CancelTask(t) PROVE LifeStep /\ LifeInv'
  <2>1. UNCHANGED <<row, batch, runners, boot, faults>>
    BY <1>4 DEF CancelTask
  <2> QED BY <1>0, <2>1, StillTame, TasksOnly DEF PastReconciling, Covered
<1>5. ASSUME NEW t \in Task, CancelFlip(t) PROVE LifeStep /\ LifeInv'
  <2>0. UNCHANGED <<summary, batch, runners, boot, faults>>
    BY <1>5 DEF CancelFlip
  <2>1. CASE working(t)
    <3>1. row' = [row EXCEPT ![t] = [row[t] EXCEPT !.status = "Canceled"]]
      BY <1>5, <2>1 DEF CancelFlip, cancel_if_working, working
    <3>2. Tame
      BY <2>0, <2>1, <3>1, RowEndsTame
    <3> QED BY <1>0, <2>0, <3>2, TasksOnly DEF PastReconciling, Covered
  <2>2. CASE ~working(t)
    <3>1. UNCHANGED row
      BY <1>0, <1>5, <2>2 DEF CancelFlip, cancel_if_working, working, TypeOK
    <3> QED BY <1>0, <2>0, <3>1, StillTame, TasksOnly DEF PastReconciling, Covered
  <2> QED BY <2>1, <2>2
<1> QED BY <1>1, <1>2, <1>3, <1>4, <1>5 DEF TaskStep

-----------------------------------------------------------------------------
(* Boot and crashes *)

\* A step of boot that starts no loop.
LEMMA BootOnly ==
    ASSUME Inv, LifeInv, Tame, PastReconciling, UNCHANGED <<adm, btok, bfire, poll>>,
           \A c \in Batch : /\ PlanMoves(c)
                            /\ Covered(c)' => Covered(c) \/ batch'[c] # "Working" \/ faults' # 0
    PROVE  LifeInv'
<1>1. TaskLifeInv'
  BY TameTasks DEF LifeInv
<1>2. ASSUME NEW c \in Batch PROVE PlanSound(c)' /\ RestSound(c)'
  <2>1. Aside(c) /\ PlanSound(c) /\ RestSound(c)
    BY DEF Aside, LifeInv, PlanInv
  <2>2. KeepsPlace(c) /\ LifeMove
    BY <2>1, TameAside DEF Tame
  <2>3. RestSound(c)'
    BY <2>1, <2>2 DEF RestSound, Aside, PlanMoves, KeepsPlace
  <2> QED BY <2>1, <2>2, <2>3, AsidePlan
<1> QED BY <1>1, <1>2 DEF LifeInv, PlanInv

\* The same when the batch rows are left alone.
LEMMA BootTasks ==
    ASSUME Inv, LifeInv, Tame, PastReconciling, UNCHANGED <<batch, adm, btok, bfire, poll>>,
           \A c \in Batch : Covered(c)' => Covered(c) \/ batch[c] # "Working" \/ faults' # 0
    PROVE  LifeStep /\ LifeInv'
  BY BootOnly DEF LifeStep, Tame, PlanMoves

\* A failed call, and nothing else that matters here.
LEMMA FaultTame ==
    ASSUME TypeOK, UNCHANGED <<row, runners>>, Fault \/ NoFault
    PROVE  Tame /\ \A u \in Task : PublicSame(u)
<1>1. faults' = 0 => faults = 0
  BY FaultType
<1> QED BY <1>1 DEF Tame, LifeMove, PublicSame, public

\* Boot's changes of phase move no status.
LEMMA BootPhasesLife ==
    ASSUME Inv, LifeInv, UNCHANGED <<adm, btok, bfire, poll>>,
           BootReconciled \/ BootSweep \/ BootSolo \/ BootBatches \/ Serve
    PROVE  LifeStep /\ LifeInv'
<1>0. TypeOK /\ boot \in BootRecord /\ UNCHANGED <<row, batch, runners>> /\ (Fault \/ NoFault)
  BY DEF Inv, TypeOK, BootReconciled, BootSweep, BootSolo, BootBatches, Serve, storeVars, NoFault
<1>1. Tame
  BY <1>0, FaultTame
<1>2. CASE BootReconciled \/ BootSweep \/ BootSolo
  <2>1. boot'.phase \in {"checkpoints", "sweep", "orphans", "solo"}
    BY <1>0, <1>2 DEF BootReconciled, BootSweep, BootSolo, BootRecord
  <2>2. PastReconciling
    BY <1>2 DEF PastReconciling, BootReconciled, BootSweep, BootSolo
  <2>3. \A c \in Batch : ~Covered(c)'
    BY <2>1 DEF Covered
  <2> QED BY <1>0, <1>1, <2>2, <2>3, BootTasks
<1>3. CASE BootBatches
  <2>1. boot.phase = "solo" /\ boot'.phase = "batches"
    BY <1>0, <1>3 DEF BootBatches, BootRecord
  <2>2. faults' = 0 => boot'.todo = {b \in Batch : active(b)}
    BY <1>0, <1>3, FaultCounts DEF BootBatches, BootRecord
  <2>3. \A c \in Batch : Covered(c)' => batch[c] # "Working" \/ faults' # 0
    BY <2>1, <2>2 DEF Covered, active
  <2>4. PastReconciling
    BY <2>1 DEF PastReconciling
  <2> QED BY <1>0, <1>1, <2>3, <2>4, BootTasks
<1>4. CASE Serve
  <2>1. boot.phase = "batches" /\ boot.todo = {}
    BY <1>4 DEF Serve
  <2>2. \A c \in Batch : Covered(c)
    BY <2>1 DEF Covered
  <2>3. PastReconciling
    BY <2>1 DEF PastReconciling
  <2> QED BY <1>0, <1>1, <2>2, <2>3, BootTasks
<1> QED BY <1>2, <1>3, <1>4

\* Boot publishes or finishes what a crash left hidden.
LEMMA BootSettleLife ==
    ASSUME Inv, LifeInv, NEW t \in Task, BootSettle(t), UNCHANGED <<adm, btok, bfire, poll>>
    PROVE  LifeStep /\ LifeInv'
<1>0. /\ TypeOK /\ row[t].hidden /\ RowSound(t) /\ row[t] \in RowRecord /\ (Fault \/ NoFault)
      /\ UNCHANGED <<batch, runners, boot>>
  BY DEF BootSettle, Inv, TypeOK, RowInv
<1>1. /\ \A u \in Task \ {t} : row'[u] = row[u]
      /\ row'[t].hidden = FALSE /\ row'[t].status = row[t].status
  BY <1>0 DEF BootSettle, mark_terminal_projection_ready, TypeOK, RowRecord
<1>2. Ends(t)
  BY <1>0, <1>1 DEF Ends, public, RowSound
<1>3. Tame
  <2>1. \A u \in Task \ {t} : PublicSame(u)
    BY <1>1 DEF PublicSame, public
  <2>2. faults' = 0 => faults = 0
    BY <1>0, FaultType
  <2>3. LifeMove
    BY <1>0, <1>2, <2>1 DEF LifeMove
  <2> QED BY <1>0, <1>1, <2>2, <2>3 DEF Tame
<1> QED BY <1>0, <1>3, TasksOnly DEF PastReconciling, Covered

\* A checkpoint is committed as a hidden row: boot publishes it before it goes on.
LEMMA BootCheckpointLife ==
    ASSUME Inv, LifeInv, NEW t \in Task, BootCheckpoint(t), UNCHANGED <<adm, btok, bfire, poll>>
    PROVE  LifeStep /\ LifeInv'
<1>0. /\ TypeOK /\ boot.phase = "checkpoints" /\ row[t].status = "Working" /\ runners = {}
      /\ row[t] \in RowRecord /\ ~row[t].hidden
      /\ UNCHANGED <<batch, runners, boot, faults>>
  BY DEF BootCheckpoint, Inv, TypeOK, BootInv, EarlyPhase, working, RowInv, RowSound, TerminalStatus
<1>1. row'[t].hidden = TRUE /\ \A u \in Task \ {t} : row'[u] = row[u]
  BY <1>0 DEF BootCheckpoint, set_terminal_sequenced_pending, TypeOK, RowRecord
<1>2. \A u \in Task : PublicSame(u)
  BY <1>0, <1>1 DEF PublicSame, public
<1>3. LifeStep /\ LifeMove
  BY <1>0, <1>2 DEF LifeStep, LifeMove
<1>4. TaskLifeInv'
  BY <1>0 DEF TaskLifeInv, HiddenSound, DoneSound
<1>5. ASSUME NEW c \in Batch PROVE PlanSound(c)' /\ RestSound(c)'
  <2>1. Aside(c) /\ PlanSound(c) /\ RestSound(c)
    BY <1>0 DEF Aside, PlanMoves, LifeInv, PlanInv
  <2>2. ~Covered(c)'
    BY <1>0 DEF Covered
  <2> QED BY <1>0, <1>3, <2>1, <2>2, AsidePlan DEF RestSound
<1> QED BY <1>3, <1>4, <1>5 DEF LifeInv, PlanInv

\* Boot's steps on solo tasks.
LEMMA BootSoloLife ==
    ASSUME Inv, LifeInv, NEW t \in Task, BootSoloClaim(t) \/ BootSoloSpawn(t),
           UNCHANGED <<adm, btok, bfire, poll>>
    PROVE  LifeStep /\ LifeInv'
<1>0. /\ TypeOK /\ boot \in BootRecord /\ boot.phase = "solo" /\ boot'.phase = "solo"
      /\ UNCHANGED batch /\ RoleSound(t)
  BY DEF BootSoloClaim, BootSoloSpawn, Inv, TypeOK, BootRecord, RoleInv
<1>1. PastReconciling /\ \A c \in Batch : ~Covered(c)'
  BY <1>0 DEF PastReconciling, Covered
<1>2. Tame
  <2>1. CASE BootSoloSpawn(t)
    <3>1. Ready(t)
      BY <1>0, <2>1 DEF BootSoloSpawn, RoleSound, Starting
    <3> QED BY <2>1, <3>1, ReserveTame DEF BootSoloSpawn
  <2>2. CASE BootSoloClaim(t)
    <3>0. UNCHANGED <<summary, runners>> /\ Dormant(t)
      BY <1>0, <2>2 DEF BootSoloClaim, RoleSound, Waiting
    <3>1. CASE ResumeClaims(t)
      <4>1. row'[t].status = "Working" /\ Others(t) /\ faults' = faults /\ Dormant(t)'
        BY <3>0, <3>1, ResumeKeeps
      <4>2. PublicSame(t) /\ (row'[t].hidden => row[t].hidden)
        BY <3>0, <3>1, <4>1 DEF PublicSame, public, Dormant, ResumeClaims, working
      <4> QED BY <1>0, <3>0, <4>1, <4>2, TaskTame
    <3>2. CASE public(t) = "Working" /\ row[t].ck = "none" /\ ResumeGivesUp(t)
      <4>1. row[t].status # "none"
        BY <3>0, <3>2 DEF public, Dormant
      <4>2. /\ faults' = 0 => faults = 0
            /\ PublicSame(t) \/ Ends(t)
            /\ row'[t].hidden => row[t].hidden
        BY <3>0, <3>2, <4>1, GivesUpSettles
      <4>3. Others(t)
        BY <3>0, <3>2, GivesUpKeeps
      <4> QED BY <1>0, <3>0, <4>2, <4>3, TaskTame
    <3>3. CASE NoFault /\ UNCHANGED row
      BY <3>0, <3>3, StillTame DEF NoFault
    <3> QED BY <2>2, <3>1, <3>2, <3>3 DEF BootSoloClaim
  <2> QED BY <2>1, <2>2
<1> QED BY <1>0, <1>1, <1>2, TasksOnly

\* Children of a batch that is over, or is to end, are ended.
LEMMA BootEndsLife ==
    ASSUME Inv, LifeInv, NEW t \in Task,
           BootOrphan(t) \/ \E b \in Batch : BootCancelChild(b, t)
    PROVE  LifeStep /\ LifeInv'
<1>0. UNCHANGED <<summary, batch, runners, boot, faults, adm, btok, bfire, poll>>
  BY DEF BootOrphan, BootCancelChild, taskVars
<1>1. working(t) /\ ~row[t].hidden
  <2>1. CASE BootOrphan(t)
    BY <2>1 DEF BootOrphan, Orphan, working, Inv, RowInv, RowSound, TerminalStatus
  <2>2. CASE \E b \in Batch : BootCancelChild(b, t)
    <3>1. Waiting(t) /\ public(t) = "Working"
      BY <2>2 DEF BootCancelChild, Waiting
    <3>2. ~row[t].hidden
      BY <3>1 DEF Inv, RoleInv, RoleSound, Dormant
    <3> QED BY <3>1, <3>2 DEF public, working
  <2> QED BY <2>1, <2>2
<1>2. PICK s \in {"Canceled", "Interrupted"} : row' = [row EXCEPT ![t] = [row[t] EXCEPT !.status = s]]
  <2>1. PICK s \in {"Canceled", "Interrupted"} :
          row' = [row EXCEPT ![t] = set_terminal_sequenced(row[t], s)]
    BY DEF BootOrphan, BootCancelChild
  <2>2. set_terminal_sequenced(row[t], s) = [row[t] EXCEPT !.status = s]
    BY <1>1 DEF set_terminal_sequenced, working
  <2> QED BY <2>1, <2>2
<1>3. Tame
  BY <1>0, <1>1, <1>2, RowEndsTame
<1> QED BY <1>0, <1>3, TasksOnly DEF PastReconciling, Covered

\* The loop that boot starts has every item that is not settled.
LEMMA BootBatchLife ==
    ASSUME Inv, LifeInv, NEW b \in Batch, BootBatch(b)
    PROVE  LifeStep /\ LifeInv'
<1> DEFINE Q == {t \in Items[b] : public(t) = "Working"}
           P == {t \in Items[b] : row[t].status = "none"}
           x == NewLoop("top", Q, P)
<1>0. /\ TypeOK /\ boot.phase = "batches" /\ boot.claimed = NoTask /\ b \in boot.todo
      /\ batch[b] = "Working" /\ UNCHANGED <<row, batch, runners, faults, bfire, poll>>
      /\ PlanSound(b)
  BY DEF BootBatch, Inv, storeVars, LifeInv, PlanInv
<1>1. /\ x \in LoopRecord /\ x.pc = "top" /\ x.queue = Q /\ x.pending = P
      /\ x.drain = FALSE /\ x.failed = FALSE
  BY Tasks DEF NewLoop, NoLoop, LoopRecord, LoopPc, BatchStatus
<1>2. adm'[b] = x /\ \A c \in Batch \ {b} : adm'[c] = adm[c]
  BY <1>0, <1>1, LoopPut DEF BootBatch
<1>3. boot'.phase = "batches" /\ boot'.todo = boot.todo \ {b}
  BY <1>0, HandledBoot DEF BootBatch
<1>4. btok'[b] = "live" /\ \A c \in Batch \ {b} : btok'[c] = btok[c]
  BY <1>0 DEF BootBatch, TypeOK
<1>5. Tame /\ \A u \in Task : PublicSame(u) /\ settled(u)' = settled(u)
  BY <1>0, StillTame
<1>6. LifeStep
  BY <1>0, <1>5 DEF LifeStep, Tame
<1>7. PlanSound(b)'
  <2>1. AllSettled(b) => AllSettled(b)'
    BY <1>5, AllStay DEF Tame
  <2> QED BY <1>0, <1>1, <1>2, <1>4, <2>1 DEF PlanSound
<1>8. RestSound(b)'
  <2>1. ASSUME NEW u \in Items[b] PROVE Placed(b, u)'
    <3>1. u \in Task /\ row[u] \in RowRecord /\ Waiting(u)
      BY <1>0, Tasks DEF TypeOK, Waiting
    <3>2. ~row[u].hidden
      BY <3>1 DEF Inv, RoleInv, RoleSound, Dormant
    <3>3. u \in Q \/ u \in P \/ settled(u)
      BY <3>1, <3>2 DEF settled, public, RowRecord, TaskStatus
    <3> QED BY <1>1, <1>2, <1>5, <3>1, <3>3 DEF Placed, AtHand
  <2> QED BY <1>1, <1>2, <2>1 DEF RestSound
<1>9. \A c \in Batch \ {b} : Aside(c) /\ (Covered(c)' => Covered(c))
  BY <1>0, <1>2, <1>3, <1>4, LoopAside DEF PlanMoves, Covered
<1>10. PastReconciling
  BY <1>0 DEF PastReconciling
<1> QED BY <1>5, <1>6, <1>7, <1>8, <1>9, <1>10, TameStep

\* A batch that boot drops is no longer Working, or a call failed.
LEMMA BootDropsLife ==
    ASSUME Inv, LifeInv, NEW b \in Batch, BootCorrupt(b) \/ BootSkip(b) \/ BootCanceled(b)
    PROVE  LifeStep /\ LifeInv'
<1>0. /\ TypeOK /\ boot \in BootRecord /\ boot.phase = "batches" /\ b \in boot.todo
      /\ UNCHANGED <<row, runners, adm, btok, bfire, poll>> /\ active(b)
  BY DEF BootCorrupt, BootSkip, BootCanceled, Inv, TypeOK, storeVars, BootInv
<1>1. PastReconciling
  BY <1>0 DEF PastReconciling
<1>2. CASE BootCorrupt(b) \/ BootSkip(b)
  <2>1. Fault /\ UNCHANGED batch
    BY <1>2 DEF BootCorrupt, BootSkip, storeVars
  <2>2. Tame /\ faults' # 0
    BY <1>0, <2>1, FaultTame, FaultCounts
  <2> QED BY <1>0, <1>1, <2>1, <2>2, BootTasks
<1>3. CASE BootCanceled(b)
  <2> DEFINE s == IF boot.claimed = b THEN "Failed" ELSE "Canceled"
  <2>1. settle_batch_if_status(b, batch[b], s) /\ (NoFault \/ Fault)
    BY <1>3 DEF BootCanceled
  <2>2. Tame /\ \A u \in Task : PublicSame(u)
    BY <1>0, <2>1, FaultTame
  <2>3. s \in BatchStatus \ {"none", "Working"} /\ PlanGoes(b, s)
    BY <1>0, <1>3 DEF BatchStatus, PlanGoes, BootCanceled, BootCancels, active
  <2>4. LifeStep /\ (\A c \in Batch : PlanMoves(c)) /\ \A c \in Batch \ {b} : batch'[c] = batch[c]
    BY <2>1, <2>2, <2>3, SettleRow
  <2>5. batch'[b] # "Working"
    BY <1>0, <2>1, <2>3 DEF settle_batch_if_status, TypeOK
  <2>6. boot'.phase = "batches" /\ boot'.todo = boot.todo \ {b}
    BY <1>0, <1>3 DEF BootCanceled, BootRecord
  <2>7. \A c \in Batch : Covered(c)' => Covered(c) \/ batch'[c] # "Working"
    BY <1>0, <2>5, <2>6 DEF Covered
  <2> QED BY <1>0, <1>1, <2>2, <2>4, <2>7, BootOnly
<1> QED BY <1>2, <1>3

\* Every step of boot follows TaskLife and keeps the second layer.
LEMMA BootStepLife ==
    ASSUME Inv, LifeInv, BootStep
    PROVE  LifeStep /\ LifeInv'
<1>1. CASE BootSolo \/ BootBatches \/ Serve
  BY <1>1, BootPhasesLife DEF BootSolo, BootBatches, Serve
<1>2. CASE (BootReconciled \/ BootSweep) /\ UNCHANGED <<adm, btok, bfire, poll>>
  BY <1>2, BootPhasesLife
<1>3. CASE \E t \in Task : BootTask(t) /\ UNCHANGED <<adm, btok, bfire, poll>>
  BY <1>3, BootSettleLife, BootCheckpointLife, BootSoloLife DEF BootTask
<1>4. CASE \E t \in Task : BootOrphan(t) \/ \E b \in Batch : BootCancelChild(b, t)
  BY <1>4, BootEndsLife
<1>5. CASE \E b \in Batch : BootBatch(b) \/ BootCorrupt(b) \/ BootSkip(b) \/ BootCanceled(b)
  BY <1>5, BootBatchLife, BootDropsLife
<1> QED BY <1>1, <1>2, <1>3, <1>4, <1>5 DEF BootStep

\* A crash moves no public status.
LEMMA CrashLife ==
    ASSUME Inv, LifeInv, Crash
    PROVE  LifeStep /\ LifeInv'
<1>1. /\ UNCHANGED <<row, batch>> /\ runners' = {} /\ boot'.phase = "pending" /\ bfire' = {}
      /\ \A b \in Batch : adm'[b] = NoLoop /\ btok'[b] = "none" /\ poll'[b] = "none"
  BY DEF Crash, storeVars, Restarted
<1>2. LifeStep
  BY <1>1 DEF LifeStep, LifeMove, PublicSame, public
<1>3. TaskLifeInv'
  BY <1>1 DEF TaskLifeInv, HiddenSound, DoneSound
<1>4. ASSUME NEW b \in Batch PROVE PlanSound(b)' /\ RestSound(b)'
  BY <1>1 DEF PlanSound, RestSound, Covered, NoLoop
<1> QED BY <1>2, <1>3, <1>4 DEF LifeInv, PlanInv

-----------------------------------------------------------------------------
(* The theorems *)

\* The second layer holds of an empty store.
LEMMA LifeInit == Init => LifeInv
<1> SUFFICES ASSUME Init PROVE LifeInv
  OBVIOUS
<1>1. TaskLifeInv
  BY DEF Init, TaskLifeInv, HiddenSound, DoneSound, NoRow
<1>2. ASSUME NEW b \in Batch PROVE PlanSound(b) /\ RestSound(b)
  BY DEF Init, PlanSound, RestSound, NoLoop
<1> QED BY <1>1, <1>2 DEF LifeInv, PlanInv

\* Every step follows TaskLife and keeps the second layer.
LEMMA NextLife ==
    ASSUME Inv, LifeInv, [Next]_vars
    PROVE  LifeStep /\ LifeInv'
<1>1. CASE UNCHANGED vars
  BY <1>1, StillTame, TasksOnly DEF vars, PastReconciling, Covered
<1> QED BY <1>1, TaskStepLife, LoopStepLife, BatchClientLife, BootStepLife, CrashLife DEF Next

\* The second layer of the invariant holds of every behaviour.
THEOREM LifeInvariance == Spec => []LifeInv
  BY Invariance, LifeInit, NextLife, PTL DEF Spec

\* Unless a store call failed, a terminal row is hidden only while its runner is on the way to
\* publish it, however commits, cancellations and crashes interleave.
THEOREM HiddenRowsOwned == Spec => []HiddenOwned
<1>1. LifeInv => HiddenOwned
  BY DEF LifeInv, TaskLifeInv, HiddenSound, HiddenOwned, RunnersOf
<1> QED BY <1>1, LifeInvariance, PTL

\* A Working batch that nothing works on any more, no call having failed, has only settled
\* items: its admission loop, and the one that boot starts after a crash, leaves none behind.
THEOREM RestIsSettleable == Spec => []RestSettles
<1>1. ASSUME Inv, LifeInv PROVE RestSettles
  <2>1. SUFFICES ASSUME NEW b \in Batch, AtRest(b), batch[b] = "Working", faults = 0,
                        NEW t \in Items[b]
                 PROVE  settled(t)
    BY DEF RestSettles, Settleable
  <2>2. Covered(b) /\ adm[b].pc = "none"
    BY <2>1 DEF AtRest, Covered
  <2>3. Placed(b, t)
    BY <1>1, <2>1, <2>2 DEF LifeInv, PlanInv, RestSound
  <2>4. adm[b].queue = {} /\ adm[b].pending = {}
    BY <1>1, <2>2 DEF Inv, LoopInv, LoopSound
  <2>5. ~AtHand(b, t)
    BY <2>2, <2>4 DEF AtHand
  <2>6. Idle(t)
    BY <2>1 DEF AtRest, RunnersOf, Idle
  <2> QED BY <2>3, <2>5, <2>6 DEF Placed
<1> QED BY <1>1, Invariance, LifeInvariance, PTL

\* A step of the system is a step of TaskLife, or changes nothing a client reads.
LEMMA LifeImplemented ==
    ASSUME Inv, LifeStep
    PROVE  [Life!Next]_<<[t \in Task |-> public(t)], batch>>
<1> DEFINE pub == [t \in Task |-> public(t)]
<1>0. Life!Task = Task /\ Life!Terminal = TerminalStatus /\ batch \in [Batch -> BatchStatus]
  BY DEF Life!Task, Task, Life!Terminal, TerminalStatus, Inv, TypeOK
<1>1. CASE \A u \in Task : PublicSame(u)
  <2>1. pub' = pub
    BY <1>1 DEF PublicSame
  <2>2. CASE UNCHANGED batch
    BY <2>1, <2>2
  <2>3. CASE \E b \in Batch, s \in BatchStatus : PlanGoes(b, s) /\ batch' = [batch EXCEPT ![b] = s]
    <3>1. PICK b \in Batch, s \in BatchStatus : PlanGoes(b, s) /\ batch' = [batch EXCEPT ![b] = s]
      BY <2>3
    <3>2. AllSettled(b) => \A t \in Items[b] : pub[t] \in Life!Terminal
      BY <1>0, Tasks DEF AllSettled, settled
    <3> HIDE DEF pub
    <3>3. \/ Life!StartBatch(b) \/ Life!CancelBatch(b) \/ Life!CompleteBatch(b)
          \/ Life!FailBatch(b) \/ Life!EndCancel(b)
      BY <2>1, <3>1, <3>2 DEF PlanGoes, pub, Life!StartBatch, Life!CancelBatch,
         Life!CompleteBatch, Life!FailBatch, Life!EndCancel
    <3> QED BY <3>3 DEF Life!Next
  <2> QED BY <1>1, <2>2, <2>3 DEF LifeStep
<1>2. CASE /\ UNCHANGED batch
           /\ \E t \in Task : (\A u \in Task \ {t} : PublicSame(u)) /\ (Begins(t) \/ Ends(t))
  <2>1. PICK t \in Task : (\A u \in Task \ {t} : PublicSame(u)) /\ (Begins(t) \/ Ends(t))
    BY <1>2
  <2>2. pub' = [pub EXCEPT ![t] = public(t)'] /\ pub[t] = public(t)
    BY <2>1 DEF PublicSame
  <2>3. CASE Begins(t)
    <3>1. Life!StartTask(t)
      BY <1>2, <2>2, <2>3 DEF Life!StartTask, Begins
    <3> QED BY <1>0, <3>1 DEF Life!Next
  <2>4. CASE Ends(t)
    <3>1. Life!EndTask(t)
      BY <1>0, <1>2, <2>2, <2>4 DEF Life!EndTask, Ends
    <3> QED BY <1>0, <3>1 DEF Life!Next
  <2> QED BY <2>1, <2>3, <2>4
<1> QED BY <1>1, <1>2 DEF LifeStep, LifeMove

\* The statuses a client reads follow TaskLife through crashes, retries, late commits and stale
\* records: the composed system implements the abstract specification.
THEOREM FollowsTaskLife == Spec => ImplementsLife
<1>1. Init => Life!Init
  BY DEF Init, Life!Init, Life!Task, Task, public, NoRow
<1>2. ASSUME Inv, LifeInv, [Next]_vars PROVE [Life!Next]_<<[t \in Task |-> public(t)], batch>>
  BY <1>2, NextLife, LifeImplemented
<1> QED BY <1>1, <1>2, Invariance, LifeInvariance, PTL DEF Spec, ImplementsLife, Life!Spec
=============================================================================
