-------------------------- MODULE SchedulerProofs --------------------------
(***************************************************************************)
(* A workflow run ends accounted for, cancels exactly whom it may, and     *)
(* starts no node once something has stopped it: for every graph, mode,    *)
(* policy, synthesis and interleaving of completions and cancellations.    *)
(***************************************************************************)
EXTENDS Scheduler, FiniteSetTheorems, WellFoundedInduction, TLAPS

Cause == {"none", "CanceledWorkflow", "CanceledPolicy"}
Result == Raw \cup Terminals \cup {"none"}
Place == {"idle", "running", "skipping", "ready", "processed", "retained", "done"}
ControlRecord == [trigger: Node \cup {NoNode}, pending: BOOLEAN, stopped: BOOLEAN,
                  armed: BOOLEAN, expired: BOOLEAN, timer: {"unarmed", "armed", "fired"}]
BarrierRecord == [pending: BOOLEAN, ack: {"none", "committed", "failed"}, held: Node \cup {NoNode}]
TimeRecord == [clock: {"before", "reached"}, grace: {"none", "set", "due"},
               cleanup: {"none", "armed"}]
WakeRecord == [arm: Arms, snap: BOOLEAN, late: SUBSET Node]

-----------------------------------------------------------------------------
(* Least elements *)

\* A set of naturals has a least element.
LEMMA LeastExists ==
    ASSUME NEW S, S \subseteq Nat, S # {}
    PROVE  \E x \in S : \A y \in S : x <= y
<1> DEFINE R == OpToRel(<, Nat)
<1>1. IsWellFoundedOn(R, Nat)
  BY NatLessThanWellFounded, Zenon
<1> HIDE DEF R
<1>2. PICK x \in S : \A y \in S : ~(<<y, x>> \in R)
  BY <1>1, WFMin
<1>3. ASSUME NEW y \in S PROVE x <= y
  <2>1. x \in Nat /\ y \in Nat
    OBVIOUS
  <2>2. ~(<<y, x>> \in R)
    BY <1>2
  <2> QED BY <2>1, <2>2 DEF R, OpToRel
<1> QED BY <1>3

\* The first node of a batch by id is one of the batch.
LEMMA MinMember ==
    ASSUME NEW S, S \subseteq Node, S # {}
    PROVE  Min(S) \in S
<1>1. S \subseteq Nat
  BY GraphAssumption
<1> QED BY <1>1, LeastExists DEF Min

-----------------------------------------------------------------------------
(* Type correctness *)

\* Recording a cause keeps the type of the causes.
LEMMA RecordType ==
    ASSUME NEW c \in [Node -> Cause], NEW S, NEW p \in Cause
    PROVE  Record(c, S, p) \in [Node -> Cause]
  BY DEF Record

\* What the loop sees of a cancellation is well typed.
LEMMA SeenType ==
    ASSUME TypeOK, NEW c \in BOOLEAN
    PROVE  RootSeen(c) \in Cause /\ CauseSeen(c) \in [Node -> Cause]
<1>1. root \in Cause /\ cause \in [Node -> Cause]
  BY DEF TypeOK, Cause
<1>2. Record(cause, NodeCancels, "CanceledWorkflow") \in [Node -> Cause]
  BY <1>1, RecordType DEF Cause
<1> QED BY <1>1, <1>2 DEF RootSeen, CauseSeen, Cause

\* The deadlines keep their type.
LEMMA TimeType ==
    ASSUME NEW t \in TimeRecord
    PROVE  /\ ArmCleanup(t) \in TimeRecord
           /\ ArmGrace(t) \in TimeRecord
           /\ \A c \in {"before", "reached"} : [t EXCEPT !.clock = c] \in TimeRecord
           /\ \A g \in {"none", "set", "due"} : [t EXCEPT !.grace = g] \in TimeRecord
           /\ [t EXCEPT !.cleanup = "none"] \in TimeRecord
           /\ [t EXCEPT !.cleanup = "none", !.grace = "none"] \in TimeRecord
  BY DEF ArmCleanup, ArmGrace, TimeRecord

\* TypeOK, with names for its sets.
Typed ==
    /\ cfg \in Configs
    /\ pc \in {"top", "wait", "act", "process", "inline", "publish", "finish", "ended",
               "error", "broken"}
    /\ st \in [Node -> Place] /\ result \in [Node -> Result]
    /\ fired \subseteq Node /\ terminalized \subseteq Node /\ degraded \subseteq Node
    /\ cancel \in BOOLEAN /\ external \in BOOLEAN /\ stop \in BOOLEAN /\ budget \in BOOLEAN
    /\ root \in Cause /\ cause \in [Node -> Cause]
    /\ ctl \in ControlRecord /\ bar \in BarrierRecord
    /\ evidence \in [Node -> {"none", "terminal", "trigger"}]
    /\ observed \subseteq {"cancel", "cutoff", "impossible"}
    /\ time \in TimeRecord /\ wake \in WakeRecord
    /\ outcome \in [run: {"none", "Completed", "CompletedDegraded", "Failed", "Canceled"},
                    checkouts: {"none", "delete", "keep"}]

\* The named sets are those of TypeOK.
LEMMA TypeParts == (TypeOK <=> Typed) /\ (TypeOK' <=> Typed')
  BY DEF TypeOK, Typed, Cause, Result, Place, ControlRecord, BarrierRecord, TimeRecord, WakeRecord

\* The run starts well typed.
LEMMA TypeInit == Init => TypeOK
<1> SUFFICES ASSUME Init PROVE TypeOK
  OBVIOUS
<1>1. st \in [Node -> Place] /\ result \in [Node -> Result] /\ cause \in [Node -> Cause]
  BY DEF Init, Place, Result, Cause
<1>2. ctl \in ControlRecord /\ bar \in BarrierRecord /\ time \in TimeRecord /\ wake \in WakeRecord
  BY DEF Init, ControlRecord, BarrierRecord, TimeRecord, WakeRecord, Arms
<1>3. evidence \in [Node -> {"none", "terminal", "trigger"}]
  BY DEF Init
<1>4. root \in Cause
  BY DEF Init, Cause
<1> QED BY <1>1, <1>2, <1>3, <1>4, TypeParts DEF Init, Typed

\* The top of the loop keeps the types.
LEMMA TopType == TypeOK /\ Top => TypeOK'
<1> SUFFICES ASSUME TypeOK, Top PROVE TypeOK'
  OBVIOUS
<1> USE TypeParts DEF Typed
<1>1. root' \in Cause /\ cause' \in [Node -> Cause]
  BY SeenType DEF Top
<1>2. time' \in TimeRecord
  BY TimeType DEF Top
<1>3. wake' \in WakeRecord /\ pc' \in {"finish", "wait"}
  BY DEF Top, WakeRecord
<1> QED BY <1>1, <1>2, <1>3 DEF Top

\* The arbitration of a batch keeps the types; its winner is an arm.
LEMMA ArbitrateType ==
    ASSUME TypeOK, NEW batch, NEW late, late \subseteq batch, batch \subseteq Node,
           NEW ack, NEW t \in TimeRecord, Arbitrate(batch, late, ack, t)
    PROVE  /\ wake' \in WakeRecord /\ cause' \in [Node -> Cause] /\ fired' \subseteq Node
           /\ observed' \subseteq {"cancel", "cutoff", "impossible"}
           /\ stop' \in BOOLEAN /\ time' \in TimeRecord
<1> USE TypeParts DEF Typed
<1>1. \A ontime : Winner(ontime, ack, t) \in {"drain", "ack", "cancel", "grace", "cutoff"}
  BY DEF Winner
<1>2. wake' \in WakeRecord
  BY <1>1 DEF Arbitrate, WakeRecord, Arms
<1>3. NodeCancels \subseteq Node
  BY DEF NodeCancels, At
<1>4. CauseSeen(cancel) \in [Node -> Cause]
  BY SeenType
<1>5. cause' \in [Node -> Cause]
  BY <1>4, RecordType DEF Arbitrate, Cause
<1>6. time' \in TimeRecord
  BY TimeType DEF Arbitrate
<1>7. fired' \subseteq Node
  BY <1>3 DEF Arbitrate, CutoffCancels
<1> QED BY <1>2, <1>5, <1>6, <1>7 DEF Arbitrate, CutoffReached

\* Waking up on completions keeps the types.
LEMMA WakeCompletionType == TypeOK /\ WakeCompletion => TypeOK'
<1> SUFFICES ASSUME TypeOK, WakeCompletion PROVE TypeOK'
  OBVIOUS
<1> USE TypeParts DEF Typed
<1>1. PICK batch \in (SUBSET Inflight) \ {{}}, ack \in {"none", "committed", "failed"} :
          WakeCompletion!2!(batch, ack)
  BY DEF WakeCompletion
<1>2. PICK out \in [batch -> Outcomes] :
          result' = [n \in Node |-> IF n \in batch /\ st[n] = "running" THEN out[n] ELSE result[n]]
  BY <1>1
<1>3. batch \subseteq Node
  BY DEF Inflight, At
<1>4. result' \in [Node -> Result] /\ st' \in [Node -> Place]
  BY <1>1, <1>2, <1>3, GraphAssumption DEF Result, Raw, Place
<1>5. bar' \in BarrierRecord
  BY <1>1 DEF BarrierRecord
<1>6. root' \in Cause
  BY <1>1, SeenType
<1>7. /\ wake' \in WakeRecord /\ cause' \in [Node -> Cause] /\ fired' \subseteq Node
      /\ observed' \subseteq {"cancel", "cutoff", "impossible"}
      /\ stop' \in BOOLEAN /\ time' \in TimeRecord
  <2>1. CASE Active
    <3>1. PICK c \in {time.clock, "reached"}, late \in SUBSET batch :
              Arbitrate(batch, late, ack, [time EXCEPT !.clock = c])
      BY <1>1, <2>1
    <3>2. [time EXCEPT !.clock = c] \in TimeRecord
      BY DEF TimeRecord
    <3> QED BY <3>1, <3>2, <1>3, ArbitrateType
  <2>2. CASE ~Active
    <3>1. wake' \in WakeRecord
      BY <1>1, <2>2 DEF WakeRecord, Arms
    <3>2. cause' \in [Node -> Cause]
      BY <1>1, <2>2, SeenType
    <3> QED BY <1>1, <2>2, <3>1, <3>2
  <2> QED BY <2>1, <2>2
<1> QED BY <1>4, <1>5, <1>6, <1>7 DEF WakeCompletion

\* Waking up on another arm keeps the types.
LEMMA WakeControlType == ASSUME TypeOK, NEW a \in Arms, WakeControl(a) PROVE TypeOK'
<1> USE TypeParts DEF Typed
<1>1. bar' \in BarrierRecord
  BY DEF WakeControl, BarrierRecord
<1>2. wake' \in WakeRecord
  BY DEF WakeControl, WakeRecord
<1> QED BY <1>1, <1>2 DEF WakeControl, nodeVars

\* Performing the action of an acknowledgement keeps the types.
LEMMA PerformType ==
    ASSUME TypeOK, NEW action, Perform(action)
    PROVE  /\ root' \in Cause /\ cause' \in [Node -> Cause] /\ fired' \subseteq Node
           /\ cancel' \in BOOLEAN /\ ctl' \in ControlRecord
<1> USE TypeParts DEF Typed
<1>1. NodeCancels \subseteq Node
  BY DEF NodeCancels, At
<1>2. root' \in Cause
  BY SeenType DEF Perform, Cause
<1>3. cause' \in [Node -> Cause]
  BY SeenType, RecordType DEF Perform, Cause
<1>4. ctl' \in ControlRecord
  BY DEF Perform, Acknowledged, ControlRecord
<1> QED BY <1>1, <1>2, <1>3, <1>4 DEF Perform

\* What the arms do keeps the types.
LEMMA ActType == TypeOK /\ Act => TypeOK'
<1> SUFFICES ASSUME TypeOK, Act PROVE TypeOK'
  OBVIOUS
<1> USE TypeParts DEF Typed
<1>1. Taken \in WakeRecord /\ AfterArm \in {"top", "process"}
  BY DEF Taken, WakeRecord, AfterArm, Arms
<1>2. NodeCancels \subseteq Node
  BY DEF NodeCancels, At
<1>3. CASE ActDrain
  BY <1>1, <1>3 DEF ActDrain, nodeVars
<1>4. CASE ActAck
  <2>1. bar' \in BarrierRecord
    BY <1>4 DEF ActAck, BarrierRecord
  <2>2. evidence' \in [Node -> {"none", "terminal", "trigger"}]
    BY <1>4 DEF ActAck
  <2>3. time' \in TimeRecord
    BY <1>4, TimeType DEF ActAck
  <2>4. /\ root' \in Cause /\ cause' \in [Node -> Cause] /\ fired' \subseteq Node
        /\ cancel' \in BOOLEAN /\ ctl' \in ControlRecord
    BY <1>4, PerformType DEF ActAck
  <2> QED BY <1>1, <1>4, <2>1, <2>2, <2>3, <2>4 DEF ActAck
<1>5. CASE ActStop
  <2>1. cause' \in [Node -> Cause]
    BY <1>5, RecordType DEF ActStop, Cause
  <2>2. time' \in TimeRecord
    BY <1>5, TimeType DEF ActStop
  <2>3. root' \in Cause
    BY <1>5 DEF ActStop, Cause
  <2> QED BY <1>1, <1>2, <1>5, <2>1, <2>2, <2>3 DEF ActStop
<1>6. CASE ActGrace
  <2>1. time' \in TimeRecord
    BY <1>6, TimeType DEF ActGrace
  <2>2. ctl' \in ControlRecord
    <3>1. ctl' = ctl \/ ctl' = [ctl EXCEPT !.timer = "fired", !.expired = TRUE]
      BY <1>6 DEF ActGrace
    <3> QED BY <3>1 DEF ControlRecord
  <2>3. cause' \in [Node -> Cause]
    BY <1>6, RecordType DEF ActGrace, Cause
  <2> QED BY <1>1, <1>2, <1>6, <2>1, <2>2, <2>3 DEF ActGrace
<1>7. CASE ActWait
  <2>1. time' \in TimeRecord
    BY <1>7, TimeType DEF ActWait
  <2>2. root' \in Cause /\ cause' \in [Node -> Cause]
    BY <1>7, SeenType DEF ActWait
  <2>3. terminalized' \subseteq Node
    BY <1>2, <1>7 DEF ActWait
  <2> QED BY <1>1, <1>7, <2>1, <2>2, <2>3 DEF ActWait
<1> QED BY <1>3, <1>4, <1>5, <1>6, <1>7 DEF Act

\* The node a batch processes next is ready.
LEMMA FirstReady ==
    ASSUME At("ready") # {}
    PROVE  Min(At("ready")) \in Node /\ st[Min(At("ready"))] = "ready"
<1>1. Min(At("ready")) \in At("ready")
  BY MinMember DEF At
<1> QED BY <1>1 DEF At

\* The trigger of a batch is one of its failed nodes.
LEMMA TriggerMember ==
    ASSUME NEW batch \in SUBSET Node
    PROVE  Trigger(batch) # NoNode =>
              /\ Trigger(batch) \in batch /\ result[Trigger(batch)] = "Failed"
              /\ ctl.trigger = NoNode /\ ~wake.snap /\ cfg.policy # "independent"
<1>1. {n \in batch : result[n] = "Failed"} # {} =>
         Min({n \in batch : result[n] = "Failed"}) \in {n \in batch : result[n] = "Failed"}
  BY MinMember
<1> QED BY <1>1 DEF Trigger

\* Processing a completion keeps the types.
LEMMA ProcessNodeType == TypeOK /\ ProcessNode => TypeOK'
<1> SUFFICES ASSUME TypeOK, ProcessNode PROVE TypeOK'
  OBVIOUS
<1> USE TypeParts DEF Typed
<1> DEFINE n == Min(At("ready"))
<1>1. n \in Node
  BY FirstReady DEF ProcessNode
<1>2. Disposition(n) \in Result /\ CanceledPrimary(n) \in Result
  BY <1>1, SeenType DEF Disposition, CanceledPrimary, Result, Raw, Terminals, Cause
<1>3. result' \in [Node -> Result]
  BY <1>2 DEF ProcessNode
<1>4. st' \in [Node -> Place]
  BY DEF ProcessNode, Place
<1>5. root' \in Cause
  BY SeenType DEF ProcessNode
<1>6. cause' \in [Node -> Cause]
  BY RecordType DEF ProcessNode, Cause
<1>7. wake' \in WakeRecord
  BY DEF ProcessNode, WakeRecord
<1>8. budget' \in BOOLEAN /\ stop' \in BOOLEAN /\ pc' \in {"error", "process"}
  BY DEF ProcessNode
<1>9. degraded' \subseteq Node /\ fired' \subseteq Node /\ terminalized' \subseteq Node
  BY DEF ProcessNode
<1> QED BY <1>3, <1>4, <1>5, <1>6, <1>7, <1>8, <1>9 DEF ProcessNode

\* Handing the batch to the controller keeps the types.
LEMMA FinalizeType == TypeOK /\ Finalize => TypeOK'
<1> SUFFICES ASSUME TypeOK, Finalize PROVE TypeOK'
  OBVIOUS
<1> USE TypeParts DEF Typed
<1> DEFINE governed == Frozen /\ ~budget /\ At("processed") # {}
           n == IF governed THEN Trigger(At("processed")) ELSE NoNode
<1>1. n \in Node \cup {NoNode}
  BY TriggerMember DEF At
<1> HIDE DEF n
<1>2. ctl' \in ControlRecord
  BY <1>1 DEF Finalize, ControlRecord, n
<1>3. bar' \in BarrierRecord
  BY <1>1 DEF Finalize, BarrierRecord, n
<1>4. evidence' \in [Node -> {"none", "terminal", "trigger"}]
  BY DEF Finalize
<1>5. wake' \in WakeRecord
  BY DEF Finalize, WakeRecord
<1>6. st' \in [Node -> Place] /\ pc' \in {"top", "publish", "inline", "broken"}
  BY DEF Finalize, Retain, Place
<1>7. stop' \in BOOLEAN
  BY <1>2 DEF Finalize, ControlRecord
<1> QED BY <1>2, <1>3, <1>4, <1>5, <1>6, <1>7 DEF Finalize

\* The barrier awaited in place keeps the types.
LEMMA InlineBarrierType == TypeOK /\ InlineBarrier => TypeOK'
<1> SUFFICES ASSUME TypeOK, InlineBarrier PROVE TypeOK'
  OBVIOUS
<1> USE TypeParts DEF Typed
<1>1. /\ root' \in Cause /\ cause' \in [Node -> Cause] /\ fired' \subseteq Node
      /\ cancel' \in BOOLEAN /\ ctl' \in ControlRecord
  BY PerformType DEF InlineBarrier
<1>2. st' \in [Node -> Place] /\ pc' = "publish"
  BY DEF InlineBarrier, Retain, Place
<1>3. evidence' \in [Node -> {"none", "terminal", "trigger"}]
  BY DEF InlineBarrier
<1> QED BY <1>1, <1>2, <1>3 DEF InlineBarrier

\* Publishing what is retained keeps the types.
LEMMA PublishType == TypeOK /\ Publish => TypeOK'
<1> SUFFICES ASSUME TypeOK, Publish PROVE TypeOK'
  OBVIOUS
<1> USE TypeParts DEF Typed
<1>1. root' \in Cause /\ cause' \in [Node -> Cause]
  BY SeenType DEF Publish
<1>2. st' \in [Node -> Place]
  BY DEF Publish, Schedule, Place
<1>3. result' \in [Node -> Result]
  BY DEF Publish, Schedule, Result, Raw
<1>4. degraded' \subseteq Node
  BY DEF Publish, Schedule, Schedulable, At
<1> QED BY <1>1, <1>2, <1>3, <1>4 DEF Publish

\* The end of the loop keeps the types.
LEMMA FinishType == TypeOK /\ Finish => TypeOK'
<1> SUFFICES ASSUME TypeOK, Finish PROVE TypeOK'
  OBVIOUS
<1> USE TypeParts DEF Typed
<1>1. root' \in Cause /\ cause' \in [Node -> Cause]
  BY SeenType DEF Finish
<1>2. MissingTerminal \in Result
  BY DEF MissingTerminal, Result, Terminals
<1>3. result' \in [Node -> Result]
  BY <1>2 DEF Finish
<1>4. st' \in [Node -> Place] /\ evidence' \in [Node -> {"none", "terminal", "trigger"}]
  BY DEF Finish, Place
<1>5. \A f : RunOutcome(f) \in {"Completed", "CompletedDegraded", "Failed", "Canceled"}
  BY DEF RunOutcome
<1>6. \A r, f, c : CheckoutOutcome(r, f, c) \in {"delete", "keep"}
  BY DEF CheckoutOutcome
<1>7. outcome' \in [run: {"none", "Completed", "CompletedDegraded", "Failed", "Canceled"},
                    checkouts: {"none", "delete", "keep"}]
  BY <1>5, <1>6 DEF Finish
<1> QED BY <1>1, <1>3, <1>4, <1>7 DEF Finish

\* A cancellation from outside and the clock keep the types.
LEMMA AroundType == TypeOK /\ (Cancel \/ Tick) => TypeOK'
<1> SUFFICES ASSUME TypeOK, Cancel \/ Tick PROVE TypeOK'
  OBVIOUS
<1> USE TypeParts DEF Typed
<1>1. CASE Cancel
  BY <1>1 DEF Cancel, nodeVars
<1>2. CASE Tick
  <2>1. time' \in TimeRecord
    BY <1>2, TimeType DEF Tick
  <2> QED BY <1>2, <2>1 DEF Tick, nodeVars
<1> QED BY <1>1, <1>2

\* Every step keeps the types.
LEMMA TypeNext == TypeOK /\ [Next]_vars => TypeOK'
<1> SUFFICES ASSUME TypeOK, [Next]_vars PROVE TypeOK'
  OBVIOUS
<1>1. CASE Loop
  BY <1>1, TopType, ActType, ProcessNodeType, FinalizeType, InlineBarrierType, PublishType,
     FinishType DEF Loop
<1>2. CASE Control
  BY <1>2, WakeControlType DEF Control
<1>3. CASE UNCHANGED vars
  BY <1>3, TypeParts DEF vars, Typed
<1> QED BY <1>1, <1>2, <1>3, WakeCompletionType, AroundType DEF Next

\* Every variable of the scheduling loop keeps its type (RunState and the controller's fields).
THEOREM SchedulerTypeCorrect == Spec => []TypeOK
<1> QED BY TypeInit, TypeNext, PTL DEF Spec

-----------------------------------------------------------------------------
(* The inductive invariant *)

\* No node is at this place.
None(s) == \A n \in Node : st[n] # s

\* What a node's place says of its result.
Kept(n) ==
    /\ st[n] \in {"idle", "running"} => result[n] = "none"
    /\ st[n] = "skipping" => result[n] = "SkippedDependency"
    /\ st[n] = "ready" => result[n] \in Raw
    /\ st[n] \in {"processed", "retained", "done"} => result[n] \in Terminals

\* A node is past idle exactly when its inputs are published, while nothing has stopped the run.
Behind(n) == \A m \in Inputs[n] : st[m] = "done"
Started(n) == /\ st[n] # "idle" => Behind(n)
              /\ st[n] = "idle" /\ Behind(n) => stop
NodeInv == \A n \in Node : Kept(n) /\ Started(n)

\* Where the loop can be, and what the arm it took rests on.
ArmInv ==
    pc = "act" => /\ wake.arm = "ack" => Active
                  /\ wake.arm = "cancel" => cancel
                  /\ wake.arm = "grace" => time.grace = "due"
                  /\ wake.arm = "wait" => time.cleanup # "none" /\ None("ready")
Drained == /\ None("running") /\ None("skipping") /\ None("retained")
           /\ ~bar.pending /\ bar.ack = "none"

\* Nothing waits where the loop would not look for it again.
PhaseInv ==
    /\ pc # "broken"
    /\ pc \notin {"act", "process", "error"} => None("ready")
    /\ pc \notin {"process", "inline", "error"} => None("processed")
    /\ pc \in {"finish", "ended"} => Drained
    /\ pc = "ended" /\ Frozen => None("idle")
    /\ pc = "inline" => ctl.trigger # NoNode
    /\ wake.snap => cancel
    /\ ArmInv

\* The controller, its barrier and its timer agree.
ControlInv ==
    /\ ctl.trigger = NoNode => ~ctl.pending /\ ~ctl.armed /\ ~ctl.expired
    /\ ctl.trigger # NoNode => ctl.stopped /\ stop
    /\ ctl.stopped => ctl.trigger # NoNode \/ cancel
    /\ ctl.pending => ~ctl.armed /\ ~ctl.expired
    /\ ~ctl.armed => ctl.timer = "unarmed"
    /\ ctl.pending => bar.pending \/ bar.ack # "none" \/ pc = "inline"
    /\ bar.pending => ctl.trigger # NoNode
    /\ time.grace # "none" => ctl.timer = "armed" /\ ctl.armed /\ ~ctl.expired

\* Why scheduling has stopped.
StopInv ==
    /\ observed # {} \/ budget => stop
    /\ stop => observed # {} \/ budget \/ ctl.stopped \/ cancel
    /\ "cancel" \in observed => cancel

\* Whom a cancellation is blamed on, and whom it has reached.
RootInv ==
    /\ external => cancel
    /\ root # "none" => cancel
    /\ root = "CanceledWorkflow" => external
    /\ root = "CanceledPolicy" => ctl.trigger # NoNode
    /\ cancel /\ root = "none" => external
    /\ cancel /\ ~external => \A n \in NodeCancels : cause[n] # "none"

\* A policy that acted has fired every running node, and cleanup waits for a reason.
ReachInv ==
    /\ PolicyActed => cancel \/ \A n \in Node : st[n] = "running" => n \in fired
    /\ time.cleanup # "none" => cancel \/ PolicyActed
    /\ ~cancel => terminalized \subseteq fired

\* A node that is not marked as degraded has healthy inputs.
Sound(n) == \A m \in Inputs[n] : result[m] = "Completed"
StrictSound ==
    cfg.synthesis = "strict" =>
        degraded = {} /\ \A n \in Node : result[n] # "CompletedDegraded"
Healthy(n) ==
    /\ pc # "error" /\ st[n] \in {"running", "ready"} /\ n \notin degraded
         /\ result[n] # "SkippedDependency" => Sound(n)
    /\ st[n] \in {"processed", "retained", "done"} /\ result[n] = "Completed" => Sound(n)
HealthInv == Frozen => StrictSound /\ \A n \in Node : Healthy(n)

\* A node that ended under a frozen policy has its evidence, or is the trigger.
EvidenceInv ==
    Frozen => \A n \in Node :
        st[n] \in {"retained", "done"} \/ (pc = "inline" /\ st[n] = "processed")
            => evidence[n] # "none" \/ n = ctl.trigger

\* The inductive invariant.
Inv == /\ TypeOK /\ NodeInv /\ PhaseInv /\ ControlInv /\ StopInv /\ RootInv /\ CauseHonest
       /\ ReachInv /\ HealthInv /\ EvidenceInv

-----------------------------------------------------------------------------
(* Facts the steps share *)

\* The run starts in the invariant.
LEMMA InvInit == Init => Inv
<1> SUFFICES ASSUME Init PROVE Inv
  OBVIOUS
<1>1. TypeOK
  BY TypeInit
<1>2. \A n \in Node : /\ st[n] = IF Inputs[n] = {} THEN "running" ELSE "idle"
                      /\ result[n] = "none" /\ cause[n] = "none"
  BY DEF Init
<1>3. NodeInv
  BY <1>2, GraphAssumption DEF Init, NodeInv, Kept, Started, Behind
<1>4. PhaseInv
  BY <1>2 DEF Init, PhaseInv, None, ArmInv
<1>5. ControlInv /\ StopInv
  BY DEF Init, ControlInv, StopInv
<1>6. RootInv /\ CauseHonest
  BY <1>2 DEF Init, RootInv, CauseHonest
<1>7. ReachInv
  BY <1>2 DEF Init, ReachInv, PolicyActed
<1>8. HealthInv
  BY <1>2, GraphAssumption DEF Init, HealthInv, StrictSound, Healthy, Sound
<1>9. EvidenceInv
  BY <1>2 DEF Init, EvidenceInv
<1> QED BY <1>1, <1>3, <1>4, <1>5, <1>6, <1>7, <1>8, <1>9 DEF Inv

\* At and None say the same.
LEMMA NoneAt == \A s : (At(s) = {} <=> None(s)) /\ (At(s)' = {} <=> None(s)')
  BY DEF At, None

\* What a recorded cause is.
LEMMA RecordIs ==
    ASSUME NEW c, NEW S, NEW p, NEW n \in Node
    PROVE  Record(c, S, p)[n] = IF n \in S /\ c[n] = "none" THEN p ELSE c[n]
  BY DEF Record

\* A cancellation the loop sees for the first time came from outside.
LEMMA SeenHonest ==
    ASSUME Inv
    PROVE  /\ RootSeen(cancel) = "CanceledWorkflow" => external
           /\ cancel => RootSeen(cancel) # "none"
           /\ RootSeen(cancel) # "none" => cancel
           /\ RootSeen(cancel) = "CanceledPolicy" => root = "CanceledPolicy"
           /\ \A n \in Node : \/ CauseSeen(cancel)[n] = cause[n]
                              \/ external /\ CauseSeen(cancel)[n] = "CanceledWorkflow"
           /\ \A n \in Node : CauseSeen(cancel)[n] = "none" => cause[n] = "none"
<1>1. RootInv /\ root \in Cause /\ cancel \in BOOLEAN
  BY TypeParts DEF Inv, Typed
<1>2. \A n \in Node : Record(cause, NodeCancels, "CanceledWorkflow")[n] \in {cause[n], "CanceledWorkflow"}
  BY RecordIs
<1>3. \A n \in Node : Record(cause, NodeCancels, "CanceledWorkflow")[n] = "none" => cause[n] = "none"
  BY RecordIs
<1> QED BY <1>1, <1>2, <1>3 DEF RootInv, RootSeen, CauseSeen, Cause

\* The policy's own causes have an acknowledged trigger, a cutoff or an impossible result.
Blamed == \/ ctl.trigger # NoNode /\ ~ctl.pending
          \/ observed \cap {"cutoff", "impossible"} # {}

\* Causes and results stay honest when each new one is.
LEMMA HonestStep ==
    ASSUME CauseHonest, external => external', Blamed => Blamed',
           \A n \in Node : \/ cause'[n] = cause[n]
                           \/ cause'[n] = "CanceledWorkflow" /\ external'
                           \/ cause'[n] = "CanceledPolicy" /\ Blamed',
           \A n \in Node : \/ result'[n] \in {result[n], cause[n]}
                           \/ result'[n] \notin {"CanceledWorkflow", "CanceledPolicy"}
                           \/ result'[n] = "CanceledWorkflow" /\ external'
    PROVE  CauseHonest'
  BY DEF CauseHonest, Blamed

\* A step that moves no node.
Still == UNCHANGED <<cfg, st, result, degraded>>

\* Such a step keeps what is said of the nodes.
LEMMA StillNodes ==
    ASSUME Inv, Still, stop => stop', pc # "error",
           pc' # "inline", ctl'.trigger = ctl.trigger,
           \A n \in Node : evidence[n] # "none" => evidence'[n] # "none"
    PROVE  NodeInv' /\ HealthInv' /\ EvidenceInv'
<1>1. NodeInv'
  BY DEF Inv, Still, NodeInv, Kept, Started, Behind
<1>2. HealthInv'
  BY DEF Inv, Still, HealthInv, StrictSound, Healthy, Sound, Frozen
<1>3. EvidenceInv'
  BY DEF Inv, Still, EvidenceInv, Frozen
<1> QED BY <1>1, <1>2, <1>3

\* Such a step leaves the same nodes with a token.
LEMMA StillCancels == Still => NodeCancels' = NodeCancels /\ \A s : At(s)' = At(s) /\ None(s)' = None(s)
  BY DEF Still, NodeCancels, At, None

\* A token is a node's, and a running node has one.
LEMMA TokenNodes ==
    ASSUME Inv
    PROVE  /\ NodeCancels \subseteq Node
           /\ \A n \in Node : st[n] = "running" => n \in NodeCancels
           /\ \A n \in NodeCancels : st[n] \in {"running", "ready"}
  BY DEF Inv, NodeInv, Kept, NodeCancels, At

-----------------------------------------------------------------------------
(* The steps that move no node *)

\* The top of the loop keeps the invariant.
LEMMA TopInv == Inv /\ Top => Inv'
<1> SUFFICES ASSUME Inv, Top PROVE Inv'
  OBVIOUS
<1>0. /\ TypeOK /\ Typed /\ PhaseInv /\ ControlInv /\ StopInv /\ RootInv /\ CauseHonest /\ ReachInv
      /\ Still /\ pc = "top"
  BY TypeParts DEF Inv, Top, Still
<1>1. TypeOK'
  BY <1>0, TopType
<1>2. NodeInv' /\ HealthInv' /\ EvidenceInv'
  BY <1>0, StillNodes DEF Top
<1>3. PhaseInv'
  BY <1>0, NoneAt, StillCancels DEF Top, PhaseInv, Over, Inflight, ArmInv, Drained, Typed, WakeRecord
<1>4. time'.grace \in {"none", time.grace} /\ time'.cleanup \in {"none", time.cleanup}
  BY <1>0 DEF Top, Typed, TimeRecord
<1>5. ControlInv' /\ StopInv'
  BY <1>0, <1>4 DEF Top, ControlInv, StopInv
<1>6. RootInv'
  BY <1>0, SeenHonest, StillCancels, TokenNodes DEF Top, RootInv
<1>7. CauseHonest'
  BY <1>0, SeenHonest, HonestStep DEF Top, Blamed
<1>8. ReachInv'
  BY <1>0, <1>4 DEF Top, ReachInv, PolicyActed
<1> QED BY <1>1, <1>2, <1>3, <1>5, <1>6, <1>7, <1>8 DEF Inv

\* Waking up on an arm other than a completion keeps the invariant.
LEMMA WakeControlInv == ASSUME Inv, NEW a \in Arms, WakeControl(a) PROVE Inv'
<1>0. /\ TypeOK /\ Typed /\ PhaseInv /\ ControlInv /\ StopInv /\ RootInv /\ CauseHonest /\ ReachInv
      /\ Still /\ pc = "wait" /\ Active /\ ArmReady(a)
  BY TypeParts DEF Inv, WakeControl, Still, nodeVars
<1>1. TypeOK'
  BY <1>0, WakeControlType
<1>2. NodeInv' /\ HealthInv' /\ EvidenceInv'
  BY <1>0, StillNodes DEF WakeControl, nodeVars
<1>3. wake'.arm = a /\ wake'.snap = wake.snap
  BY <1>0 DEF WakeControl, Typed, WakeRecord
<1>4. ArmInv'
  BY <1>0, <1>3, StillCancels DEF WakeControl, ArmInv, ArmReady, PhaseInv, Active
<1>5. PhaseInv'
  BY <1>0, <1>3, <1>4, StillCancels DEF WakeControl, PhaseInv
<1>6. /\ bar'.pending => bar.pending
      /\ bar.pending \/ bar.ack # "none" => bar'.pending \/ bar'.ack # "none"
  BY <1>0 DEF WakeControl, Typed, BarrierRecord
<1>7. ControlInv' /\ StopInv'
  BY <1>0, <1>6 DEF WakeControl, ControlInv, StopInv
<1>8. RootInv'
  BY <1>0, StillCancels DEF WakeControl, RootInv, nodeVars
<1>9. CauseHonest' /\ ReachInv'
  BY <1>0 DEF WakeControl, CauseHonest, ReachInv, PolicyActed, nodeVars
<1> QED BY <1>1, <1>2, <1>5, <1>7, <1>8, <1>9 DEF Inv

\* A cancellation from outside and the clock keep the invariant.
LEMMA AroundInv == Inv /\ (Cancel \/ Tick) => Inv'
<1> SUFFICES ASSUME Inv, Cancel \/ Tick PROVE Inv'
  OBVIOUS
<1>0. /\ TypeOK /\ Typed /\ PhaseInv /\ ControlInv /\ StopInv /\ RootInv /\ CauseHonest /\ ReachInv
      /\ NodeInv /\ HealthInv /\ EvidenceInv /\ Still
  BY TypeParts DEF Inv, Cancel, Tick, Still, nodeVars
<1>1. TypeOK'
  BY <1>0, AroundType
<1>2. NodeInv'
  BY <1>0 DEF NodeInv, Kept, Started, Behind, Still, Cancel, Tick
<1>3. HealthInv'
  BY <1>0 DEF HealthInv, StrictSound, Healthy, Frozen, Sound, Still, Cancel, Tick
<1>4. EvidenceInv'
  BY <1>0 DEF EvidenceInv, Frozen, Still, Cancel, Tick, nodeVars
<1>5. CASE Cancel
  <2>1. PhaseInv'
    BY <1>0, <1>5, StillCancels DEF Cancel, PhaseInv, ArmInv, Drained, Active, Ended
  <2>2. ControlInv' /\ StopInv'
    BY <1>0, <1>5 DEF Cancel, ControlInv, StopInv
  <2>3. RootInv'
    BY <1>0, <1>5 DEF Cancel, RootInv
  <2>4. CauseHonest' /\ ReachInv'
    BY <1>0, <1>5 DEF Cancel, CauseHonest, ReachInv, nodeVars
  <2> QED BY <1>1, <1>2, <1>3, <1>4, <2>1, <2>2, <2>3, <2>4 DEF Inv
<1>6. CASE Tick
  <2>1. /\ time'.cleanup = time.cleanup /\ pc' = "wait"
        /\ time'.grace # "none" => time.grace # "none"
    BY <1>0, <1>6 DEF Tick, Typed, TimeRecord
  <2>2. PhaseInv'
    BY <1>0, <1>6, <2>1, StillCancels DEF Tick, PhaseInv, ArmInv
  <2>3. ControlInv' /\ StopInv'
    BY <1>0, <1>6, <2>1 DEF Tick, ControlInv, StopInv
  <2>4. RootInv'
    BY <1>0, <1>6, StillCancels DEF Tick, RootInv, nodeVars
  <2>5. CauseHonest' /\ ReachInv'
    BY <1>0, <1>6, <2>1 DEF Tick, CauseHonest, ReachInv, PolicyActed, nodeVars
  <2> QED BY <1>1, <1>2, <1>3, <1>4, <2>2, <2>3, <2>4, <2>5 DEF Inv
<1> QED BY <1>5, <1>6

\* Where the loop goes after an arm: a batch or retained nodes are processed, or it starts over.
LEMMA AfterArmPhase ==
    ASSUME Inv, Still, pc = "act", pc' = AfterArm, wake' = Taken, cancel => cancel'
    PROVE  PhaseInv'
<1>0. Typed /\ PhaseInv
  BY TypeParts DEF Inv
<1>1. wake'.snap = wake.snap
  BY <1>0 DEF Taken, Typed, WakeRecord
<1>2. AfterArm \in {"top", "process"} /\ (AfterArm = "top" => None("ready"))
  BY NoneAt DEF AfterArm
<1> QED BY <1>0, <1>1, <1>2, StillCancels DEF PhaseInv, ArmInv

-----------------------------------------------------------------------------
(* What the arms do *)

\* What an acknowledgement asks for.
LEMMA AckIs ==
    ASSUME Inv, NEW r, NEW c \in BOOLEAN
    PROVE  /\ ~ctl.pending => AckAction(r, c) = "none"
           /\ AckAction(r, c) \in {"none", "global", "siblings", "grace"}
           /\ AckAction(r, c) # "none" => ctl.pending
           /\ AckAction(r, c) = "siblings" => cfg.policy = "fail_fast"
           /\ ctl.pending /\ cfg.policy = "fail_fast" => AckAction(r, c) \in {"global", "siblings"}
<1>1. cfg.policy \in Policies /\ ctl.pending \in BOOLEAN
  BY GraphAssumption, TypeParts DEF Inv, Typed, AllConfigs, ControlRecord
<1>2. CASE ~ctl.pending
  BY <1>2 DEF AckAction
<1>3. CASE ctl.pending /\ (c \/ r = "failed")
  BY <1>3 DEF AckAction
<1>4. CASE ctl.pending /\ ~(c \/ r = "failed")
  <2>1. AckAction(r, c) =
          [independent |-> "none", fail_fast |-> "siblings", fixed_grace |-> "grace"][cfg.policy]
    BY <1>4 DEF AckAction
  <2> QED BY <1>1, <1>4, <2>1 DEF Policies
<1> QED BY <1>1, <1>2, <1>3, <1>4

\* What the controller becomes.
LEMMA AcknowledgedIs ==
    ASSUME Inv, NEW action, Perform(action)
    PROVE  /\ ctl'.trigger = ctl.trigger /\ ctl'.stopped = ctl.stopped
           /\ ctl'.expired = ctl.expired /\ ~ctl'.pending
           /\ ctl'.armed = (ctl.armed \/ action = "grace")
           /\ ctl'.timer = IF action = "grace" /\ Active THEN "armed" ELSE ctl.timer
<1>1. ctl \in ControlRecord
  BY TypeParts DEF Inv, Typed
<1> QED BY <1>1 DEF Perform, Acknowledged, ControlRecord

\* Acting on an acknowledgement blames the right party and reaches every running node.
LEMMA PerformInv ==
    ASSUME Inv, NEW r, Perform(AckAction(r, cancel)),
           UNCHANGED <<cfg, result, external, observed, terminalized>>, NodeCancels' = NodeCancels,
           \A n \in Node : st'[n] = "running" => st[n] = "running",
           time'.cleanup # "none" =>
             time.cleanup # "none" \/ AckAction(r, cancel) \in {"siblings", "global"}
    PROVE  RootInv' /\ CauseHonest' /\ ReachInv'
<1> DEFINE action == AckAction(r, cancel)
<1>0. /\ Typed /\ PhaseInv /\ ControlInv /\ StopInv /\ RootInv /\ CauseHonest /\ ReachInv
      /\ Perform(action)
  BY TypeParts DEF Inv
<1>1. cancel \in BOOLEAN /\ root \in Cause /\ cause \in [Node -> Cause]
  BY <1>0 DEF Typed
<1>2. /\ ~ctl.pending => action = "none"
      /\ action \in {"none", "global", "siblings", "grace"}
      /\ action # "none" => ctl.pending
      /\ action = "siblings" => cfg.policy = "fail_fast"
      /\ ctl.pending /\ cfg.policy = "fail_fast" => action \in {"global", "siblings"}
  BY <1>1, AckIs
<1> HIDE DEF action
<1>3. action # "none" => ctl.trigger # NoNode
  BY <1>0, <1>2 DEF ControlInv
<1>4. /\ ctl'.trigger = ctl.trigger /\ ctl'.expired = ctl.expired /\ ~ctl'.pending
  BY <1>0, AcknowledgedIs
<1>5. /\ root' = IF action = "global" /\ RootSeen(cancel) = "none" THEN "CanceledPolicy"
                 ELSE RootSeen(cancel)
      /\ cancel' = (cancel \/ action = "global")
      /\ cause' = IF action \in {"siblings", "global"}
                  THEN Record(CauseSeen(cancel), NodeCancels, "CanceledPolicy")
                  ELSE CauseSeen(cancel)
      /\ fired' = IF action = "siblings" THEN fired \cup NodeCancels ELSE fired
  BY <1>0 DEF Perform
<1>6. /\ RootSeen(cancel) = "CanceledWorkflow" => external
      /\ cancel => RootSeen(cancel) # "none"
      /\ RootSeen(cancel) # "none" => cancel
      /\ RootSeen(cancel) = "CanceledPolicy" => root = "CanceledPolicy"
      /\ \A n \in Node : \/ CauseSeen(cancel)[n] = cause[n]
                         \/ external /\ CauseSeen(cancel)[n] = "CanceledWorkflow"
      /\ \A n \in Node : CauseSeen(cancel)[n] = "none" => cause[n] = "none"
  BY SeenHonest
<1>7. \A n \in Node : \/ cause'[n] = CauseSeen(cancel)[n]
                      \/ action # "none" /\ cause'[n] = "CanceledPolicy"
  BY <1>5, RecordIs
<1>8. \A n \in Node : cause'[n] = "none" => cause[n] = "none"
  BY <1>6, <1>7
<1>9. action = "global" => \A n \in NodeCancels : cause'[n] # "none"
  BY <1>5, RecordIs, TokenNodes
<1>10. RootInv'
  BY <1>0, <1>1, <1>3, <1>4, <1>5, <1>6, <1>8, <1>9, TokenNodes DEF RootInv, Cause
<1>11. CauseHonest'
  <2>1. Blamed => Blamed'
    BY <1>4 DEF Blamed
  <2>2. \A n \in Node : \/ cause'[n] = cause[n]
                        \/ cause'[n] = "CanceledWorkflow" /\ external'
                        \/ cause'[n] = "CanceledPolicy" /\ Blamed'
    BY <1>3, <1>4, <1>6, <1>7 DEF Blamed
  <2> QED BY <1>0, <2>1, <2>2, HonestStep
<1>12. ReachInv'
  <2>1. PolicyActed' => PolicyActed \/ (ctl.pending /\ cfg.policy = "fail_fast")
    BY <1>4 DEF PolicyActed
  <2>2. PolicyActed => PolicyActed'
    BY <1>0, <1>4 DEF PolicyActed
  <2>3. fired \subseteq fired' /\ (cancel => cancel')
    BY <1>5
  <2>4. action = "siblings" => PolicyActed' /\ \A n \in Node : st'[n] = "running" => n \in fired'
    BY <1>2, <1>3, <1>4, <1>5, TokenNodes DEF PolicyActed
  <2>5. PolicyActed' => cancel' \/ \A n \in Node : st'[n] = "running" => n \in fired'
    BY <1>0, <1>2, <1>5, <2>1, <2>3, <2>4 DEF ReachInv
  <2>6. time'.cleanup # "none" => cancel' \/ PolicyActed'
    BY <1>0, <1>5, <2>2, <2>4 DEF ReachInv, action
  <2>7. ~cancel' => terminalized' \subseteq fired'
    BY <1>0, <2>3 DEF ReachInv
  <2> QED BY <2>5, <2>6, <2>7 DEF ReachInv
<1> QED BY <1>10, <1>11, <1>12

\* Acting on the acknowledgement keeps the invariant.
LEMMA ActAckInv == Inv /\ ActAck => Inv'
<1> SUFFICES ASSUME Inv, ActAck PROVE Inv'
  OBVIOUS
<1> DEFINE action == AckAction(bar.ack, cancel)
<1>0. /\ TypeOK /\ Typed /\ PhaseInv /\ ControlInv /\ StopInv /\ RootInv /\ CauseHonest /\ ReachInv
      /\ Still /\ pc = "act" /\ wake.arm = "ack" /\ Perform(action)
  BY TypeParts DEF Inv, ActAck, Still
<1>1. TypeOK'
  BY <1>0, ActType DEF Act
<1>2. Active /\ cancel \in BOOLEAN
  BY <1>0 DEF PhaseInv, ArmInv, Typed
<1>3. action # "none" => ctl.pending
  BY <1>2, AckIs
<1>4. /\ ctl'.trigger = ctl.trigger /\ ctl'.stopped = ctl.stopped
      /\ ctl'.expired = ctl.expired /\ ~ctl'.pending
      /\ ctl'.armed = (ctl.armed \/ action = "grace")
      /\ ctl'.timer = IF action = "grace" /\ Active THEN "armed" ELSE ctl.timer
  BY <1>0, AcknowledgedIs
<1>5. cancel' = (cancel \/ action = "global")
  BY <1>0 DEF Perform
<1>6. time' = CASE action \in {"siblings", "global"} -> ArmCleanup(time)
                [] action = "grace" -> ArmGrace(time)
                [] OTHER -> time
  BY DEF ActAck
<1>7. pc' = IF action = "grace" /\ ctl.timer # "unarmed" THEN "broken" ELSE AfterArm
  BY DEF ActAck
<1> HIDE DEF action
<1>8. action = "grace" => ctl.timer = "unarmed"
  BY <1>0, <1>3 DEF ControlInv
<1>9. /\ time'.cleanup # "none" => time.cleanup # "none" \/ action \in {"siblings", "global"}
      /\ time'.grace # "none" => time.grace # "none" \/ action = "grace"
  <2>1. time \in TimeRecord
    BY <1>0 DEF Typed
  <2>2. CASE action \in {"siblings", "global"}
    BY <1>6, <2>1, <2>2 DEF ArmCleanup, TimeRecord
  <2>3. CASE action = "grace"
    BY <1>6, <2>1, <2>3 DEF ArmGrace, TimeRecord
  <2>4. CASE action \notin {"siblings", "global", "grace"}
    BY <1>6, <2>4
  <2> QED BY <2>2, <2>3, <2>4
<1>10. /\ bar'.pending = bar.pending /\ bar'.ack = "none" /\ wake' = Taken
       /\ UNCHANGED <<cfg, result, external, observed, terminalized, stop, budget>>
       /\ \A n \in Node : evidence[n] # "none" => evidence'[n] # "none"
  BY DEF ActAck
<1>11. PhaseInv'
  BY <1>0, <1>5, <1>7, <1>8, <1>10, AfterArmPhase
<1>12. pc' \in {"top", "process"}
  BY <1>7, <1>8 DEF AfterArm
<1>13. NodeInv' /\ HealthInv' /\ EvidenceInv'
  BY <1>0, <1>4, <1>10, <1>12, StillNodes
<1>14. ControlInv'
  BY <1>0, <1>2, <1>3, <1>4, <1>5, <1>9, <1>10 DEF ControlInv
<1>15. StopInv'
  BY <1>0, <1>4, <1>5, <1>10 DEF StopInv
<1>16. RootInv' /\ CauseHonest' /\ ReachInv'
  <2>1. NodeCancels' = NodeCancels /\ \A n \in Node : st'[n] = "running" => st[n] = "running"
    BY <1>0, StillCancels DEF Still
  <2> QED BY <1>0, <1>9, <1>10, <2>1, PerformInv DEF action
<1> QED BY <1>1, <1>11, <1>13, <1>14, <1>15, <1>16 DEF Inv

\* A step that leaves the batch to be drained keeps the invariant.
LEMMA ActDrainInv == Inv /\ ActDrain => Inv'
<1> SUFFICES ASSUME Inv, ActDrain PROVE Inv'
  OBVIOUS
<1>0. /\ TypeOK /\ Typed /\ PhaseInv /\ ControlInv /\ StopInv /\ RootInv /\ CauseHonest /\ ReachInv
      /\ Still /\ pc = "act" /\ pc' = AfterArm
  BY TypeParts DEF Inv, ActDrain, Still, nodeVars
<1>1. TypeOK'
  BY <1>0, ActType DEF Act
<1>2. pc' \in {"top", "process"}
  BY <1>0 DEF AfterArm
<1>3. NodeInv' /\ HealthInv' /\ EvidenceInv'
  BY <1>0, <1>2, StillNodes DEF ActDrain, nodeVars
<1>4. PhaseInv'
  BY <1>0, AfterArmPhase DEF ActDrain
<1>5. ControlInv' /\ StopInv'
  BY <1>0, <1>2 DEF ActDrain, ControlInv, StopInv
<1>6. RootInv'
  BY <1>0, StillCancels DEF ActDrain, RootInv, nodeVars
<1>7. CauseHonest' /\ ReachInv'
  BY <1>0 DEF ActDrain, CauseHonest, ReachInv, PolicyActed, nodeVars
<1> QED BY <1>1, <1>3, <1>4, <1>5, <1>6, <1>7 DEF Inv

\* Stopping the run on a cancellation, the cutoff or an impossible result keeps the invariant.
LEMMA ActStopInv == Inv /\ ActStop => Inv'
<1> SUFFICES ASSUME Inv, ActStop PROVE Inv'
  OBVIOUS
<1> DEFINE primary == IF wake.arm = "cancel" THEN "CanceledWorkflow" ELSE "CanceledPolicy"
<1>0. /\ TypeOK /\ Typed /\ PhaseInv /\ ControlInv /\ StopInv /\ RootInv /\ CauseHonest /\ ReachInv
      /\ Still /\ pc = "act" /\ pc' = AfterArm
      /\ wake.arm \in {"cancel", "cutoff", "impossible"}
  BY TypeParts DEF Inv, ActStop, Still
<1>1. TypeOK'
  BY <1>0, ActType DEF Act
<1>2. pc' \in {"top", "process"}
  BY <1>0 DEF AfterArm
<1>3. NodeInv' /\ HealthInv' /\ EvidenceInv'
  BY <1>0, <1>2, StillNodes DEF ActStop
<1>4. PhaseInv'
  BY <1>0, AfterArmPhase DEF ActStop
<1>5. time'.grace = time.grace
  BY <1>0 DEF ActStop, ArmCleanup, Typed, TimeRecord
<1>6. ControlInv'
  BY <1>0, <1>2, <1>5 DEF ActStop, ControlInv
<1>7. wake.arm = "cancel" => cancel
  BY <1>0 DEF PhaseInv, ArmInv
<1>8. StopInv'
  BY <1>0, <1>7 DEF ActStop, StopInv
<1>9. \A n \in Node : cause'[n] = IF n \in NodeCancels /\ cause[n] = "none" THEN primary ELSE cause[n]
  BY RecordIs DEF ActStop
<1>10. RootInv'
  BY <1>0, <1>7, <1>9, StillCancels, TokenNodes DEF ActStop, RootInv
<1>11. CauseHonest'
  <2>1. wake.arm = "cancel" /\ ~external => \A n \in NodeCancels : cause[n] # "none"
    BY <1>0, <1>7 DEF RootInv
  <2>2. Blamed => Blamed'
    BY DEF Blamed, ActStop
  <2>3. wake.arm # "cancel" => Blamed'
    BY <1>0 DEF Blamed, ActStop
  <2>4. \A n \in Node : \/ cause'[n] = cause[n]
                        \/ cause'[n] = "CanceledWorkflow" /\ external'
                        \/ cause'[n] = "CanceledPolicy" /\ Blamed'
    BY <1>9, <2>1, <2>3 DEF ActStop
  <2> QED BY <1>0, <2>2, <2>4, HonestStep DEF ActStop
<1>12. ReachInv'
  <2>1. PolicyActed' /\ \A n \in Node : st'[n] = "running" => n \in fired'
    BY TokenNodes DEF ActStop, PolicyActed
  <2>2. ~cancel' => terminalized' \subseteq fired'
    BY <1>0 DEF ReachInv, ActStop
  <2> QED BY <2>1, <2>2 DEF ReachInv
<1> QED BY <1>1, <1>3, <1>4, <1>6, <1>8, <1>10, <1>11, <1>12 DEF Inv

\* The end of the grace finds its timer armed, and keeps the invariant.
LEMMA ActGraceInv == Inv /\ ActGrace => Inv'
<1> SUFFICES ASSUME Inv, ActGrace PROVE Inv'
  OBVIOUS
<1>0. /\ TypeOK /\ Typed /\ PhaseInv /\ ControlInv /\ StopInv /\ RootInv /\ CauseHonest /\ ReachInv
      /\ Still /\ pc = "act" /\ wake.arm = "grace"
  BY TypeParts DEF Inv, ActGrace, Still
<1>1. TypeOK'
  BY <1>0, ActType DEF Act
<1>2. ctl.timer = "armed" /\ ctl.armed /\ ~ctl.expired
  BY <1>0 DEF PhaseInv, ArmInv, ControlInv
<1>3. ctl.trigger # NoNode /\ ~ctl.pending
  BY <1>0, <1>2 DEF ControlInv
<1>4. /\ ctl' = [ctl EXCEPT !.timer = "fired", !.expired = TRUE]
      /\ cause' = Record(cause, NodeCancels, "CanceledPolicy")
      /\ fired' = fired \cup NodeCancels
      /\ pc' = AfterArm
  BY <1>2 DEF ActGrace
<1>5. /\ ctl'.trigger = ctl.trigger /\ ctl'.pending = ctl.pending /\ ctl'.stopped = ctl.stopped
      /\ ctl'.armed = ctl.armed /\ ctl'.expired
  BY <1>0, <1>4 DEF Typed, ControlRecord
<1>6. time'.grace = "none"
  BY <1>0 DEF ActGrace, ArmCleanup, Typed, TimeRecord
<1>7. pc' \in {"top", "process"}
  BY <1>4 DEF AfterArm
<1>8. NodeInv' /\ HealthInv' /\ EvidenceInv'
  BY <1>0, <1>5, <1>7, StillNodes DEF ActGrace
<1>9. PhaseInv'
  BY <1>0, <1>4, AfterArmPhase DEF ActGrace
<1>10. ControlInv' /\ StopInv'
  BY <1>0, <1>2, <1>3, <1>5, <1>6 DEF ActGrace, ControlInv, StopInv
<1>11. \A n \in Node : cause'[n] = IF n \in NodeCancels /\ cause[n] = "none"
                                   THEN "CanceledPolicy" ELSE cause[n]
  BY <1>4, RecordIs
<1>12. RootInv'
  BY <1>0, <1>5, <1>11, StillCancels, TokenNodes DEF ActGrace, RootInv
<1>13. CauseHonest'
  <2>1. Blamed'
    BY <1>3, <1>5 DEF Blamed
  <2> QED BY <1>0, <1>11, <2>1, HonestStep DEF ActGrace
<1>14. ReachInv'
  <2>1. PolicyActed' /\ \A n \in Node : st'[n] = "running" => n \in fired'
    BY <1>4, <1>5, TokenNodes DEF ActGrace, PolicyActed
  <2>2. ~cancel' => terminalized' \subseteq fired'
    BY <1>0, <1>4 DEF ReachInv, ActGrace
  <2> QED BY <2>1, <2>2 DEF ReachInv
<1> QED BY <1>1, <1>8, <1>9, <1>10, <1>12, <1>13, <1>14 DEF Inv

\* The cleanup deadline gives up canceled nodes only, and keeps the invariant.
LEMMA ActWaitInv == Inv /\ ActWait => Inv'
<1> SUFFICES ASSUME Inv, ActWait PROVE Inv'
  OBVIOUS
<1>0. /\ TypeOK /\ Typed /\ PhaseInv /\ ControlInv /\ StopInv /\ RootInv /\ CauseHonest /\ ReachInv
      /\ Still /\ pc = "act" /\ wake.arm = "wait" /\ cancel' = cancel
  BY TypeParts DEF Inv, ActWait, Still
<1>1. TypeOK'
  BY <1>0, ActType DEF Act
<1>2. pc' \in {"error", AfterArm} /\ AfterArm \in {"top", "process"}
  BY DEF ActWait, AfterArm
<1>3. NodeInv' /\ HealthInv' /\ EvidenceInv'
  BY <1>0, <1>2, StillNodes DEF ActWait
<1>4. PhaseInv'
  <2>1. CASE pc' = AfterArm
    BY <1>0, <2>1, AfterArmPhase DEF ActWait
  <2>2. CASE pc' = "error"
    <3>1. wake'.snap = wake.snap
      BY <1>0 DEF ActWait, Taken, Typed, WakeRecord
    <3> QED BY <1>0, <2>2, <3>1 DEF PhaseInv, ArmInv
  <2> QED BY <1>2, <2>1, <2>2
<1>5. time'.grace = time.grace /\ time'.cleanup = "none"
  BY <1>0 DEF ActWait, Typed, TimeRecord
<1>6. ControlInv' /\ StopInv'
  BY <1>0, <1>2, <1>5 DEF ActWait, ControlInv, StopInv
<1>7. \/ root' = RootSeen(cancel) /\ cause' = CauseSeen(cancel)
      \/ root' = root /\ cause' = cause
  BY DEF ActWait
<1>8. RootInv'
  BY <1>0, <1>7, SeenHonest, StillCancels, TokenNodes DEF ActWait, RootInv
<1>9. CauseHonest'
  BY <1>0, <1>7, SeenHonest, HonestStep DEF ActWait, Blamed
<1>10. ReachInv'
  <2>1. time.cleanup # "none" /\ None("ready")
    BY <1>0 DEF PhaseInv, ArmInv
  <2>2. NodeCancels \subseteq {n \in Node : st[n] = "running"}
    BY <2>1, TokenNodes DEF None
  <2>3. ~cancel => NodeCancels \subseteq fired
    BY <1>0, <2>1, <2>2 DEF ReachInv
  <2>4. terminalized' \subseteq terminalized \cup NodeCancels
    BY DEF ActWait
  <2>5. ~cancel' => terminalized' \subseteq fired'
    BY <1>0, <2>3, <2>4 DEF ReachInv, ActWait
  <2>6. PolicyActed' = PolicyActed
    BY DEF PolicyActed, ActWait
  <2> QED BY <1>0, <1>5, <2>5, <2>6 DEF ReachInv, ActWait
<1> QED BY <1>1, <1>3, <1>4, <1>6, <1>8, <1>9, <1>10 DEF Inv

-----------------------------------------------------------------------------
(* The steps that move nodes *)

\* Nodes that move on without being published, or started, keep the invariant of the nodes.
LEMMA NodesMoved ==
    ASSUME Inv, stop => stop',
           \A n \in Node : /\ Kept(n)'
                           /\ st'[n] = "idle" <=> st[n] = "idle"
                           /\ st'[n] = "done" <=> st[n] = "done"
    PROVE  NodeInv'
<1>1. \A n \in Node : Inputs[n] \subseteq Node
  BY GraphAssumption
<1>2. \A n \in Node : Behind(n)' <=> Behind(n)
  BY <1>1 DEF Behind
<1> QED BY <1>2 DEF Inv, NodeInv, Started

\* The inputs of a node past idle are published: their results stay.
LEMMA SoundKept ==
    ASSUME Inv, NEW n \in Node, st[n] # "idle", Sound(n),
           \A m \in Node : st[m] = "done" => result'[m] = result[m]
    PROVE  Sound(n)'
<1>1. Behind(n) /\ Inputs[n] \subseteq Node
  BY GraphAssumption DEF Inv, NodeInv, Started
<1> QED BY <1>1 DEF Behind, Sound

\* What the arbitration of a batch does: it is drained or left to an arm that is ready, and a
\* cutoff that it applies cancels every node outside the batch.
Arbitrated(batch, t) ==
    /\ wake'.arm \in {"drain", "ack", "cancel", "grace", "cutoff"}
    /\ wake'.snap = wake.snap
    /\ wake'.arm = "cancel" => cancel
    /\ wake'.arm = "grace" => t.grace = "due"
    /\ time'.grace = t.grace
    /\ \E hit \in SUBSET NodeCancels :
         /\ fired' = fired \cup hit
         /\ cause' = Record(CauseSeen(cancel), hit, "CanceledPolicy")
         /\ \/ observed' = observed /\ stop' = stop /\ time'.cleanup = t.cleanup /\ hit = {}
            \/ observed' = observed \cup {"cutoff"} /\ stop' = TRUE /\ NodeCancels \ batch \subseteq hit

\* The arbitration does just that.
LEMMA ArbitrateEffect ==
    ASSUME Inv, NEW batch, NEW late, late \subseteq batch, batch \subseteq Node, batch # {},
           NEW ack, NEW t \in TimeRecord, late # {} => CutoffReached(t),
           Arbitrate(batch, late, ack, t)
    PROVE  Arbitrated(batch, t)
<1> DEFINE ontime == batch \ late
           winner == Winner(ontime, ack, t)
           applied == CutoffReached(t) /\ winner \in {"drain", "cutoff"}
           hit == IF applied THEN CutoffCancels(ontime) ELSE {}
<1>0. Typed
  BY TypeParts DEF Inv
<1>1. /\ winner \in {"drain", "ack", "cancel", "grace", "cutoff"}
      /\ winner = "cancel" => cancel
      /\ winner = "grace" => t.grace = "due"
  BY DEF Winner
<1>2. /\ wake' = [wake EXCEPT !.arm = winner, !.late = late]
      /\ cause' = Record(CauseSeen(cancel), hit, "CanceledPolicy")
      /\ fired' = fired \cup hit
      /\ observed' = IF applied THEN observed \cup {"cutoff"} ELSE observed
      /\ stop' = (stop \/ applied)
      /\ time' = IF applied THEN ArmCleanup(t) ELSE t
  BY DEF Arbitrate
<1>3. hit \in SUBSET NodeCancels /\ (applied => NodeCancels \ batch \subseteq hit) /\ (~applied => hit = {})
  BY DEF CutoffCancels
<1>4. applied \in BOOLEAN
  BY DEF CutoffReached
<1> HIDE DEF winner, applied, hit
<1>5. wake'.arm = winner /\ wake'.snap = wake.snap
  BY <1>0, <1>2 DEF Typed, WakeRecord
<1>6. time'.grace = t.grace
  BY <1>2 DEF ArmCleanup, TimeRecord
<1>7. \/ observed' = observed /\ stop' = stop /\ time' = t /\ hit = {}
      \/ observed' = observed \cup {"cutoff"} /\ stop' = TRUE /\ NodeCancels \ batch \subseteq hit
  <2>1. stop \in BOOLEAN
    BY <1>0 DEF Typed
  <2> QED BY <1>2, <1>3, <1>4, <2>1
<1> QED BY <1>1, <1>2, <1>3, <1>5, <1>6, <1>7 DEF Arbitrated

\* Waking up on completions keeps the invariant.
LEMMA WakeCompletionInv == Inv /\ WakeCompletion => Inv'
<1> SUFFICES ASSUME Inv, WakeCompletion PROVE Inv'
  OBVIOUS
<1>0. /\ TypeOK /\ Typed /\ PhaseInv /\ ControlInv /\ StopInv /\ RootInv /\ CauseHonest /\ ReachInv
      /\ NodeInv /\ HealthInv /\ EvidenceInv /\ pc = "wait" /\ pc' = "act"
  BY TypeParts DEF Inv, WakeCompletion
<1>1. TypeOK'
  BY <1>0, WakeCompletionType
<1>2. PICK batch \in (SUBSET Inflight) \ {{}}, ack \in {"none", "committed", "failed"} :
          WakeCompletion!2!(batch, ack)
  BY DEF WakeCompletion
<1>3. PICK out \in [batch -> Outcomes] :
          result' = [n \in Node |-> IF n \in batch /\ st[n] = "running" THEN out[n] ELSE result[n]]
  BY <1>2
<1>4. batch \subseteq Node /\ batch # {} /\ \A n \in batch : st[n] \in {"running", "skipping"}
  <2>1. batch \subseteq Inflight /\ batch # {}
    BY <1>2
  <2> QED BY <2>1 DEF Inflight, At
<1>5. \A n \in Node : st'[n] = IF n \in batch THEN "ready" ELSE st[n]
  BY <1>2
<1>6. \A n \in Node : \/ result'[n] = result[n] /\ (n \in batch => st[n] = "skipping")
                      \/ n \in batch /\ st[n] = "running" /\ result'[n] \in Raw \ {"SkippedDependency"}
  BY <1>3, <1>4, GraphAssumption DEF Raw
<1>7. /\ wake'.arm \in {"drain", "ack", "cancel", "grace", "cutoff"}
      /\ wake'.snap = wake.snap
      /\ wake'.arm = "ack" => Active
      /\ wake'.arm = "cancel" => cancel
      /\ wake'.arm = "grace" => time'.grace = "due"
      /\ time'.grace = time.grace
      /\ \E hit \in SUBSET NodeCancels :
           /\ fired' = fired \cup hit
           /\ cause' = Record(CauseSeen(cancel), hit, "CanceledPolicy")
           /\ \/ observed' = observed /\ stop' = stop /\ time'.cleanup = time.cleanup /\ hit = {}
              \/ observed' = observed \cup {"cutoff"} /\ stop' = TRUE /\ NodeCancels \ batch \subseteq hit
  <2>1. CASE Active
    <3>1. PICK c \in {time.clock, "reached"}, late \in SUBSET batch :
              /\ late # {} => CutoffReached([time EXCEPT !.clock = c])
              /\ Arbitrate(batch, late, ack, [time EXCEPT !.clock = c])
      BY <1>2, <2>1
    <3> DEFINE t == [time EXCEPT !.clock = c]
    <3>2. t \in TimeRecord /\ t.grace = time.grace /\ t.cleanup = time.cleanup
      BY <1>0 DEF Typed, TimeRecord
    <3> HIDE DEF t
    <3>3. late \subseteq batch /\ (late # {} => CutoffReached(t)) /\ Arbitrate(batch, late, ack, t)
      BY <3>1 DEF t
    <3>4. Arbitrated(batch, t)
      BY <1>4, <3>2, <3>3, ArbitrateEffect
    <3> QED BY <2>1, <3>2, <3>4 DEF Arbitrated
  <2>2. CASE ~Active
    <3>1. wake'.arm = "drain" /\ wake'.snap = wake.snap
      BY <1>0, <1>2, <2>2 DEF Typed, WakeRecord
    <3>2. cause' = CauseSeen(cancel) /\ UNCHANGED <<fired, observed, stop, time>>
      BY <1>2, <2>2
    <3>3. CauseSeen(cancel) \in [Node -> Cause]
      BY <1>0, SeenType DEF Typed
    <3>4. Record(CauseSeen(cancel), {}, "CanceledPolicy") = CauseSeen(cancel)
      BY <3>3 DEF Record
    <3> QED BY <3>1, <3>2, <3>4
  <2> QED BY <2>1, <2>2
<1>8. PICK hit \in SUBSET NodeCancels :
           /\ fired' = fired \cup hit
           /\ cause' = Record(CauseSeen(cancel), hit, "CanceledPolicy")
           /\ \/ observed' = observed /\ stop' = stop /\ time'.cleanup = time.cleanup /\ hit = {}
              \/ observed' = observed \cup {"cutoff"} /\ stop' = TRUE /\ NodeCancels \ batch \subseteq hit
  BY <1>7
<1>9. UNCHANGED <<cfg, cancel, external, terminalized, ctl, evidence, budget, degraded>>
      /\ root' = RootSeen(cancel)
  BY <1>2 DEF WakeCompletion
<1>10. NodeInv'
  <2>1. \A n \in Node : Kept(n)'
    BY <1>0, <1>4, <1>5, <1>6 DEF NodeInv, Kept, Raw
  <2>2. \A n \in Node : (st'[n] = "idle" <=> st[n] = "idle") /\ (st'[n] = "done" <=> st[n] = "done")
    BY <1>4, <1>5
  <2> QED BY <1>8, <2>1, <2>2, NodesMoved
<1>11. PhaseInv'
  BY <1>0, <1>4, <1>5, <1>7, <1>9 DEF PhaseInv, ArmInv, None, Active
<1>12. /\ bar'.pending => bar.pending
       /\ bar.pending \/ bar.ack # "none" => bar'.pending \/ bar'.ack # "none"
  BY <1>0, <1>2 DEF Typed, BarrierRecord
<1>13. ControlInv'
  BY <1>0, <1>7, <1>8, <1>9, <1>12 DEF ControlInv
<1>14. StopInv'
  BY <1>0, <1>8, <1>9 DEF StopInv
<1>15. NodeCancels' \subseteq NodeCancels
  <2>1. \A n \in Node : n \in NodeCancels' => n \in NodeCancels
    BY <1>0, <1>4, <1>5, <1>6 DEF NodeCancels, At, NodeInv, Kept
  <2> QED BY <2>1 DEF NodeCancels, At
<1>16. \A n \in Node : cause'[n] = IF n \in hit /\ CauseSeen(cancel)[n] = "none" THEN "CanceledPolicy"
                                   ELSE CauseSeen(cancel)[n]
  BY <1>8, RecordIs
<1>17. RootInv'
  BY <1>0, <1>9, <1>15, <1>16, SeenHonest, TokenNodes DEF RootInv
<1>18. CauseHonest'
  <2>1. Blamed => Blamed'
    BY <1>8, <1>9 DEF Blamed
  <2>2. hit # {} => Blamed'
    BY <1>8 DEF Blamed
  <2>3. \A n \in Node : \/ cause'[n] = cause[n]
                        \/ cause'[n] = "CanceledWorkflow" /\ external'
                        \/ cause'[n] = "CanceledPolicy" /\ Blamed'
    BY <1>9, <1>16, <2>2, SeenHonest
  <2>4. \A n \in Node : \/ result'[n] = result[n]
                        \/ result'[n] \notin {"CanceledWorkflow", "CanceledPolicy"}
    BY <1>6 DEF Raw
  <2> QED BY <1>0, <1>9, <2>1, <2>3, <2>4, HonestStep
<1>19. ReachInv'
  <2>1. \A n \in Node : st'[n] = "running" => st[n] = "running" /\ n \notin batch /\ n \in NodeCancels
    BY <1>5, TokenNodes
  <2>2. observed' # observed => \A n \in Node : st'[n] = "running" => n \in fired'
    BY <1>8, <2>1
  <2>3. PolicyActed' => PolicyActed \/ observed' # observed
    BY <1>9 DEF PolicyActed
  <2>4. PolicyActed => PolicyActed'
    BY <1>8, <1>9 DEF PolicyActed
  <2>5. time'.cleanup # "none" => time.cleanup # "none" \/ PolicyActed'
    BY <1>8 DEF PolicyActed
  <2> QED BY <1>0, <1>8, <1>9, <2>1, <2>2, <2>3, <2>4, <2>5 DEF ReachInv
<1>20. HealthInv'
  <2>1. \A n \in Node : st[n] # "idle" /\ Sound(n) => Sound(n)'
    BY <1>4, <1>6, SoundKept
  <2>2. \A n \in Node : result'[n] = "CompletedDegraded" => result[n] = "CompletedDegraded"
    BY <1>6 DEF Raw
  <2>3. \A n \in Node : st[n] = "running" => result[n] = "none"
    BY <1>0 DEF NodeInv, Kept
  <2>4. cfg' = cfg /\ degraded' = degraded /\ pc # "error"
    BY <1>0, <1>9
  <2>5. SUFFICES ASSUME Frozen PROVE StrictSound' /\ \A n \in Node : Healthy(n)'
    BY <2>4 DEF HealthInv, Frozen
  <2>6. StrictSound'
    BY <1>0, <2>2, <2>4, <2>5 DEF HealthInv, StrictSound
  <2>7. ASSUME NEW n \in Node,
               st'[n] \in {"running", "ready"}, n \notin degraded, result'[n] # "SkippedDependency"
        PROVE  Sound(n)'
    <3>1. st[n] = "running"
      BY <1>0, <1>4, <1>5, <1>6, <2>7 DEF PhaseInv, None, NodeInv, Kept
    <3>2. Sound(n)
      BY <1>0, <2>3, <2>4, <2>5, <2>7, <3>1 DEF HealthInv, Healthy
    <3> QED BY <2>1, <3>1, <3>2
  <2>8. ASSUME NEW n \in Node,
               st'[n] \in {"processed", "retained", "done"}, result'[n] = "Completed"
        PROVE  Sound(n)'
    <3>1. st[n] = st'[n] /\ result[n] = "Completed"
      BY <1>4, <1>5, <1>6, <2>8
    <3>2. Sound(n)
      BY <1>0, <2>5, <2>8, <3>1 DEF HealthInv, Healthy
    <3> QED BY <2>1, <2>8, <3>1, <3>2
  <2> QED BY <2>4, <2>6, <2>7, <2>8 DEF Healthy
<1>21. EvidenceInv'
  BY <1>0, <1>5, <1>9 DEF EvidenceInv, Frozen
<1> QED BY <1>1, <1>10, <1>11, <1>13, <1>14, <1>17, <1>18, <1>19, <1>20, <1>21 DEF Inv

\* The terminal a completion becomes.
Verdict(n) == IF Disposition(n) = "Canceled" THEN CanceledPrimary(n) ELSE Disposition(n)

\* It is a terminal; a healthy one was returned by a node that is not marked; and a cancellation
\* is blamed on the node's cause, on the workflow, or on the node.
LEMMA VerdictIs ==
    ASSUME Inv, NEW n \in Node, st[n] = "ready", result[n] # "Err"
    PROVE  /\ Verdict(n) \in Terminals
           /\ Verdict(n) = "Completed" => result[n] = "Completed" /\ n \notin degraded
           /\ Verdict(n) = "CompletedDegraded" => n \in degraded
           /\ \/ Verdict(n) = cause[n]
              \/ Verdict(n) \notin {"CanceledWorkflow", "CanceledPolicy"}
              \/ Verdict(n) = "CanceledWorkflow" /\ external
<1>1. result[n] \in Raw /\ cause[n] \in Cause
  BY TypeParts DEF Inv, NodeInv, Kept, Typed
<1>2. /\ Disposition(n) \in {"Canceled", "Failed", "Completed", "CompletedDegraded", "SkippedDependency"}
      /\ Disposition(n) = "Completed" => result[n] = "Completed" /\ n \notin degraded
      /\ Disposition(n) = "CompletedDegraded" => n \in degraded
  <2>1. CASE n \in wake.late
    BY <2>1 DEF Disposition
  <2>2. CASE n \notin wake.late /\ result[n] = "Refused"
    BY <2>2 DEF Disposition
  <2>3. CASE n \notin wake.late /\ result[n] = "Completed" /\ n \in degraded
    BY <2>3 DEF Disposition
  <2>4. CASE n \notin wake.late /\ result[n] # "Refused" /\ ~(result[n] = "Completed" /\ n \in degraded)
    <3>1. Disposition(n) = result[n]
      BY <2>4 DEF Disposition
    <3> QED BY <1>1, <2>4, <3>1 DEF Raw
  <2> QED BY <2>1, <2>2, <2>3, <2>4
<1>3. /\ CanceledPrimary(n) \in {"CanceledNode", "CanceledPolicy", "CanceledWorkflow"}
      /\ \/ CanceledPrimary(n) = cause[n]
         \/ CanceledPrimary(n) = "CanceledNode"
         \/ CanceledPrimary(n) = "CanceledWorkflow" /\ external
  BY <1>1, SeenHonest DEF CanceledPrimary, Cause
<1> QED BY <1>2, <1>3 DEF Verdict, Terminals

\* Processing a completion keeps the invariant.
LEMMA ProcessNodeInv == Inv /\ ProcessNode => Inv'
<1> SUFFICES ASSUME Inv, ProcessNode PROVE Inv'
  OBVIOUS
<1>0. /\ TypeOK /\ Typed /\ PhaseInv /\ ControlInv /\ StopInv /\ RootInv /\ CauseHonest /\ ReachInv
      /\ NodeInv /\ HealthInv /\ EvidenceInv /\ pc = "process" /\ At("ready") # {}
  BY TypeParts DEF Inv, ProcessNode
<1>1. TypeOK'
  BY <1>0, ProcessNodeType
<1>2. PICK n \in Node : n = Min(At("ready")) /\ st[n] = "ready"
  BY <1>0, FirstReady
<1>3. /\ degraded' = degraded \ {n} /\ fired' = fired \ {n} /\ terminalized' = terminalized \ {n}
      /\ wake' = [wake EXCEPT !.late = @ \ {n}]
      /\ UNCHANGED <<cfg, cancel, external, ctl, bar, evidence, observed, time>>
  BY <1>2 DEF ProcessNode
<1>4. result[n] = "Err" => pc' = "error" /\ UNCHANGED <<st, result, root, cause, stop, budget>>
  BY <1>2 DEF ProcessNode
<1>5. result[n] # "Err" =>
        /\ budget' = (budget \/ result[n] = "Refused")
        /\ stop' = (stop \/ budget')
        /\ root' \in {root, RootSeen(cancel)}
        /\ cause' = IF Disposition(n) = "Canceled" /\ cancel /\ root = "none"
                    THEN Record(cause, NodeCancels \ {n}, "CanceledWorkflow") ELSE cause
        /\ result' = [result EXCEPT ![n] = Verdict(n)]
        /\ st' = [st EXCEPT ![n] = "processed"]
        /\ pc' = "process"
  BY <1>0, <1>2 DEF ProcessNode, Verdict
<1>6. wake'.snap = wake.snap
  BY <1>0, <1>3 DEF Typed, WakeRecord
<1>7. /\ \A m \in Node \ {n} : st'[m] = st[m] /\ result'[m] = result[m]
      /\ \/ st'[n] = "ready" /\ result'[n] = result[n] /\ pc' = "error"
         \/ st'[n] = "processed" /\ result'[n] = Verdict(n) /\ result[n] # "Err" /\ pc' = "process"
  BY <1>0, <1>2, <1>4, <1>5 DEF Typed
<1>8. result[n] # "Err" =>
        /\ Verdict(n) \in Terminals
        /\ Verdict(n) = "Completed" => result[n] = "Completed" /\ n \notin degraded
        /\ Verdict(n) = "CompletedDegraded" => n \in degraded
        /\ \/ Verdict(n) = cause[n]
           \/ Verdict(n) \notin {"CanceledWorkflow", "CanceledPolicy"}
           \/ Verdict(n) = "CanceledWorkflow" /\ external
  BY <1>2, VerdictIs
<1>9. (stop => stop') /\ (budget' => stop') /\ (stop' => stop \/ budget') /\ (budget => budget')
  <2>1. budget => stop
    BY <1>0 DEF StopInv
  <2>2. stop \in BOOLEAN /\ budget \in BOOLEAN
    BY <1>0 DEF Typed
  <2>3. CASE result[n] = "Err"
    BY <1>4, <2>1, <2>3
  <2>4. CASE result[n] # "Err"
    BY <1>5, <2>1, <2>2, <2>4
  <2> QED BY <2>3, <2>4
<1>10. NodeInv'
  <2>1. \A m \in Node : Kept(m)'
    BY <1>0, <1>2, <1>7, <1>8 DEF NodeInv, Kept, Raw
  <2>2. \A m \in Node : (st'[m] = "idle" <=> st[m] = "idle") /\ (st'[m] = "done" <=> st[m] = "done")
    BY <1>2, <1>7
  <2> QED BY <1>9, <2>1, <2>2, NodesMoved
<1>11. PhaseInv'
  BY <1>0, <1>3, <1>6, <1>7 DEF PhaseInv, ArmInv
<1>12. ControlInv' /\ StopInv'
  BY <1>0, <1>3, <1>7, <1>9 DEF ControlInv, StopInv
<1>13. /\ root' \in {root, RootSeen(cancel)}
       /\ \A m \in Node : \/ cause'[m] = cause[m]
                          \/ cause[m] = "none" /\ cause'[m] = "CanceledWorkflow" /\ external'
  <2>1. CASE result[n] = "Err"
    BY <1>4, <2>1
  <2>2. CASE result[n] # "Err" /\ Disposition(n) = "Canceled" /\ cancel /\ root = "none"
    <3>1. external
      BY <1>0, <2>2 DEF RootInv
    <3>2. cause' = Record(cause, NodeCancels \ {n}, "CanceledWorkflow")
      BY <1>5, <2>2
    <3>3. \A m \in Node : \/ cause'[m] = cause[m]
                          \/ cause[m] = "none" /\ cause'[m] = "CanceledWorkflow"
      BY <3>2, RecordIs
    <3> QED BY <1>3, <1>5, <2>2, <3>1, <3>3
  <2>3. CASE result[n] # "Err" /\ ~(Disposition(n) = "Canceled" /\ cancel /\ root = "none")
    BY <1>5, <2>3
  <2> QED BY <2>1, <2>2, <2>3
<1>14. NodeCancels' \subseteq NodeCancels
  <2>1. \A m \in Node : m \in NodeCancels' => m \in NodeCancels
    BY <1>2, <1>7 DEF NodeCancels, At
  <2> QED BY <2>1 DEF NodeCancels, At
<1>15. RootInv'
  BY <1>0, <1>3, <1>13, <1>14, SeenHonest, TokenNodes DEF RootInv
<1>16. CauseHonest'
  <2>1. Blamed' = Blamed
    BY <1>3 DEF Blamed
  <2>2. \A m \in Node : \/ result'[m] \in {result[m], cause[m]}
                        \/ result'[m] \notin {"CanceledWorkflow", "CanceledPolicy"}
                        \/ result'[m] = "CanceledWorkflow" /\ external'
    BY <1>2, <1>3, <1>7, <1>8
  <2> QED BY <1>0, <1>3, <1>13, <2>1, <2>2, HonestStep
<1>17. ReachInv'
  <2>1. PolicyActed' = PolicyActed
    BY <1>3 DEF PolicyActed
  <2>2. \A m \in Node : st'[m] = "running" => st[m] = "running" /\ m # n
    BY <1>2, <1>7
  <2> QED BY <1>0, <1>3, <2>1, <2>2 DEF ReachInv
<1>18. HealthInv'
  <2>1. SUFFICES ASSUME Frozen PROVE StrictSound' /\ \A m \in Node : Healthy(m)'
    BY <1>3 DEF HealthInv, Frozen
  <2>2. StrictSound /\ \A m \in Node : Healthy(m)
    BY <1>0, <2>1 DEF HealthInv
  <2>3. \A m \in Node : st[m] # "idle" /\ Sound(m) => Sound(m)'
    BY <1>2, <1>7, SoundKept
  <2>4. StrictSound'
    BY <1>3, <1>7, <1>8, <2>2 DEF StrictSound
  <2>5. Healthy(n)'
    BY <1>0, <1>2, <1>7, <1>8, <2>2, <2>3 DEF Healthy, Terminals
  <2>6. \A m \in Node \ {n} : Healthy(m)'
    BY <1>0, <1>3, <1>7, <2>2, <2>3 DEF Healthy
  <2> QED BY <2>4, <2>5, <2>6
<1>19. EvidenceInv'
  BY <1>0, <1>2, <1>3, <1>7 DEF EvidenceInv, Frozen
<1> QED BY <1>1, <1>10, <1>11, <1>12, <1>15, <1>16, <1>17, <1>18, <1>19 DEF Inv

\* Nodes that were processed are retained, and no others move.
Retained == /\ \A m \in Node : st'[m] = IF st[m] = "processed" THEN "retained" ELSE st[m]
            /\ result' = result

\* Retaining the batch keeps what is said of the nodes.
LEMMA RetainNodes ==
    ASSUME Inv, Retained, stop => stop', cfg' = cfg, degraded' = degraded, pc # "error"
    PROVE  /\ NodeInv' /\ HealthInv' /\ NodeCancels' = NodeCancels
           /\ \A m \in Node : st'[m] = "running" => st[m] = "running"
<1>1. NodeInv'
  <2>1. \A m \in Node : Kept(m)'
    BY DEF Inv, NodeInv, Kept, Retained
  <2>2. \A m \in Node : (st'[m] = "idle" <=> st[m] = "idle") /\ (st'[m] = "done" <=> st[m] = "done")
    BY DEF Retained
  <2> QED BY <2>1, <2>2, NodesMoved
<1>2. HealthInv'
  BY DEF Inv, Retained, HealthInv, StrictSound, Healthy, Sound, Frozen
<1>3. NodeCancels' = NodeCancels
  <2>1. \A m \in Node : m \in NodeCancels' <=> m \in NodeCancels
    BY DEF Retained, NodeCancels, At
  <2> QED BY <2>1 DEF NodeCancels, At
<1> QED BY <1>1, <1>2, <1>3 DEF Retained

\* What handing a batch to the controller does to it; n is the new trigger, if there is one.
Finalized(n) ==
    /\ n # NoNode =>
          /\ n \in Node /\ Frozen /\ ctl.trigger = NoNode
          /\ ctl'.trigger = n /\ ctl'.pending /\ ctl'.stopped /\ stop'
    /\ n = NoNode =>
          /\ ctl'.trigger = ctl.trigger /\ ctl'.pending = ctl.pending
          /\ ctl'.stopped => ctl.stopped \/ cancel
          /\ ctl.stopped => ctl'.stopped
    /\ ctl'.armed = ctl.armed /\ ctl'.expired = ctl.expired /\ ctl'.timer = ctl.timer
    /\ stop => stop'
    /\ stop' => stop \/ ctl'.stopped
    /\ bar'.ack = bar.ack /\ ~wake'.snap
    /\ \/ n # NoNode /\ bar'.pending /\ pc' = "top" /\ Retained
       \/ n # NoNode /\ ~Active /\ bar' = bar /\ pc' = "inline" /\ st' = st /\ result' = result
       \/ n = NoNode /\ bar' = bar /\ pc' \in {"top", "publish"} /\ Retained
    /\ \A m \in Node : /\ evidence[m] # "none" => evidence'[m] # "none"
                       /\ Frozen /\ st[m] = "processed" => evidence'[m] # "none" \/ m = n
    /\ UNCHANGED <<cfg, fired, terminalized, cancel, external, root, cause, observed, time, budget,
                   degraded>>

\* The controller never finds a barrier it does not know of.
LEMMA FinalizeEffect == ASSUME Inv, Finalize PROVE \E n : Finalized(n)
<1> DEFINE governed == Frozen /\ ~budget /\ At("processed") # {}
<1>0. Typed /\ PhaseInv /\ ControlInv
  BY TypeParts DEF Inv
<1>1. PICK n : n = IF governed THEN Trigger(At("processed")) ELSE NoNode
  OBVIOUS
<1>2. n # NoNode => /\ n \in Node /\ st[n] = "processed" /\ Frozen /\ governed
                    /\ ctl.trigger = NoNode
  <2>1. At("processed") \in SUBSET Node
    BY DEF At
  <2> QED BY <1>1, <2>1, TriggerMember DEF At
<1>3. /\ ctl' = IF n # NoNode THEN [ctl EXCEPT !.trigger = n, !.pending = TRUE, !.stopped = TRUE]
                ELSE [ctl EXCEPT !.stopped = @ \/ (governed /\ wake.snap)]
      /\ stop' = (stop \/ (governed /\ ctl'.stopped))
      /\ evidence' = [m \in Node |-> IF m \in At("processed") /\ Frozen /\ ~(Active /\ m = n) THEN "terminal"
                                     ELSE evidence[m]]
      /\ wake' = [wake EXCEPT !.snap = FALSE]
      /\ UNCHANGED <<cfg, result, fired, terminalized, cancel, external, root, cause, observed, time,
                     budget, degraded>>
  BY <1>1 DEF Finalize
<1>4. IF n # NoNode /\ Active
      THEN IF bar.pending THEN pc' = "broken" /\ UNCHANGED <<bar, st>>
           ELSE /\ bar' = [bar EXCEPT !.pending = TRUE, !.held = n]
                /\ Retain(TRUE)
      ELSE IF n # NoNode
           THEN pc' = "inline" /\ UNCHANGED <<bar, st>>
           ELSE Retain(bar.pending) /\ UNCHANGED bar
  BY <1>1 DEF Finalize
<1>5. governed \in BOOLEAN
  OBVIOUS
<1> HIDE DEF governed
<1>6. n # NoNode => /\ ctl'.trigger = n /\ ctl'.pending /\ ctl'.stopped /\ stop'
                    /\ ctl'.armed = ctl.armed /\ ctl'.expired = ctl.expired /\ ctl'.timer = ctl.timer
  BY <1>0, <1>2, <1>3 DEF Typed, ControlRecord
<1>7. n = NoNode => /\ ctl'.trigger = ctl.trigger /\ ctl'.pending = ctl.pending
                    /\ ctl'.stopped = (ctl.stopped \/ (governed /\ wake.snap))
                    /\ ctl'.armed = ctl.armed /\ ctl'.expired = ctl.expired /\ ctl'.timer = ctl.timer
  BY <1>0, <1>3 DEF Typed, ControlRecord
<1>8. wake.snap => cancel
  BY <1>0 DEF PhaseInv
<1>9. ~wake'.snap
  BY <1>0, <1>3 DEF Typed, WakeRecord
<1>10. (stop => stop') /\ (stop' => stop \/ ctl'.stopped)
  BY <1>0, <1>3, <1>5 DEF Typed
<1>11. \A m \in Node : /\ evidence[m] # "none" => evidence'[m] # "none"
                       /\ Frozen /\ st[m] = "processed" => evidence'[m] # "none" \/ m = n
  BY <1>3 DEF At
<1>12. \A b : Retain(b) => Retained
  BY <1>3 DEF Retain, Retained
<1>13. /\ bar'.ack = bar.ack
       /\ \/ n # NoNode /\ bar'.pending /\ pc' = "top" /\ Retained
          \/ n # NoNode /\ ~Active /\ bar' = bar /\ pc' = "inline" /\ st' = st /\ result' = result
          \/ n = NoNode /\ bar' = bar /\ pc' \in {"top", "publish"} /\ Retained
  <2>1. CASE n # NoNode /\ Active
    <3>1. ~bar.pending
      BY <1>0, <1>2, <2>1 DEF ControlInv
    <3>2. bar' = [bar EXCEPT !.pending = TRUE, !.held = n] /\ Retain(TRUE)
      BY <1>4, <2>1, <3>1
    <3>3. bar'.pending /\ bar'.ack = bar.ack
      BY <1>0, <3>2 DEF Typed, BarrierRecord
    <3> QED BY <1>12, <2>1, <3>2, <3>3 DEF Retain
  <2>2. CASE n # NoNode /\ ~Active
    BY <1>3, <1>4, <2>2
  <2>3. CASE n = NoNode
    <3>1. Retain(bar.pending) /\ bar' = bar
      BY <1>4, <2>3
    <3> QED BY <1>12, <2>3, <3>1 DEF Retain
  <2> QED BY <2>1, <2>2, <2>3
<1> QED BY <1>2, <1>3, <1>6, <1>7, <1>8, <1>9, <1>10, <1>11, <1>13 DEF Finalized

\* Handing the batch to the controller keeps the invariant.
LEMMA FinalizeInv == Inv /\ Finalize => Inv'
<1> SUFFICES ASSUME Inv, Finalize PROVE Inv'
  OBVIOUS
<1>0. /\ TypeOK /\ Typed /\ PhaseInv /\ ControlInv /\ StopInv /\ RootInv /\ CauseHonest /\ ReachInv
      /\ NodeInv /\ HealthInv /\ EvidenceInv /\ pc = "process" /\ None("ready")
  BY TypeParts, NoneAt DEF Inv, Finalize
<1>1. TypeOK'
  BY <1>0, FinalizeType
<1>2. PICK n : Finalized(n)
  BY FinalizeEffect
<1>3. /\ NodeInv' /\ HealthInv' /\ NodeCancels' = NodeCancels
      /\ \A m \in Node : st'[m] = "running" => st[m] = "running"
  <2>1. CASE Retained
    BY <1>0, <1>2, <2>1, RetainNodes DEF Finalized
  <2>2. CASE st' = st /\ result' = result
    <3>1. NodeInv'
      BY <1>0, <1>2, <2>2 DEF Finalized, NodeInv, Kept, Started, Behind
    <3>2. HealthInv'
      BY <1>0, <1>2, <2>2 DEF Finalized, HealthInv, StrictSound, Healthy, Sound, Frozen
    <3> QED BY <2>2, <3>1, <3>2 DEF NodeCancels, At
  <2> QED BY <1>2, <2>1, <2>2 DEF Finalized
<1>4. PhaseInv'
  BY <1>0, <1>2 DEF Finalized, Retained, PhaseInv, None, ArmInv
<1>5. ControlInv'
  BY <1>0, <1>2 DEF Finalized, ControlInv
<1>6. StopInv'
  <2>1. /\ stop => stop'
        /\ stop' => stop \/ ctl'.stopped
        /\ UNCHANGED <<cancel, observed, budget>>
    BY <1>2 DEF Finalized
  <2>2. ctl.stopped => ctl'.stopped
    BY <1>2 DEF Finalized
  <2> QED BY <1>0, <2>1, <2>2 DEF StopInv
<1>7. RootInv'
  BY <1>0, <1>2, <1>3 DEF Finalized, RootInv
<1>8. CauseHonest'
  <2>1. Blamed => Blamed'
    BY <1>2 DEF Blamed, Finalized
  <2>2. result' = result /\ cause' = cause /\ external' = external
    BY <1>2 DEF Finalized, Retained
  <2> QED BY <1>0, <2>1, <2>2, HonestStep
<1>9. ReachInv'
  <2>1. PolicyActed' = PolicyActed
    BY <1>2 DEF PolicyActed, Finalized
  <2> QED BY <1>0, <1>2, <1>3, <2>1 DEF ReachInv, Finalized
<1>10. EvidenceInv'
  <2>1. NoNode \notin Node
    BY GraphAssumption
  <2> QED BY <1>0, <1>2, <2>1 DEF Finalized, Retained, EvidenceInv, Frozen, PhaseInv, None
<1> QED BY <1>1, <1>3, <1>4, <1>5, <1>6, <1>7, <1>8, <1>9, <1>10 DEF Inv

\* The barrier awaited in place keeps the invariant.
LEMMA InlineBarrierInv == Inv /\ InlineBarrier => Inv'
<1> SUFFICES ASSUME Inv, InlineBarrier PROVE Inv'
  OBVIOUS
<1>0. /\ TypeOK /\ Typed /\ PhaseInv /\ ControlInv /\ StopInv /\ RootInv /\ CauseHonest /\ ReachInv
      /\ NodeInv /\ HealthInv /\ EvidenceInv /\ pc = "inline"
  BY TypeParts DEF Inv, InlineBarrier
<1>1. TypeOK'
  BY <1>0, InlineBarrierType
<1>2. PICK r \in {"committed", "failed"} : Perform(AckAction(r, cancel))
  BY DEF InlineBarrier
<1>3. PICK action : action = AckAction(r, cancel)
  OBVIOUS
<1>4. /\ pc' = "publish" /\ Retained
      /\ UNCHANGED <<cfg, result, terminalized, external, bar, stop, observed, time, budget,
                     degraded, wake>>
  BY DEF InlineBarrier, Retain, Retained
<1>5. \A m \in Node : evidence[m] # "none" => evidence'[m] # "none"
  BY <1>0 DEF InlineBarrier, Typed
<1>6. /\ NodeInv' /\ HealthInv' /\ NodeCancels' = NodeCancels
      /\ \A m \in Node : st'[m] = "running" => st[m] = "running"
  BY <1>0, <1>4, RetainNodes
<1>7. /\ ctl'.trigger = ctl.trigger /\ ctl'.stopped = ctl.stopped
      /\ ctl'.expired = ctl.expired /\ ~ctl'.pending
      /\ ctl'.armed = (ctl.armed \/ action = "grace")
      /\ ctl'.timer = IF action = "grace" /\ Active THEN "armed" ELSE ctl.timer
  BY <1>2, <1>3, AcknowledgedIs
<1>8. cancel' = (cancel \/ action = "global")
  BY <1>2, <1>3 DEF Perform
<1>9. action # "none" => ctl.pending
  BY <1>0, <1>3, AckIs DEF Typed
<1>10. RootInv' /\ CauseHonest' /\ ReachInv'
  BY <1>2, <1>4, <1>6, PerformInv
<1>11. PhaseInv'
  BY <1>0, <1>4, <1>8 DEF PhaseInv, ArmInv, None, Retained
<1>12. ControlInv'
  BY <1>0, <1>4, <1>7, <1>8, <1>9 DEF ControlInv
<1>13. StopInv'
  BY <1>0, <1>4, <1>7, <1>8 DEF StopInv
<1>14. EvidenceInv'
  BY <1>0, <1>4, <1>5, <1>7 DEF EvidenceInv, Frozen, Retained
<1> QED BY <1>1, <1>6, <1>10, <1>11, <1>12, <1>13, <1>14 DEF Inv

\* Before anything stops the run, a graph of idle and published nodes has no idle one: the idle
\* node with the least rank has its inputs published.
LEMMA IdleStopped ==
    ASSUME Inv, \A n \in Node : st[n] \in {"idle", "done"}, NEW z \in Node, st[z] = "idle"
    PROVE  stop
<1>1. PICK rank \in [Node -> 1 .. Cardinality(Node)] :
          \A n \in Node : \A m \in Inputs[n] : rank[m] < rank[n]
  BY GraphAssumption
<1> DEFINE ranks == {rank[n] : n \in At("idle")}
<1>2. \A n \in Node : rank[n] \in Nat
  <2>1. Cardinality(Node) \in Nat
    BY GraphAssumption, FS_CardinalityType
  <2> QED BY <1>1, <2>1
<1>3. ranks \subseteq Nat /\ ranks # {}
  BY <1>2 DEF At
<1>4. PICK x \in ranks : \A y \in ranks : x <= y
  BY <1>3, LeastExists
<1>5. PICK n \in Node : st[n] = "idle" /\ x = rank[n]
  BY <1>4 DEF At
<1>6. ASSUME NEW m \in Inputs[n] PROVE st[m] = "done"
  <2>1. m \in Node
    BY <1>6, GraphAssumption
  <2>2. rank[m] < rank[n]
    BY <1>1
  <2>3. st[m] = "idle" => rank[n] <= rank[m]
    BY <1>4, <1>5, <2>1 DEF At
  <2> QED BY <1>2, <2>1, <2>2, <2>3
<1> QED BY <1>5, <1>6 DEF Inv, NodeInv, Started, Behind

\* What publishing does to the nodes.
LEMMA ScheduleEffect ==
    ASSUME Inv, Publish
    PROVE  \E new \in SUBSET Node :
             /\ \A n \in new : st[n] = "idle" /\ ~stop'
             /\ \A n \in Node : st[n] = "idle" /\ n \notin new =>
                   stop' \/ \E m \in Inputs[n] : st[m] \notin {"done", "retained"}
             /\ \A n \in new : \A m \in Inputs[n] : st[m] \in {"done", "retained"}
             /\ \A n \in new : IF Skipped(n) THEN st'[n] = "skipping" /\ result'[n] = "SkippedDependency"
                               ELSE st'[n] = "running" /\ result'[n] = result[n]
             /\ \A n \in Node \ new : /\ st'[n] = IF st[n] \in {"done", "retained"} THEN "done" ELSE st[n]
                                      /\ result'[n] = result[n]
             /\ degraded' = degraded \cup {n \in new : ~Skipped(n) /\ Marked(n)}
<1> DEFINE done == Done \cup At("retained")
           new == Schedulable(stop', done)
<1>1. /\ st' = [n \in Node |-> IF n \in new THEN IF Skipped(n) THEN "skipping" ELSE "running"
                               ELSE IF n \in done THEN "done" ELSE st[n]]
      /\ result' = [n \in Node |-> IF n \in new /\ Skipped(n) THEN "SkippedDependency" ELSE result[n]]
      /\ degraded' = degraded \cup {n \in new : ~Skipped(n) /\ Marked(n)}
  BY DEF Publish, Schedule
<1>2. \A n \in Node : n \in done <=> st[n] \in {"done", "retained"}
  BY DEF Done, At
<1>3. \A n \in Node : Inputs[n] \subseteq Node
  BY GraphAssumption
<1>4. stop' \in BOOLEAN
  BY TypeParts, PublishType DEF Inv, Typed
<1>5. /\ new \in SUBSET Node
      /\ \A n \in new : st[n] = "idle" /\ ~stop' /\ Inputs[n] \subseteq done
      /\ \A n \in Node : st[n] = "idle" /\ n \notin new => stop' \/ ~(Inputs[n] \subseteq done)
  BY <1>4 DEF Schedulable, At
<1> HIDE DEF new, done
<1>6. /\ \A n \in Node : st[n] = "idle" /\ n \notin new =>
            stop' \/ \E m \in Inputs[n] : st[m] \notin {"done", "retained"}
      /\ \A n \in new : \A m \in Inputs[n] : st[m] \in {"done", "retained"}
  BY <1>2, <1>3, <1>5
<1>7. \A n \in new : IF Skipped(n) THEN st'[n] = "skipping" /\ result'[n] = "SkippedDependency"
                     ELSE st'[n] = "running" /\ result'[n] = result[n]
  BY <1>1, <1>5
<1>8. \A n \in Node \ new : /\ st'[n] = IF st[n] \in {"done", "retained"} THEN "done" ELSE st[n]
                            /\ result'[n] = result[n]
  BY <1>1, <1>2
<1> QED BY <1>1, <1>5, <1>6, <1>7, <1>8

\* Publishing what is retained keeps the invariant.
LEMMA PublishInv == Inv /\ Publish => Inv'
<1> SUFFICES ASSUME Inv, Publish PROVE Inv'
  OBVIOUS
<1>0. /\ TypeOK /\ Typed /\ PhaseInv /\ ControlInv /\ StopInv /\ RootInv /\ CauseHonest /\ ReachInv
      /\ NodeInv /\ HealthInv /\ EvidenceInv /\ pc = "publish" /\ pc' = "top"
  BY TypeParts DEF Inv, Publish
<1>1. TypeOK'
  BY <1>0, PublishType
<1>2. PICK new \in SUBSET Node :
             /\ \A n \in new : st[n] = "idle" /\ ~stop'
             /\ \A n \in Node : st[n] = "idle" /\ n \notin new =>
                   stop' \/ \E m \in Inputs[n] : st[m] \notin {"done", "retained"}
             /\ \A n \in new : \A m \in Inputs[n] : st[m] \in {"done", "retained"}
             /\ \A n \in new : IF Skipped(n) THEN st'[n] = "skipping" /\ result'[n] = "SkippedDependency"
                               ELSE st'[n] = "running" /\ result'[n] = result[n]
             /\ \A n \in Node \ new : /\ st'[n] = IF st[n] \in {"done", "retained"} THEN "done" ELSE st[n]
                                      /\ result'[n] = result[n]
             /\ degraded' = degraded \cup {n \in new : ~Skipped(n) /\ Marked(n)}
  BY ScheduleEffect
<1>3. /\ root' = RootSeen(cancel) /\ cause' = CauseSeen(cancel) /\ stop' = (stop \/ cancel)
      /\ UNCHANGED <<cfg, fired, terminalized, cancel, external, ctl, bar, evidence, observed, time,
                     budget, wake>>
  BY DEF Publish
<1>4. stop \in BOOLEAN /\ cancel \in BOOLEAN /\ (new # {} => ~stop /\ ~cancel)
  BY <1>0, <1>2, <1>3 DEF Typed
<1>5. \A n \in Node : Inputs[n] \subseteq Node
  BY GraphAssumption
<1>6. \A m \in Node : /\ st'[m] = "done" <=> st[m] \in {"done", "retained"}
                      /\ st[m] \in {"done", "retained"} => result'[m] = result[m] /\ m \notin new
  BY <1>2
<1>7. NodeInv'
  <2>1. ASSUME NEW n \in Node PROVE Kept(n)'
    BY <1>0, <1>2 DEF NodeInv, Kept, Terminals
  <2>2. ASSUME NEW n \in Node, st'[n] # "idle" PROVE Behind(n)'
    <3>1. CASE n \in new
      BY <1>2, <1>5, <1>6, <3>1 DEF Behind
    <3>2. CASE n \notin new
      BY <1>0, <1>2, <1>5, <1>6, <2>2, <3>2 DEF NodeInv, Started, Behind
    <3> QED BY <3>1, <3>2
  <2>3. ASSUME NEW n \in Node, st'[n] = "idle", Behind(n)' PROVE stop'
    BY <1>2, <1>5, <1>6, <2>3 DEF Behind
  <2> QED BY <2>1, <2>2, <2>3 DEF NodeInv, Started
<1>8. PhaseInv'
  BY <1>0, <1>2, <1>3 DEF PhaseInv, None, ArmInv
<1>9. ControlInv' /\ StopInv'
  BY <1>0, <1>3, <1>4 DEF ControlInv, StopInv
<1>10. RootInv'
  <2>1. cancel => \A n \in NodeCancels' : n \in NodeCancels
    BY <1>2, <1>4 DEF NodeCancels, At
  <2> QED BY <1>0, <1>3, <2>1, SeenHonest, TokenNodes DEF RootInv
<1>11. CauseHonest'
  <2>1. \A n \in Node : result'[n] \in {result[n], "SkippedDependency"}
    BY <1>2
  <2> QED BY <1>0, <1>3, <2>1, SeenHonest, HonestStep DEF Blamed
<1>12. ReachInv'
  <2>1. PolicyActed' = PolicyActed
    BY <1>3 DEF PolicyActed
  <2>2. PolicyActed => stop
    BY <1>0 DEF PolicyActed, StopInv, ControlInv
  <2>3. PolicyActed => \A n \in Node : st'[n] = "running" => st[n] = "running"
    BY <1>2, <1>4, <2>2
  <2> QED BY <1>0, <1>3, <2>1, <2>3 DEF ReachInv
<1>13. HealthInv'
  <2>1. SUFFICES ASSUME Frozen PROVE StrictSound' /\ \A n \in Node : Healthy(n)'
    BY <1>3 DEF HealthInv, Frozen
  <2>2. StrictSound /\ \A n \in Node : Healthy(n)
    BY <1>0, <2>1 DEF HealthInv
  <2>3. StrictSound'
    BY <1>2, <1>3, <2>2 DEF StrictSound, Marked
  <2>4. cfg.synthesis \in {"strict", "degraded"}
    BY <1>0, GraphAssumption DEF Typed, AllConfigs
  <2>5. \A n \in Node : st[n] # "idle" /\ Sound(n) => Sound(n)'
    BY <1>6, SoundKept
  <2>6. ASSUME NEW n \in Node, n \notin new PROVE Healthy(n)'
    BY <1>0, <1>2, <2>2, <2>5, <2>6 DEF Healthy
  <2>7. ASSUME NEW n \in new PROVE Healthy(n)'
    <3>1. SUFFICES ASSUME st'[n] = "running", n \notin degraded' PROVE Sound(n)'
      BY <1>2 DEF Healthy
    <3>2. n \in Node /\ ~Skipped(n) /\ ~Marked(n)
      BY <1>2, <3>1
    <3>3. \A m \in Inputs[n] : result[m] = "Completed"
      <4>1. CASE cfg.synthesis = "degraded"
        BY <2>1, <3>2, <4>1 DEF Marked
      <4>2. CASE cfg.synthesis = "strict"
        BY <1>5, <2>1, <2>2, <3>2, <4>2 DEF Skipped, Unhealthy, StrictSound
      <4> QED BY <2>4, <4>1, <4>2
    <3> QED BY <1>2, <1>5, <1>6, <3>2, <3>3 DEF Sound
  <2> QED BY <2>3, <2>6, <2>7
<1>14. EvidenceInv'
  BY <1>0, <1>2, <1>3 DEF EvidenceInv, Frozen
<1> QED BY <1>1, <1>7, <1>8, <1>9, <1>10, <1>11, <1>12, <1>13, <1>14 DEF Inv

\* After the loop a node that never started has a reason, and the invariant is kept.
LEMMA FinishInv == Inv /\ Finish => Inv'
<1> SUFFICES ASSUME Inv, Finish PROVE Inv'
  OBVIOUS
<1>0. /\ TypeOK /\ Typed /\ PhaseInv /\ ControlInv /\ StopInv /\ RootInv /\ CauseHonest /\ ReachInv
      /\ NodeInv /\ HealthInv /\ EvidenceInv /\ pc = "finish"
  BY TypeParts DEF Inv, Finish
<1>1. TypeOK'
  BY <1>0, FinishType
<1>2. PICK missing \in SUBSET Node : missing = IF Frozen \/ budget THEN At("idle") ELSE {}
  BY DEF At
<1>3. \A n \in Node : st[n] \in {"idle", "done"}
  BY <1>0 DEF PhaseInv, Drained, None, Typed, Place
<1>4. \A n \in missing : st[n] = "idle"
  BY <1>2 DEF At
<1>5. missing # {} => MissingTerminal \in {"CanceledWorkflow", "NotStartedPolicy"}
  <2>1. SUFFICES ASSUME NEW z \in missing PROVE MissingTerminal \in {"CanceledWorkflow", "NotStartedPolicy"}
    OBVIOUS
  <2>2. stop
    BY <1>3, <1>4, IdleStopped
  <2>3. \/ cancel \/ budget \/ observed \cap {"cutoff", "impossible"} # {}
        \/ ctl.stopped /\ ctl.trigger # NoNode
    <3>1. observed \subseteq {"cancel", "cutoff", "impossible"}
      BY <1>0 DEF Typed
    <3> QED BY <1>0, <2>2, <3>1 DEF StopInv, ControlInv
  <2>4. root \in Cause
    BY <1>0 DEF Typed
  <2>5. cancel => RootSeen(cancel) = "CanceledWorkflow" \/ (ctl.stopped /\ ctl.trigger # NoNode)
    BY <1>0, <2>4 DEF RootSeen, RootInv, ControlInv, Cause
  <2> QED BY <2>3, <2>5 DEF MissingTerminal
<1>6. MissingTerminal = "CanceledWorkflow" => external
  BY SeenHonest DEF MissingTerminal
<1>7. /\ root' = RootSeen(cancel) /\ cause' = CauseSeen(cancel) /\ pc' = "ended"
      /\ \A n \in Node : /\ result'[n] = IF n \in missing THEN MissingTerminal ELSE result[n]
                         /\ st'[n] = IF n \in missing THEN "done" ELSE st[n]
                         /\ evidence'[n] = IF n \in missing THEN "terminal" ELSE evidence[n]
      /\ UNCHANGED <<cfg, fired, terminalized, cancel, external, ctl, bar, stop, observed, time,
                     budget, degraded, wake>>
  BY <1>2, <1>5 DEF Finish
<1>8. \A n \in Node : Inputs[n] \subseteq Node
  BY GraphAssumption
<1>9. missing = {} \/ missing = At("idle")
  BY <1>2
<1>10. NodeInv'
  <2>1. \A n \in Node : Kept(n)'
    BY <1>0, <1>4, <1>5, <1>7 DEF NodeInv, Kept, Terminals
  <2>2. CASE missing = {}
    BY <1>0, <1>7, <2>1, <2>2, NodesMoved
  <2>3. CASE missing = At("idle")
    <3>1. \A n \in Node : st'[n] = "done"
      BY <1>3, <1>7, <2>3 DEF At
    <3> QED BY <1>8, <2>1, <3>1 DEF NodeInv, Started, Behind
  <2> QED BY <1>9, <2>2, <2>3
<1>11. PhaseInv'
  <2>1. Frozen => \A n \in Node : st'[n] = "done"
    BY <1>2, <1>3, <1>7 DEF At
  <2> QED BY <1>0, <1>3, <1>7, <2>1 DEF PhaseInv, Drained, None, ArmInv, Frozen
<1>12. ControlInv' /\ StopInv'
  BY <1>0, <1>7 DEF ControlInv, StopInv
<1>13. RootInv'
  <2>1. \A n \in NodeCancels' : n \in NodeCancels
    BY <1>3, <1>7 DEF NodeCancels, At
  <2> QED BY <1>0, <1>7, <2>1, SeenHonest, TokenNodes DEF RootInv
<1>14. CauseHonest'
  <2>1. \A n \in Node : \/ result'[n] = result[n]
                        \/ result'[n] \notin {"CanceledWorkflow", "CanceledPolicy"}
                        \/ result'[n] = "CanceledWorkflow" /\ external'
    BY <1>5, <1>6, <1>7
  <2> QED BY <1>0, <1>7, <2>1, SeenHonest, HonestStep DEF Blamed
<1>15. ReachInv'
  BY <1>0, <1>3, <1>7 DEF ReachInv, PolicyActed
<1>16. HealthInv'
  <2>1. SUFFICES ASSUME Frozen PROVE StrictSound' /\ \A n \in Node : Healthy(n)'
    BY <1>7 DEF HealthInv, Frozen
  <2>2. StrictSound /\ \A n \in Node : Healthy(n)
    BY <1>0, <2>1 DEF HealthInv
  <2>3. StrictSound'
    BY <1>5, <1>7, <2>2 DEF StrictSound
  <2>4. \A n \in Node : st[n] # "idle" /\ Sound(n) => Sound(n)'
    BY <1>4, <1>7, SoundKept
  <2>5. \A n \in Node : Healthy(n)'
    BY <1>3, <1>4, <1>5, <1>7, <2>2, <2>4 DEF Healthy
  <2> QED BY <2>3, <2>5
<1>17. EvidenceInv'
  BY <1>0, <1>3, <1>7 DEF EvidenceInv, Frozen
<1> QED BY <1>1, <1>10, <1>11, <1>12, <1>13, <1>14, <1>15, <1>16, <1>17 DEF Inv

-----------------------------------------------------------------------------
(* The theorems *)

\* Every step keeps the invariant.
LEMMA InvNext == Inv /\ [Next]_vars => Inv'
<1> SUFFICES ASSUME Inv, [Next]_vars PROVE Inv'
  OBVIOUS
<1>1. CASE Act
  BY <1>1, ActDrainInv, ActAckInv, ActStopInv, ActGraceInv, ActWaitInv DEF Act
<1>2. CASE Loop
  BY <1>1, <1>2, TopInv, ProcessNodeInv, FinalizeInv, InlineBarrierInv, PublishInv, FinishInv
     DEF Loop
<1>3. CASE Control
  BY <1>3, WakeControlInv DEF Control
<1>4. CASE UNCHANGED vars
  <2>1. TypeOK'
    BY <1>4, TypeNext DEF Inv
  <2>2. NodeInv' /\ PhaseInv' /\ ControlInv' /\ StopInv'
    BY <1>4 DEF Inv, vars, NodeInv, Kept, Started, Behind, PhaseInv, None, Drained, ArmInv, Active,
                Frozen, ControlInv, StopInv
  <2>3. RootInv' /\ CauseHonest' /\ ReachInv'
    BY <1>4 DEF Inv, vars, RootInv, NodeCancels, At, CauseHonest, ReachInv, PolicyActed
  <2>4. HealthInv' /\ EvidenceInv'
    BY <1>4 DEF Inv, vars, HealthInv, StrictSound, Healthy, Sound, EvidenceInv, Frozen
  <2> QED BY <2>1, <2>2, <2>3, <2>4 DEF Inv
<1> QED BY <1>2, <1>3, <1>4, WakeCompletionInv, AroundInv DEF Next

\* The scheduling loop keeps its invariant.
THEOREM SchedulerInvariance == Spec => []Inv
<1> QED BY InvInit, InvNext, PTL DEF Spec

\* A run never leaves through an InvalidStateTransition exit, ends with one terminal
\* for every node, with its evidence except for the node that triggered the policy, whose
\* NodeFinished may go out without it, and with no barrier left, and reports a node as healthy
\* only over healthy inputs.
THEOREM RunsEndAccounted == Spec => []EndsAccounted
<1>1. Inv => EndsAccounted
  <2> SUFFICES ASSUME Inv PROVE EndsAccounted
    OBVIOUS
  <2>0. Typed /\ NodeInv /\ PhaseInv /\ ControlInv /\ HealthInv /\ EvidenceInv
    BY TypeParts DEF Inv
  <2>1. NeverBroken
    BY <2>0 DEF PhaseInv, NeverBroken
  <2>2. TerminalsComplete
    <3> SUFFICES ASSUME pc = "ended", Frozen PROVE TerminalsComplete
      BY DEF TerminalsComplete
    <3>1. \A n \in Node : st[n] \in {"idle", "done"}
      BY <2>0 DEF PhaseInv, Drained, None, Typed, Place
    <3>2. \A n \in Node : st[n] = "done"
      BY <2>0, <3>1 DEF PhaseInv, None
    <3>3. \A n \in Node : result[n] \in Terminals /\ (evidence[n] # "none" \/ n = ctl.trigger)
      BY <2>0, <3>2 DEF NodeInv, Kept, EvidenceInv
    <3>4. ~bar.pending /\ bar.ack = "none" /\ ~ctl.pending
      BY <2>0 DEF PhaseInv, Drained, ControlInv
    <3> QED BY <3>2, <3>3, <3>4 DEF TerminalsComplete, Final
  <2>3. HealthyAncestry
    BY <2>0 DEF HealthInv, Healthy, Sound, HealthyAncestry
  <2> QED BY <2>1, <2>2, <2>3 DEF EndsAccounted
<1> QED BY <1>1, SchedulerInvariance, PTL

\* Cancellation is blamed on the party that canceled, reaches every running node before the loop
\* waits again, and no node is given up for its cleanup before it was canceled.
THEOREM CancellationIsExact == Spec => []CancelExact
<1>1. Inv => CancelExact
  <2> SUFFICES ASSUME Inv PROVE CancelExact
    OBVIOUS
  <2>0. PhaseInv /\ CauseHonest /\ ReachInv
    BY DEF Inv
  <2>1. pc = "wait" => \A n \in NodeCancels : n \in Node /\ st[n] = "running"
    BY <2>0, TokenNodes DEF PhaseInv, None
  <2> QED BY <2>0, <2>1 DEF CancelExact, ReachInv
<1> QED BY <1>1, SchedulerInvariance, PTL

\* No node starts after a trigger, a cutoff, a refused budget or a cancellation the loop has seen.
THEOREM NothingStartsLate == Spec => NoLateStart
<1>1. ASSUME Inv, [Next]_vars, NEW n \in Node, st[n] = "idle", st'[n] = "running"
      PROVE  ctl.trigger = NoNode /\ observed = {} /\ ~budget /\ root = "none"
  <2>1. Publish
    <3>1. st' # st /\ Typed
      BY <1>1, TypeParts DEF Inv
    <3>2. ~UNCHANGED vars /\ ~Top /\ ~Act /\ ~Control /\ ~Cancel /\ ~Tick
      BY <3>1 DEF vars, Top, Act, ActDrain, ActAck, ActStop, ActGrace, ActWait, Control, WakeControl,
                  Cancel, Tick, nodeVars
    <3>3. ~WakeCompletion /\ ~ProcessNode
      BY <1>1, <3>1 DEF WakeCompletion, ProcessNode, Typed
    <3>4. ~Finalize /\ ~InlineBarrier /\ ~Finish
      BY <1>1, <3>1 DEF Finalize, InlineBarrier, Retain, Finish
    <3> QED BY <1>1, <3>2, <3>3, <3>4 DEF Next, Loop
  <2>2. ~stop'
    BY <1>1, <2>1, ScheduleEffect
  <2>3. ~stop /\ ~cancel
    BY <2>1, <2>2 DEF Publish
  <2> QED BY <1>1, <2>3 DEF Inv, ControlInv, StopInv, RootInv
<1>2. Inv /\ [Next]_vars =>
        [\A n \in Node : st[n] = "idle" /\ st'[n] = "running" =>
            ctl.trigger = NoNode /\ observed = {} /\ ~budget /\ root = "none"]_vars
  BY <1>1
<1> QED BY <1>2, SchedulerInvariance, PTL DEF Spec, NoLateStart
====
