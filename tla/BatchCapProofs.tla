-------------------------- MODULE BatchCapProofs --------------------------
(***************************************************************************)
(* The workflows of batch items that execute at one time stay within the   *)
(* serve-wide permits and within the concurrency of their batch, for every *)
(* number of tasks, batches, crashes and faults.                           *)
(*                                                                         *)
(* Two counts are kept: the children of a loop and the permits.  That they *)
(* bound what executes is a fact about the runners: an item that executes  *)
(* is in flight in its batch's loop, since a loop gives a child up only    *)
(* once its runner is joined or detached, and a detached one executes no   *)
(* workflow.                                                               *)
(***************************************************************************)
EXTENDS BatchProofs, Functions

\* An item that executes is in flight, and its runner is still to be joined.
RunCovered ==
    \A r \in runners : r.pc = "run" =>
        ~r.detached /\ \A b \in Batch : r.task \in Items[b] => r.task \in adm[b].inflight

\* A loop has room for a child from the guard of its admission to the spawn.
Room(b) ==
    /\ Cardinality(adm[b].inflight) <= Concurrency
    /\ adm[b].pc \in {"permit"} \cup Admitting => Cardinality(adm[b].inflight) < Concurrency

\* The children in flight, and the loops that are admitting one.
InFlight == UNION {adm[b].inflight : b \in Batch}
Takers == {b \in Batch : adm[b].pc \in Admitting}

\* The inductive invariant of the two caps.
CapInv == RunCovered /\ (\A b \in Batch : Room(b)) /\ PermitsHeld <= Permits

-----------------------------------------------------------------------------
(* Counting *)

\* There are finitely many tasks, hence children and admitting loops.
LEMMA Finite ==
    ASSUME LoopInv
    PROVE  /\ IsFiniteSet(InFlight) /\ IsFiniteSet(Takers)
           /\ \A b \in Batch : IsFiniteSet(adm[b].inflight)
<1> DEFINE items == {Items[b] : b \in Batch}
           f == [b \in Batch |-> Items[b]]
<1>1. f \in Surjection(Batch, items)
  BY DEF Surjection
<1>2. IsFiniteSet(Batch) /\ \A b \in Batch : IsFiniteSet(Items[b])
  BY StoreAssumption
<1>3. IsFiniteSet(items) /\ \A x \in items : IsFiniteSet(x)
  BY <1>1, <1>2, FS_Surjection
<1>4. IsFiniteSet(UNION items)
  BY <1>3, FS_UNION
<1>5. \A b \in Batch : adm[b].inflight \subseteq Items[b]
  BY DEF LoopInv, LoopSound
<1>6. InFlight \in SUBSET UNION items
  BY <1>5 DEF InFlight
<1>7. IsFiniteSet(InFlight)
  BY <1>4, <1>6, FS_Subset
<1>8. IsFiniteSet(Takers)
  BY <1>2, FS_Subset DEF Takers
<1> QED BY <1>2, <1>5, <1>7, <1>8, FS_Subset

\* The permits held are the children and the admitting loops.
Counted ==
    /\ PermitsHeld = Cardinality(InFlight) + Cardinality(Takers)
    /\ Cardinality(InFlight) \in Nat /\ Cardinality(Takers) \in Nat
LEMMA Counts == LoopInv => Counted
  BY Finite, FS_CardinalityType DEF Counted, PermitsHeld, InFlight, Takers

\* ... after the step as well.
LEMMA CountsNext == Inv /\ Inv' => Counted /\ Counted'
<1>1. Inv => LoopInv
  BY DEF Inv
<1> QED BY <1>1, Counts, PTL

-----------------------------------------------------------------------------
(* What a step does to the runners and to one loop *)

\* No workflow of a batch item starts.
NoRun == \A r \in runners' : r.pc = "run" => r \in runners \/ (~r.detached /\ r.task \in Solo)

\* The loop of b gives up children that are joined, and takes no permit.
GivesUp(b) ==
    /\ \A c \in Batch \ {b} : adm'[c] = adm[c]
    /\ adm'[b].inflight \subseteq adm[b].inflight
    /\ \A t \in adm[b].inflight \ adm'[b].inflight : Joined(t)
    /\ adm'[b].pc \in Admitting => adm[b].pc \in Admitting
    /\ adm'[b].pc = "permit" =>
         adm[b].pc = "permit" \/ Cardinality(adm[b].inflight) < Concurrency

\* The steps that leave the loops alone.
LEMMA AsideCap ==
    ASSUME Inv, CapInv, NoRun, UNCHANGED adm
    PROVE  CapInv'
<1>1. RunCovered'
  BY Tasks DEF CapInv, RunCovered, NoRun
<1>2. (\A b \in Batch : Room(b)') /\ PermitsHeld' = PermitsHeld
  BY DEF CapInv, Room, PermitsHeld
<1> QED BY <1>1, <1>2 DEF CapInv

\* The steps of a loop that start no child.
LEMMA GivesUpCap ==
    ASSUME Inv, Inv', CapInv, NoRun, NEW b \in Batch, GivesUp(b)
    PROVE  CapInv'
<1>0. LoopInv /\ LoopInv' /\ Concurrency \in Nat /\ Permits \in Nat
  BY BatchAssumption DEF Inv
<1>1. RunCovered'
  <2> SUFFICES ASSUME NEW r \in runners', r.pc = "run", NEW c \in Batch, r.task \in Items[c]
               PROVE  r \in runners /\ ~r.detached /\ r.task \in adm'[c].inflight
    BY DEF RunCovered, NoRun, CapInv
  <2>1. r \in runners
    BY Tasks DEF NoRun
  <2>2. ~r.detached /\ r.task \in adm[c].inflight
    BY <2>1 DEF CapInv, RunCovered
  <2>3. ~Joined(r.task)
    BY <2>1, <2>2 DEF Joined, RunnersOf
  <2> QED BY <2>1, <2>2, <2>3 DEF GivesUp
<1>2. ASSUME NEW c \in Batch PROVE Room(c)'
  <2>1. CASE c # b
    BY <2>1 DEF CapInv, Room, GivesUp
  <2>2. CASE c = b
    <3>1. adm'[b].inflight \in SUBSET adm[b].inflight /\ IsFiniteSet(adm[b].inflight)
      BY <1>0, Finite DEF GivesUp
    <3>2. Cardinality(adm'[b].inflight) <= Cardinality(adm[b].inflight)
      BY <3>1, FS_Subset
    <3>3. Cardinality(adm'[b].inflight) \in Nat /\ Cardinality(adm[b].inflight) \in Nat
      BY <3>1, FS_Subset, FS_CardinalityType
    <3>4. adm'[b].pc \in {"permit"} \cup Admitting => Cardinality(adm[b].inflight) < Concurrency
      BY DEF GivesUp, CapInv, Room
    <3>5. Cardinality(adm[b].inflight) <= Concurrency
      BY DEF CapInv, Room
    <3>6. /\ Cardinality(adm'[b].inflight) <= Concurrency
          /\ adm'[b].pc \in {"permit"} \cup Admitting => Cardinality(adm'[b].inflight) < Concurrency
      BY <1>0, <3>2, <3>3, <3>4, <3>5
    <3> QED BY <2>2, <3>6 DEF Room
  <2> QED BY <2>1, <2>2
<1>3. PermitsHeld' <= Permits
  <2>1. InFlight' \in SUBSET InFlight /\ Takers' \in SUBSET Takers
    BY DEF InFlight, Takers, GivesUp
  <2>2. Cardinality(InFlight') <= Cardinality(InFlight) /\ Cardinality(Takers') <= Cardinality(Takers)
    BY <1>0, <2>1, Finite, FS_Subset
  <2>3. /\ PermitsHeld = Cardinality(InFlight) + Cardinality(Takers)
        /\ Cardinality(InFlight) \in Nat /\ Cardinality(Takers) \in Nat
    BY CountsNext DEF Counted
  <2>4. /\ PermitsHeld' = Cardinality(InFlight') + Cardinality(Takers')
        /\ Cardinality(InFlight') \in Nat /\ Cardinality(Takers') \in Nat
    BY CountsNext DEF Counted
  <2>5. PermitsHeld <= Permits
    BY DEF CapInv
  <2> QED BY <1>0, <2>2, <2>3, <2>4, <2>5
<1> QED BY <1>1, <1>2, <1>3 DEF CapInv

\* The loop takes a permit that is left.
LEMMA TakesCap ==
    ASSUME Inv, Inv', CapInv, UNCHANGED runners, NEW b \in Batch, PermitsHeld < Permits,
           \A c \in Batch \ {b} : adm'[c] = adm[c],
           adm[b].pc = "permit", adm'[b].pc = "admit", adm'[b].inflight = adm[b].inflight
    PROVE  CapInv'
<1>0. LoopInv /\ LoopInv' /\ Concurrency \in Nat /\ Permits \in Nat
  BY BatchAssumption DEF Inv
<1>1. \A c \in Batch : adm'[c].inflight = adm[c].inflight
  OBVIOUS
<1>2. RunCovered'
  BY <1>1 DEF CapInv, RunCovered
<1>3. \A c \in Batch : Room(c)'
  BY <1>1 DEF CapInv, Room
<1>4. InFlight' = InFlight /\ Takers' = Takers \cup {b} /\ b \notin Takers
  BY <1>1 DEF InFlight, Takers, Admitting
<1>5. Cardinality(Takers') = Cardinality(Takers) + 1
  BY <1>0, <1>4, Finite, FS_AddElement
<1>6. /\ PermitsHeld = Cardinality(InFlight) + Cardinality(Takers)
      /\ Cardinality(InFlight) \in Nat /\ Cardinality(Takers) \in Nat
  BY CountsNext DEF Counted
<1>7. PermitsHeld' = Cardinality(InFlight') + Cardinality(Takers')
  BY CountsNext DEF Counted
<1>8. PermitsHeld' <= Permits
  BY <1>0, <1>4, <1>5, <1>6, <1>7
<1> QED BY <1>2, <1>3, <1>8 DEF CapInv

\* The loop passes the permit it holds on to the child it spawns.
LEMMA SpawnsCap ==
    ASSUME Inv, Inv', CapInv, NEW b \in Batch, NEW t \in Items[b], spawn(t),
           \A c \in Batch \ {b} : adm'[c] = adm[c],
           adm[b].pc \in Admitting, adm'[b].pc = "top",
           adm'[b].inflight = adm[b].inflight \cup {t}
    PROVE  CapInv'
<1>0. LoopInv /\ LoopInv' /\ Concurrency \in Nat /\ Permits \in Nat
  BY BatchAssumption DEF Inv
<1>1. RunCovered'
  <2>1. \A r \in runners' : r \in runners \/ (r.task = t /\ ~r.detached)
    BY DEF spawn, Runner
  <2>2. \A c \in Batch : adm[c].inflight \subseteq adm'[c].inflight
    OBVIOUS
  <2>3. \A c \in Batch : t \in Items[c] => c = b
    BY Tasks
  <2> QED BY <2>1, <2>2, <2>3 DEF CapInv, RunCovered
<1>2. ASSUME NEW c \in Batch PROVE Room(c)'
  <2>1. CASE c # b
    BY <2>1 DEF CapInv, Room
  <2>2. CASE c = b
    <3>1. Cardinality(adm[b].inflight) < Concurrency /\ IsFiniteSet(adm[b].inflight)
      BY <1>0, Finite DEF CapInv, Room
    <3> DEFINE now == adm[b].inflight
               then == now \cup {t}
    <3>2. /\ IsFiniteSet(then) /\ Cardinality(now) \in Nat /\ Cardinality(then) \in Nat
          /\ Cardinality(then) = IF t \in now THEN Cardinality(now) ELSE Cardinality(now) + 1
      BY <3>1, FS_AddElement, FS_CardinalityType
    <3>3. /\ Cardinality(adm'[b].inflight) <= Cardinality(adm[b].inflight) + 1
          /\ Cardinality(adm[b].inflight) \in Nat /\ Cardinality(adm'[b].inflight) \in Nat
      BY <3>2
    <3>4. Cardinality(adm'[b].inflight) <= Concurrency
      BY <1>0, <3>1, <3>3
    <3> QED BY <2>2, <3>4 DEF Room, Admitting
  <2> QED BY <2>1, <2>2
<1>3. PermitsHeld' <= Permits
  <2>1. InFlight' = InFlight \cup {t}
    BY DEF InFlight
  <2>2. Takers' = Takers \ {b} /\ b \in Takers
    BY DEF Takers, Admitting
  <2>3. IsFiniteSet(InFlight) /\ IsFiniteSet(Takers)
    BY <1>0, Finite
  <2>4. /\ PermitsHeld = Cardinality(InFlight) + Cardinality(Takers)
        /\ Cardinality(InFlight) \in Nat /\ Cardinality(Takers) \in Nat
    BY CountsNext DEF Counted
  <2>5. PermitsHeld' = Cardinality(InFlight') + Cardinality(Takers')
    BY CountsNext DEF Counted
  <2>6. Cardinality(InFlight') <= Cardinality(InFlight) + 1
    <3>1. Cardinality(InFlight \cup {t}) = IF t \in InFlight THEN Cardinality(InFlight)
                                                             ELSE Cardinality(InFlight) + 1
      BY <2>3, FS_AddElement
    <3> QED BY <2>1, <2>4, <3>1
  <2>7. Cardinality(Takers') = Cardinality(Takers) - 1
    BY <2>2, <2>3, FS_RemoveElement
  <2>8. Cardinality(InFlight') \in Nat /\ PermitsHeld <= Permits
    BY CountsNext DEF CapInv, Counted
  <2> QED BY <1>0, <2>4, <2>5, <2>6, <2>7, <2>8
<1> QED BY <1>1, <1>2, <1>3 DEF CapInv

-----------------------------------------------------------------------------
(* The actions *)

\* A runner that goes on executes no longer; it starts no workflow.
LEMMA RunnerNoRun ==
    ASSUME Inv, NEW r \in runners, RunnerStep(r)
    PROVE  NoRun
<1>0. r \in RunnerRecord
  BY Running
<1>1. \A s : Become(r, s) /\ s.pc # "run" => NoRun
  BY DEF Become, NoRun
<1>2. Refused(r) => NoRun
  BY <1>0, <1>1 DEF Refused, RunnerRecord
<1>3. CASE Checkpoint(r)
  <2>1. PICK o : Become(r, [r EXCEPT !.pc = "commit", !.out = o])
    BY <1>3 DEF Checkpoint
  <2> QED BY <1>0, <1>1, <2>1 DEF RunnerRecord
<1>4. CASE EndEarly(r)
  <2>1. PICK o : \/ Become(r, [r EXCEPT !.pc = "commit", !.out = o])
                 \/ Become(r, [r EXCEPT !.pc = "commit", !.out = o, !.last = TRUE])
    BY <1>4 DEF EndEarly
  <2> QED BY <1>0, <1>1, <2>1 DEF RunnerRecord
<1>5. CASE Panic(r)
  BY <1>0, <1>1, <1>5 DEF Panic, RunnerRecord
<1>6. CASE Commit(r)
  BY <1>0, <1>1, <1>2, <1>6 DEF Commit, RunnerRecord
<1>7. CASE Settle(r)
  BY <1>0, <1>1, <1>2, <1>7 DEF Settle, RunnerRecord
<1>8. CASE Publish(r)
  BY <1>0, <1>1, <1>2, <1>8 DEF Publish, RunnerRecord
<1>9. CASE End(r)
  BY <1>9 DEF End, NoRun
<1> QED BY <1>3, <1>4, <1>5, <1>6, <1>7, <1>8, <1>9 DEF RunnerStep, Finishing

\* The steps of single tasks: the workflows they start are of solo tasks.
LEMMA TaskStepCap ==
    ASSUME Inv, CapInv, TaskStep
    PROVE  CapInv'
<1>1. UNCHANGED adm
  BY DEF TaskStep
<1>2. NoRun
  <2>1. ASSUME NEW r \in runners, RunnerStep(r) PROVE NoRun
    BY <2>1, RunnerNoRun
  <2>2. ASSUME NEW t \in Task, SubmitSpawn(t) PROVE NoRun
    BY <2>2 DEF SubmitSpawn, spawn, Runner, NoRun, Inv, TypeOK
  <2>3. ASSUME NEW t \in Task, Submit(t) \/ CancelTask(t) \/ CancelFlip(t) PROVE NoRun
    BY <2>3 DEF Submit, CancelTask, CancelFlip, NoRun
  <2> QED BY <2>1, <2>2, <2>3 DEF TaskStep
<1> QED BY <1>1, <1>2, AsideCap

\* The loop's steps: a child is given up once it is joined, a permit is taken when one is left
\* and passed on to the child.
LEMMA LoopStepCap ==
    ASSUME Inv, Inv', CapInv, NEW b \in Batch, LoopStep(b)
    PROVE  CapInv'
<1>0. TypeOK /\ adm[b] \in LoopRecord /\ adm \in [Batch -> LoopRecord] /\ LoopSound(b)
  BY DEF Inv, TypeOK, LoopInv
<1> DEFINE l == adm[b]
<1>1. ASSUME NEW x \in LoopRecord, adm' = [adm EXCEPT ![b] = x], UNCHANGED runners,
             x.inflight = l.inflight, x.pc \in Admitting => l.pc \in Admitting,
             x.pc = "permit" => Cardinality(l.inflight) < Concurrency
      PROVE  CapInv'
  <2>1. adm'[b] = x /\ \A c \in Batch \ {b} : adm'[c] = adm[c]
    BY <1>0, <1>1, LoopPut
  <2>2. GivesUp(b) /\ NoRun
    BY <1>1, <2>1 DEF GivesUp, NoRun
  <2> QED BY <2>2, GivesUpCap
<1>2. ASSUME NEW x \in LoopRecord, NEW t, Reaped(b, t), adm' = [adm EXCEPT ![b] = x],
             UNCHANGED runners,
             x.inflight = l.inflight \ {t}, x.pc \notin Admitting,
             x.pc = "permit" => l.pc = "permit"
      PROVE  CapInv'
  <2>1. adm'[b] = x /\ \A c \in Batch \ {b} : adm'[c] = adm[c]
    BY <1>0, <1>2, LoopPut
  <2>2. GivesUp(b) /\ NoRun
    BY <1>2, <2>1 DEF GivesUp, NoRun, Reaped
  <2> QED BY <2>2, GivesUpCap
<1>3. ASSUME NEW pc \in LoopPc, goto(b, pc), UNCHANGED runners,
             pc \in Admitting => l.pc \in Admitting,
             pc = "permit" => Cardinality(l.inflight) < Concurrency
      PROVE  CapInv'
  <2> DEFINE x == [l EXCEPT !.pc = pc]
  <2>1. x \in LoopRecord /\ x.pc = pc /\ x.inflight = l.inflight
    BY <1>0, <1>3 DEF LoopRecord
  <2> QED BY <1>1, <1>3, <2>1 DEF goto
<1>4. CASE Register(b) \/ Top(b)
  <2>1. CASE Register(b)
    BY <1>3, <2>1 DEF Register, goto, LoopPc, Admitting, taskVars
  <2>2. CASE Top(b) /\ goto(b, "permit") /\ MayAdmit(b)
    BY <1>3, <2>2 DEF Top, MayAdmit, LoopPc, Admitting
  <2>3. CASE Top(b) /\ (goto(b, "settle") \/ goto(b, "select"))
    BY <1>3, <2>3 DEF Top, LoopPc, Admitting
  <2>4. CASE Top(b) /\ adm' = [adm EXCEPT ![b].pc = "drain", ![b].told = TRUE]
    <3> DEFINE x == [l EXCEPT !.pc = "drain", !.told = TRUE]
    <3>1. x \in LoopRecord /\ x.pc = "drain" /\ x.inflight = l.inflight
      BY <1>0 DEF LoopRecord, LoopPc
    <3> QED BY <1>1, <2>4, <3>1 DEF Top, Admitting
  <2> QED BY <1>4, <2>1, <2>2, <2>3, <2>4 DEF Top
<1>5. CASE AwaitPermit(b)
  <2>0. UNCHANGED runners /\ l.pc = "permit"
    BY <1>5 DEF AwaitPermit, taskVars
  <2>1. CASE adm' = [adm EXCEPT ![b].pc = "top", ![b].drain = TRUE]
    <3> DEFINE x == [l EXCEPT !.pc = "top", !.drain = TRUE]
    <3>1. x \in LoopRecord /\ x.pc = "top" /\ x.inflight = l.inflight
      BY <1>0 DEF LoopRecord, LoopPc
    <3> QED BY <1>1, <2>0, <2>1, <3>1 DEF Admitting
  <2>2. CASE PermitsHeld < Permits /\ goto(b, "admit")
    <3>1. Goes(b, "admit") /\ adm'[b].inflight = l.inflight
      BY <1>0, <2>2, GotoGoes DEF LoopPc
    <3> QED BY <2>0, <2>2, <3>1, TakesCap DEF Goes, LoopMoves
  <2>3. ASSUME NEW t \in Task, Reaped(b, t), adm' = [adm EXCEPT ![b].inflight = @ \ {t}]
        PROVE  CapInv'
    <3> DEFINE x == [l EXCEPT !.inflight = l.inflight \ {t}]
    <3>1. x \in LoopRecord /\ x.pc = "permit" /\ x.inflight = l.inflight \ {t}
      BY <1>0, <2>0 DEF LoopRecord
    <3> QED BY <1>2, <2>0, <2>3, <3>1 DEF Admitting
  <2> QED BY <1>5, <2>1, <2>2, <2>3 DEF AwaitPermit
<1>6. CASE Drain(b) \/ Select(b)
  <2>0. UNCHANGED runners
    BY <1>6 DEF Drain, Select, taskVars
  <2>1. ASSUME NEW t \in Task, Reaped(b, t),
               adm' = [adm EXCEPT ![b].pc = "top", ![b].inflight = @ \ {t}]
        PROVE  CapInv'
    <3>1. PICK x \in LoopRecord : /\ adm' = [adm EXCEPT ![b] = x]
                                  /\ x.pc = "top" /\ x.inflight = l.inflight \ {t}
      <4> DEFINE y == [l EXCEPT !.pc = "top", !.inflight = l.inflight \ {t}]
      <4>1. y \in LoopRecord /\ y.pc = "top" /\ y.inflight = l.inflight \ {t}
        BY <1>0 DEF LoopRecord, LoopPc
      <4>2. adm' = [adm EXCEPT ![b] = y]
        BY <2>1
      <4> QED BY <4>1, <4>2
    <3>2. Reaped(b, t)
      BY <2>1
    <3> QED BY <1>2, <2>0, <3>1, <3>2 DEF Admitting
  <2>2. CASE adm' = [adm EXCEPT ![b].pc = "top", ![b].drain = TRUE, ![b].told = TRUE]
    <3> DEFINE x == [l EXCEPT !.pc = "top", !.drain = TRUE, !.told = TRUE]
    <3>1. x \in LoopRecord /\ x.pc = "top" /\ x.inflight = l.inflight
      BY <1>0 DEF LoopRecord, LoopPc
    <3> QED BY <1>1, <2>0, <2>2, <3>1 DEF Admitting
  <2> QED BY <1>6, <2>1, <2>2 DEF Drain, Select
<1>7. CASE Rollup(b) \/ Leave(b)
  <2>1. CASE Rollup(b)
    <3> DEFINE e == IF \E s \in BatchStatus : Settleable(b, s) THEN batch[b] ELSE "none"
               x == [l EXCEPT !.pc = "cas", !.seen = e]
    <3>0. e \in BatchStatus
      BY <1>0 DEF TypeOK, BatchStatus
    <3>1. x \in LoopRecord /\ x.pc = "cas" /\ x.inflight = l.inflight
      BY <1>0, <3>0 DEF LoopRecord, LoopPc
    <3>2. adm' = [adm EXCEPT ![b] = x] /\ UNCHANGED runners
      BY <2>1 DEF Rollup, taskVars
    <3> QED BY <1>1, <3>1, <3>2 DEF Admitting
  <2>2. CASE Leave(b)
    <3>1. NoLoop \in LoopRecord /\ NoLoop.pc = "none" /\ NoLoop.inflight = l.inflight
      BY <1>0, <2>2 DEF NoLoop, LoopRecord, LoopPc, BatchStatus, LoopSound, Leave
    <3> QED BY <1>1, <2>2, <3>1 DEF Leave, Admitting, taskVars
  <2> QED BY <1>7, <2>1, <2>2
<1>8. ASSUME NEW t \in Items[b], ResumeGet(b, t) \/ ResumeClaim(b, t)
      PROVE  CapInv'
  <2>0. t \in Task /\ UNCHANGED runners /\ l.pc \in {"admit", "claim"}
    BY <1>8, Tasks DEF ResumeGet, ResumeClaim, taskVars
  <2>1. CASE adm' = [adm EXCEPT ![b].pc = "claim", ![b].item = t]
    <3> DEFINE x == [l EXCEPT !.pc = "claim", !.item = t]
    <3>1. x \in LoopRecord /\ x.pc = "claim" /\ x.inflight = l.inflight
      BY <1>0, <2>0 DEF LoopRecord, LoopPc
    <3> QED BY <1>1, <2>0, <2>1, <3>1 DEF Admitting
  <2>2. CASE adm' = [adm EXCEPT ![b].pc = "top", ![b].queue = @ \ {t}]
    <3> DEFINE x == [l EXCEPT !.pc = "top", !.queue = l.queue \ {t}]
    <3>1. x \in LoopRecord /\ x.pc = "top" /\ x.inflight = l.inflight
      BY <1>0 DEF LoopRecord, LoopPc
    <3> QED BY <1>1, <2>0, <2>2, <3>1 DEF Admitting
  <2>3. CASE goto(b, "spawn")
    BY <1>3, <2>0, <2>3 DEF LoopPc, Admitting
  <2>4. CASE adm' = [adm EXCEPT ![b].pc = "top", ![b].queue = @ \ {t}, ![b].item = NoTask]
    <3> DEFINE x == [l EXCEPT !.pc = "top", !.queue = l.queue \ {t}, !.item = NoTask]
    <3>1. x \in LoopRecord /\ x.pc = "top" /\ x.inflight = l.inflight
      BY <1>0 DEF LoopRecord, LoopPc
    <3> QED BY <1>1, <2>0, <2>4, <3>1 DEF Admitting
  <2> QED BY <1>8, <2>1, <2>2, <2>3, <2>4 DEF ResumeGet, ResumeClaim
<1>9. ASSUME NEW t \in Items[b], ResumeSpawn(b, t)
      PROVE  CapInv'
  <2> DEFINE x == [l EXCEPT !.pc = "top", !.queue = l.queue \ {t}, !.item = NoTask,
                            !.inflight = l.inflight \cup {t}]
  <2>0. t \in Task /\ l.pc = "spawn" /\ spawn(t)
    BY <1>9, Tasks DEF ResumeSpawn
  <2>1. x \in LoopRecord /\ x.pc = "top" /\ x.inflight = l.inflight \cup {t}
    BY <1>0, <2>0 DEF LoopRecord, LoopPc
  <2>2. adm' = [adm EXCEPT ![b] = x]
    BY <1>9 DEF ResumeSpawn
  <2>3. adm'[b] = x /\ \A c \in Batch \ {b} : adm'[c] = adm[c]
    BY <1>0, <2>1, <2>2, LoopPut
  <2> QED BY <2>0, <2>1, <2>3, SpawnsCap DEF Admitting
<1>10. ASSUME NEW t \in Items[b], NewChild(b, t) \/ Created(b, t) \/ Finalized(b, t)
       PROVE  CapInv'
  <2>0. t \in Task /\ UNCHANGED runners /\ l.pc \in Admitting
    BY <1>10, Tasks DEF NewChild, Created, Finalized, taskVars, Admitting
  <2>1. PICK x \in LoopRecord : /\ adm' = [adm EXCEPT ![b] = x]
                                /\ x.inflight = l.inflight /\ x.pc # "permit"
    <3>1. CASE adm' = [adm EXCEPT ![b].pending = @ \ {t},
                                  ![b].pc = IF row[t].status = "none" THEN "created" ELSE "top",
                                  ![b].item = IF row[t].status = "none" THEN t ELSE @]
      <4> DEFINE x == [l EXCEPT !.pending = l.pending \ {t},
                                !.pc = IF row[t].status = "none" THEN "created" ELSE "top",
                                !.item = IF row[t].status = "none" THEN t ELSE l.item]
      <4>1. x \in LoopRecord /\ x.inflight = l.inflight /\ x.pc # "permit"
        BY <1>0, <2>0 DEF LoopRecord, LoopPc
      <4>2. adm' = [adm EXCEPT ![b] = x]
        BY <3>1
      <4> HIDE DEF x
      <4> QED BY <4>1, <4>2
    <3>2. CASE adm' = [adm EXCEPT ![b].pc = "top", ![b].failed = TRUE]
      <4> DEFINE x == [l EXCEPT !.pc = "top", !.failed = TRUE]
      <4>1. x \in LoopRecord /\ x.inflight = l.inflight /\ x.pc # "permit"
        BY <1>0 DEF LoopRecord, LoopPc
      <4> QED BY <3>2, <4>1
    <3>3. CASE adm' = [adm EXCEPT ![b].pc = "check", ![b].seen = batch[b]]
      <4> DEFINE x == [l EXCEPT !.pc = "check", !.seen = batch[b]]
      <4>1. x \in LoopRecord /\ x.inflight = l.inflight /\ x.pc # "permit"
        BY <1>0 DEF TypeOK, LoopRecord, LoopPc
      <4> QED BY <3>3, <4>1
    <3>4. CASE Finalized(b, t)
      <4> DEFINE d == l.drain \/ btok[b] = "fired"
                 x == [l EXCEPT !.pc = "top", !.item = NoTask, !.drain = d]
      <4>0. d \in BOOLEAN
        OBVIOUS
      <4>1. x \in LoopRecord /\ x.inflight = l.inflight /\ x.pc # "permit"
        BY <1>0, <4>0 DEF LoopRecord, LoopPc
      <4>2. adm' = [adm EXCEPT ![b] = x]
        BY <3>4 DEF Finalized
      <4> QED BY <4>1, <4>2
    <3> QED BY <1>10, <3>1, <3>2, <3>3, <3>4 DEF NewChild, Created
  <2> QED BY <1>1, <2>0, <2>1
<1>11. ASSUME NEW t \in Items[b], Check(b, t)
       PROVE  CapInv'
  <2>0. t \in Task /\ l.pc = "check"
    BY <1>11, Tasks DEF Check
  <2>1. CASE /\ runners' = runners \cup {Runner(t, row[t].attempt, "commit", "Canceled", TRUE)}
             /\ adm' = [adm EXCEPT ![b].pc = "finalize", ![b].seen = "none"]
    <3> DEFINE x == [l EXCEPT !.pc = "finalize", !.seen = "none"]
    <3>1. x \in LoopRecord /\ x.pc = "finalize" /\ x.inflight = l.inflight
      BY <1>0 DEF LoopRecord, LoopPc, BatchStatus
    <3>2. adm'[b] = x /\ \A c \in Batch \ {b} : adm'[c] = adm[c]
      BY <1>0, <2>1, <3>1, LoopPut
    <3>3. GivesUp(b)
      BY <2>0, <3>1, <3>2 DEF GivesUp, Admitting
    <3>4. NoRun
      BY <2>1 DEF NoRun, Runner
    <3> QED BY <3>3, <3>4, GivesUpCap
  <2>2. CASE /\ spawn(t)
             /\ adm' = [adm EXCEPT ![b].pc = "top", ![b].inflight = @ \cup {t},
                                   ![b].item = NoTask, ![b].seen = "none"]
    <3> DEFINE x == [l EXCEPT !.pc = "top", !.inflight = l.inflight \cup {t},
                              !.item = NoTask, !.seen = "none"]
    <3>1. x \in LoopRecord /\ x.pc = "top" /\ x.inflight = l.inflight \cup {t}
      BY <1>0, <2>0 DEF LoopRecord, LoopPc, BatchStatus
    <3>2. adm' = [adm EXCEPT ![b] = x]
      BY <2>2
    <3>3. adm'[b] = x /\ \A c \in Batch \ {b} : adm'[c] = adm[c]
      BY <1>0, <3>1, <3>2, LoopPut
    <3> QED BY <2>0, <2>2, <3>1, <3>3, SpawnsCap DEF Admitting
  <2> QED BY <1>11, <2>1, <2>2 DEF Check
<1> QED BY <1>4, <1>5, <1>6, <1>7, <1>8, <1>9, <1>10, <1>11 DEF LoopStep

\* A loop that is started, by run_batch or by boot, has no child yet, and had none before.
LEMMA NewLoopCap ==
    ASSUME Inv, Inv', CapInv, NoRun, NEW b \in Batch, adm[b].inflight = {},
           NEW pc \in {"register", "top"}, NEW Q \in SUBSET Task, NEW P \in SUBSET Task,
           adm' = [adm EXCEPT ![b] = NewLoop(pc, Q, P)]
    PROVE  CapInv'
<1>1. /\ NewLoop(pc, Q, P) \in LoopRecord /\ NewLoop(pc, Q, P).pc = pc
      /\ NewLoop(pc, Q, P).inflight = {}
  BY DEF NewLoop, NoLoop, LoopRecord, LoopPc, BatchStatus
<1>2. adm'[b] = NewLoop(pc, Q, P) /\ \A c \in Batch \ {b} : adm'[c] = adm[c]
  BY <1>1, LoopPut DEF Inv
<1>3. GivesUp(b)
  BY <1>1, <1>2 DEF GivesUp, Admitting
<1> QED BY <1>3, GivesUpCap

\* The clients of a batch.
LEMMA BatchClientCap ==
    ASSUME Inv, Inv', CapInv, NEW b \in Batch, BatchClient(b)
    PROVE  CapInv'
<1>1. CASE RunBatch(b)
  <2>1. adm[b].inflight = {} /\ Items[b] \in SUBSET Task /\ {} \in SUBSET Task
    BY <1>1, Tasks DEF RunBatch, Inv, LoopInv, LoopSound
  <2>2. NoRun
    BY <1>1 DEF RunBatch, NoRun, taskVars
  <2> QED BY <1>1, <2>1, <2>2, NewLoopCap DEF RunBatch
<1>2. CASE CancelBatch(b) \/ CancelBatchFire(b) \/ Poll(b) \/ PollSettle(b)
  <2>1. UNCHANGED <<adm, runners>>
    BY <1>2 DEF CancelBatch, CancelBatchFire, Poll, PollSettle, taskVars
  <2> QED BY <2>1, AsideCap DEF NoRun
<1> QED BY <1>1, <1>2 DEF BatchClient

\* Boot starts solo tasks itself and leaves the items to their loops.
LEMMA BootStepCap ==
    ASSUME Inv, Inv', CapInv, BootStep
    PROVE  CapInv'
<1>1. ASSUME UNCHANGED <<adm, runners>> PROVE CapInv'
  BY <1>1, AsideCap DEF NoRun
<1>2. CASE \/ BootSolo \/ BootBatches \/ Serve
           \/ (BootReconciled \/ BootSweep) /\ UNCHANGED <<adm, btok, bfire, poll>>
  BY <1>1, <1>2 DEF BootSolo, BootBatches, Serve, BootReconciled, BootSweep
<1>3. ASSUME NEW t \in Task, BootTask(t), UNCHANGED adm PROVE CapInv'
  <2>1. CASE BootSettle(t) \/ BootCheckpoint(t) \/ BootSoloClaim(t)
    BY <1>1, <1>3, <2>1 DEF BootSettle, BootCheckpoint, BootSoloClaim
  <2>2. CASE BootSoloSpawn(t)
    <3>1. t \in Solo
      BY <2>2, Tasks DEF BootSoloSpawn, Inv, BootInv
    <3>2. NoRun
      BY <2>2, <3>1 DEF BootSoloSpawn, spawn, Runner, NoRun
    <3> QED BY <1>3, <3>2, AsideCap
  <2> QED BY <1>3, <2>1, <2>2 DEF BootTask
<1>4. ASSUME NEW t \in Task, BootOrphan(t) PROVE CapInv'
  BY <1>1, <1>4 DEF BootOrphan, taskVars
<1>5. ASSUME NEW b \in Batch, BootBatch(b) PROVE CapInv'
  <2> DEFINE Q == {t \in Items[b] : public(t) = "Working"}
             P == {t \in Items[b] : row[t].status = "none"}
  <2>1. Q \in SUBSET Task /\ P \in SUBSET Task
    BY Tasks
  <2>2. adm[b].inflight = {}
    BY <1>5 DEF BootBatch, Inv, BootInv, LoopInv, LoopSound
  <2>3. NoRun /\ adm' = [adm EXCEPT ![b] = NewLoop("top", Q, P)]
    BY <1>5 DEF BootBatch, NoRun
  <2> QED BY <2>1, <2>2, <2>3, NewLoopCap
<1>6. ASSUME NEW b \in Batch, BootCorrupt(b) \/ BootSkip(b) \/ BootCanceled(b) PROVE CapInv'
  BY <1>1, <1>6 DEF BootCorrupt, BootSkip, BootCanceled
<1>7. ASSUME NEW b \in Batch, NEW t \in Task, BootCancelChild(b, t) PROVE CapInv'
  BY <1>1, <1>7 DEF BootCancelChild, taskVars
<1> QED BY <1>2, <1>3, <1>4, <1>5, <1>6, <1>7 DEF BootStep

\* With no loop nothing is held.
LEMMA NoLoopCap == Inv /\ runners = {} /\ (\A b \in Batch : adm[b] = NoLoop) => CapInv
<1> SUFFICES ASSUME Inv, runners = {}, \A b \in Batch : adm[b] = NoLoop PROVE CapInv
  OBVIOUS
<1>1. \A b \in Batch : adm[b].inflight = {} /\ adm[b].pc = "none"
  BY DEF NoLoop
<1>2. InFlight = {} /\ Takers = {}
  BY <1>1 DEF InFlight, Takers, Admitting
<1>3. PermitsHeld = 0
  BY <1>2, FS_EmptySet, Counts DEF Counted, Inv
<1>4. Cardinality({}) = 0
  BY FS_EmptySet
<1>5. \A b \in Batch : Room(b)
  BY <1>1, <1>4, BatchAssumption DEF Room, Admitting
<1> QED BY <1>3, <1>5, BatchAssumption DEF CapInv, RunCovered

\* A crash loses all the loops and all the runners.
LEMMA CrashCap == Inv' /\ Crash => CapInv'
<1>1. Crash => (runners = {} /\ \A b \in Batch : adm[b] = NoLoop)'
  BY DEF Crash
<1> QED BY <1>1, NoLoopCap, PTL

\* Every step keeps the two caps.
LEMMA NextCap ==
    ASSUME Inv, Inv', CapInv, [Next]_vars
    PROVE  CapInv'
<1>1. CASE UNCHANGED vars
  BY <1>1, AsideCap DEF vars, NoRun
<1> QED BY <1>1, TaskStepCap, LoopStepCap, BatchClientCap, BootStepCap, CrashCap DEF Next

-----------------------------------------------------------------------------
(* The theorem *)

\* The invariant bounds what executes.
LEMMA CapBounds == Inv /\ CapInv => CapsHold
<1> SUFFICES ASSUME Inv, CapInv PROVE CapsHold
  OBVIOUS
<1>0. LoopInv /\ Permits \in Nat /\ Concurrency \in Nat
  BY BatchAssumption DEF Inv
<1>1. ASSUME NEW ts, NEW T, IsFiniteSet(T),
             \A r \in runners : r.pc = "run" /\ r.task \in ts => r.task \in T
      PROVE  Executing(ts) \in Nat /\ Cardinality(T) \in Nat /\ Executing(ts) <= Cardinality(T)
  <2> DEFINE S == {r \in runners : r.task \in ts /\ r.pc = "run"}
             f == [r \in S |-> r.task]
  <2>1. f \in [S -> T]
    BY <1>1
  <2>2. \A r, s \in S : f[r] = f[s] => r = s
    BY DEF Inv, RunnerInv
  <2>3. f \in Injection(S, T)
    BY <2>1, <2>2 DEF Injection, IsInjective
  <2> QED BY <1>1, <2>3, FS_Injection, FS_CardinalityType DEF Executing
<1>2. \A b \in Batch : Executing(Items[b]) <= Concurrency
  <2> SUFFICES ASSUME NEW b \in Batch PROVE Executing(Items[b]) <= Concurrency
    OBVIOUS
  <2>1. IsFiniteSet(adm[b].inflight) /\ Cardinality(adm[b].inflight) <= Concurrency
    BY <1>0, Finite DEF CapInv, Room
  <2>2. \A r \in runners : r.pc = "run" /\ r.task \in Items[b] => r.task \in adm[b].inflight
    BY DEF CapInv, RunCovered
  <2>3. /\ Executing(Items[b]) \in Nat /\ Cardinality(adm[b].inflight) \in Nat
        /\ Executing(Items[b]) <= Cardinality(adm[b].inflight)
    BY <1>1, <2>1, <2>2
  <2> QED BY <1>0, <2>1, <2>3
<1>3. Executing(UNION {Items[b] : b \in Batch}) <= Permits
  <2> DEFINE all == UNION {Items[b] : b \in Batch}
  <2>1. \A r \in runners : r.pc = "run" /\ r.task \in all => r.task \in InFlight
    BY DEF CapInv, RunCovered, InFlight
  <2>2. IsFiniteSet(InFlight)
    BY <1>0, Finite
  <2>3. Executing(all) \in Nat /\ Executing(all) <= Cardinality(InFlight)
    BY <1>1, <2>1, <2>2
  <2>4. Counted /\ PermitsHeld <= Permits
    BY <1>0, Counts DEF CapInv
  <2> QED BY <1>0, <2>3, <2>4 DEF Counted
<1> QED BY <1>2, <1>3 DEF CapsHold

\* The workflows of batch items that execute at one time never pass the serve-wide permits, nor
\* those of one batch its concurrency: run_admission takes a permit before each child, resumed
\* or new, and gives it back only once the child's runner is joined.
THEOREM CapsAreKept == Spec => []CapsHold
<1>1. Init => CapInv
  <2>1. Init => runners = {} /\ \A b \in Batch : adm[b] = NoLoop
    BY DEF Init
  <2> QED BY <2>1, InitInv, NoLoopCap
<1>2. Inv /\ Inv' /\ CapInv /\ [Next]_vars => CapInv'
  BY NextCap
<1>3. Spec => []CapInv
  BY <1>1, <1>2, Invariance, PTL DEF Spec
<1> QED BY <1>3, CapBounds, Invariance, PTL
=============================================================================
