--------------------------- MODULE RegistryProofs ---------------------------
(***************************************************************************)
(* Proofs about Registry, for any number of callers, keys and slots.       *)
(*                                                                         *)
(* The first layer is about leases: the count is exact and the idle        *)
(* watcher's claim excludes them.  The second is about backends: who uses  *)
(* a cell, which drain runs for it, and who will retire a backend that     *)
(* landed in a slot taken out of use.                                      *)
(***************************************************************************)
EXTENDS Registry, FiniteSetTheorems, TLAPS

-----------------------------------------------------------------------------
(* Types *)

\* What the types alone do not say: a captured slot is one that has been created, and only a
\* bind is revalidated.
Captured ==
    /\ mapped <= used
    /\ \A p \in Caller :
          /\ caller[p].pc \notin {"ready", "load"} =>
                caller[p].slot \in Slot /\ caller[p].slot <= used
          /\ caller[p].pc \in {"revalidate", "bound"} => caller[p].bind
\* Every counted lease is there to be dropped (part of CountExact, for one slot).
Counted == \A p \in Caller : Leased(p) => slot[caller[p].slot].leases > 0

\* The constant records are well typed.
LEMMA RecordTypes ==
    /\ SharedCell \in CellId
    /\ Idle \in CallerRecord
    /\ \A keyed \in BOOLEAN : NewSlot(keyed) \in SlotRecord
<1>1. SharedCell \in CellId
  BY RegistryAssumption DEF SharedCell, CellId
<1>2. Idle \in CallerRecord
  BY <1>1 DEF Idle, CallerRecord, CallerPc, NoSlot, NoEntry
<1>3. \A keyed \in BOOLEAN : NewSlot(keyed) \in SlotRecord
  BY RegistryAssumption DEF NewSlot, SlotRecord
<1> QED BY <1>1, <1>2, <1>3

\* The registry starts well typed, with its one slot mapped and nobody inside.
LEMMA RegistryTypeInit == Init => TypeOK /\ Captured
<1> SUFFICES ASSUME Init PROVE TypeOK /\ Captured
  OBVIOUS
<1>1. 1 \in Slot
  BY RegistryAssumption DEF Slot
<1>2. slot \in [Slot -> SlotRecord]
  BY RecordTypes, RegistryAssumption DEF Init
<1>3. /\ cells \in [Slot -> [CellId -> CellState]]
      /\ watch \in [Slot -> [pc: WatchPc, woken: BOOLEAN]]
      /\ drain \in [Slot -> [CellId -> [pc: DrainPc, woken: BOOLEAN]]]
  BY DEF Init, CellState, WatchPc, DrainPc
<1>4. caller \in [Caller -> CallerRecord] /\ \A p \in Caller : caller[p].pc = "ready"
  BY RecordTypes DEF Init, Idle
<1> QED BY <1>1, <1>2, <1>3, <1>4 DEF Init, TypeOK, Captured, NoSlot

\* Waking the waiters of a slot keeps the types of watchers and drains.
LEMMA NotifyType ==
    ASSUME TypeOK, NEW s \in Slot, notify_waiters(s)
    PROVE  /\ watch' \in [Slot -> [pc: WatchPc, woken: BOOLEAN]]
           /\ drain' \in [Slot -> [CellId -> [pc: DrainPc, woken: BOOLEAN]]]
<1>1. \A w \in [pc: WatchPc, woken: BOOLEAN] : Woken(w) \in [pc: WatchPc, woken: BOOLEAN]
  BY DEF Woken
<1>2. \A w \in [pc: DrainPc, woken: BOOLEAN] : Woken(w) \in [pc: DrainPc, woken: BOOLEAN]
  BY DEF Woken
<1>3. [x \in CellId |-> Woken(drain[s][x])] \in [CellId -> [pc: DrainPc, woken: BOOLEAN]]
  BY <1>2 DEF TypeOK
<1> QED BY <1>1, <1>3 DEF TypeOK, notify_waiters

\* Drop for LeaseGuard keeps the types: the count it decrements is positive.
LEMMA ReleaseType ==
    ASSUME TypeOK, Captured, Counted, NEW p \in Caller, Leased(p), release(p)
    PROVE  /\ slot' \in [Slot -> SlotRecord]
           /\ watch' \in [Slot -> [pc: WatchPc, woken: BOOLEAN]]
           /\ drain' \in [Slot -> [CellId -> [pc: DrainPc, woken: BOOLEAN]]]
<1> DEFINE s == caller[p].slot
<1>1. s \in Slot
  BY DEF Captured, Leased, Granted
<1>2. slot[s].leases - 1 \in Nat
  BY <1>1 DEF Counted, TypeOK, SlotRecord
<1>3. slot' \in [Slot -> SlotRecord]
  BY <1>1, <1>2, ZenonT(60) DEF release, TypeOK, SlotRecord
<1> QED BY <1>1, <1>3, NotifyType DEF release

\* Writing one cell keeps the type of the cells.
LEMMA CellType ==
    ASSUME TypeOK, NEW s \in Slot, NEW x \in CellId, NEW v \in CellState
    PROVE  [cells EXCEPT ![s][x] = v] \in [Slot -> [CellId -> CellState]]
<1>1. [cells[s] EXCEPT ![x] = v] \in [CellId -> CellState]
  BY DEF TypeOK
<1> QED BY <1>1 DEF TypeOK

\* The backends of the cells X of slot s have been asked to retire; each accepted or refused.
Asks(s, X) ==
    \A t \in Slot, y \in CellId :
        IF t = s /\ y \in X /\ cells[t][y] \in {"live", "refused"}
        THEN cells'[t][y] \in {"refused", "retired"} ELSE cells'[t][y] = cells[t][y]

\* That is what a retirement attempt does.
LEMMA AskEffect ==
    ASSUME TypeOK, NEW s \in Slot, NEW X, retire_join_or_refuse(s, X)
    PROVE  Asks(s, X) /\ cells' \in [Slot -> [CellId -> CellState]]
<1>1. PICK refusing \in SUBSET X :
        cells' = [cells EXCEPT ![s] =
                     [x \in CellId |-> IF x \notin X \/ @[x] \notin {"live", "refused"} THEN @[x]
                                       ELSE IF x \in refusing THEN "refused" ELSE "retired"]]
  BY DEF retire_join_or_refuse
<1> DEFINE row == [x \in CellId |-> IF x \notin X \/ cells[s][x] \notin {"live", "refused"} THEN cells[s][x]
                                    ELSE IF x \in refusing THEN "refused" ELSE "retired"]
<1>2. cells' = [cells EXCEPT ![s] = row]
  BY <1>1
<1>3. row \in [CellId -> CellState]
  BY DEF TypeOK, CellState
<1>4. \A y \in CellId : IF y \in X /\ cells[s][y] \in {"live", "refused"}
                        THEN row[y] \in {"refused", "retired"} ELSE row[y] = cells[s][y]
  OBVIOUS
<1> HIDE DEF row
<1>5. Asks(s, X)
  BY <1>2, <1>4 DEF Asks, TypeOK
<1> QED BY <1>2, <1>3, <1>5 DEF TypeOK

\* The steps of a resolve or a bind keep the types.
LEMMA TypeResolve ==
    ASSUME TypeOK, Captured, Counted, NEW p \in Caller, ResolveStep(p)
    PROVE  TypeOK'
<1> DEFINE k == caller[p]
<1>0. /\ k \in CallerRecord /\ k.cell \in CellId
      /\ k.pc \notin {"ready", "load"} => k.slot \in Slot
  BY DEF TypeOK, Captured, CallerRecord
<1>1. \A pc \in CallerPc : [caller EXCEPT ![p].pc = pc] \in [Caller -> CallerRecord]
  BY ZenonT(60) DEF TypeOK, CallerRecord
<1>2. /\ [caller EXCEPT ![p] = Idle] \in [Caller -> CallerRecord]
      /\ again(p) => caller' \in [Caller -> CallerRecord]
  <2>1. [Idle EXCEPT !.pc = "load", !.bind = caller[p].bind, !.want = caller[p].want]
          \in CallerRecord
    BY <1>0, RecordTypes DEF CallerRecord, CallerPc
  <2> QED BY <2>1, RecordTypes DEF again, TypeOK
<1>3. ASSUME k.pc \notin {"ready", "load"}
      PROVE  start_idle_watch(k.slot) \in [Slot -> [pc: WatchPc, woken: BOOLEAN]]
  BY <1>0, <1>3, ZenonT(60) DEF start_idle_watch, TypeOK, WatchPc
<1>4. CASE Load(p)
  <2> DEFINE pc == IF k.bind THEN "count" ELSE "cell"
             r == [k EXCEPT !.slot = mapped, !.pc = pc]
  <2>0. mapped \in Nat /\ pc \in CallerPc
    BY RegistryAssumption DEF TypeOK, Slot, NoSlot, CallerPc
  <2> HIDE DEF pc
  <2>1. r \in CallerRecord
    BY <1>0, <2>0 DEF CallerRecord
  <2>2. caller' = [caller EXCEPT ![p] = Idle] \/ caller' = [caller EXCEPT ![p] = r]
    BY <1>4 DEF Load, pc
  <2>3. caller' \in [Caller -> CallerRecord]
    BY <2>1, <2>2, <1>2 DEF TypeOK
  <2> QED BY <1>4, <2>3 DEF Load, TypeOK
<1>5. CASE GetOrInit(p)
  <2>1. cells' \in [Slot -> [CellId -> CellState]]
    <3>1. k.slot \in Slot
      BY <1>5, <1>0 DEF GetOrInit
    <3>2. [cells EXCEPT ![k.slot][k.cell] = "spawning"] \in [Slot -> [CellId -> CellState]]
      BY <1>0, <3>1, CellType DEF CellState
    <3> QED BY <1>5, <3>2 DEF GetOrInit, TypeOK
  <2>2. caller' \in [Caller -> CallerRecord]
    BY <1>5, <1>1 DEF GetOrInit, goto, CallerPc
  <2>3. watch' \in [Slot -> [pc: WatchPc, woken: BOOLEAN]]
    BY <1>5, <1>3 DEF GetOrInit, TypeOK
  <2> QED BY <1>5, <2>1, <2>2, <2>3 DEF GetOrInit, TypeOK
<1>6. ASSUME NEW ok \in BOOLEAN, Spawned(p, ok)
      PROVE  TypeOK'
  <2> DEFINE r1 == [k EXCEPT !.init = ~k.bind, !.pc = IF k.bind THEN "held" ELSE "count"]
             r2 == [k EXCEPT !.pc = "bound"]
  <2>1. r1 \in CallerRecord /\ r2 \in CallerRecord
    BY <1>0 DEF CallerRecord, CallerPc
  <2>2. \/ caller' = [caller EXCEPT ![p] = Idle] \/ caller' = [caller EXCEPT ![p] = r1]
        \/ caller' = [caller EXCEPT ![p] = r2]
    BY <1>6 DEF Spawned
  <2>3. caller' \in [Caller -> CallerRecord]
    BY <2>1, <2>2, <1>2 DEF TypeOK
  <2>4. cells' \in [Slot -> [CellId -> CellState]]
    BY <1>6, <1>0, CellType DEF Spawned, TypeOK, CellState
  <2>5. watch' \in [Slot -> [pc: WatchPc, woken: BOOLEAN]]
    BY <1>6, <1>3 DEF Spawned, TypeOK
  <2> QED BY <1>6, <2>3, <2>4, <2>5 DEF Spawned, TypeOK
<1>7. CASE AcquireCount(p)
  <2>0. k.slot \in Slot /\ slot[k.slot].leases + 1 \in Nat
    BY <1>7, <1>0 DEF AcquireCount, TypeOK, SlotRecord
  <2>1. slot' \in [Slot -> SlotRecord]
    BY <1>7, <2>0, ZenonT(60) DEF AcquireCount, TypeOK, SlotRecord
  <2> QED BY <1>7, <2>1, <1>1 DEF AcquireCount, goto, CallerPc, TypeOK
<1>8. CASE AcquireBump(p)
  <2>1. slot' \in [Slot -> SlotRecord]
    BY <1>8, <1>0, ZenonT(60) DEF AcquireBump, TypeOK, SlotRecord
  <2> QED BY <1>8, <2>1, <1>1 DEF AcquireBump, goto, CallerPc, TypeOK
<1>9. CASE CheckIdle(p)
  <2>1. Leased(p)
    BY <1>9 DEF CheckIdle, Leased
  <2>2. caller' \in [Caller -> CallerRecord]
    BY <1>9, <1>1, <1>2 DEF CheckIdle, goto, CallerPc
  <2> QED BY <1>9, <2>1, <2>2, ReleaseType DEF CheckIdle, TypeOK
<1>10. CASE CheckRetired(p)
  <2>1. Leased(p)
    BY <1>10 DEF CheckRetired, Leased, Granted
  <2>2. caller' \in [Caller -> CallerRecord]
    BY <1>10, <1>1, <1>2 DEF CheckRetired, goto, CallerPc
  <2>3. CASE slot[k.slot].retired
    BY <1>10, <2>1, <2>2, <2>3, ReleaseType DEF CheckRetired, TypeOK
  <2>4. CASE ~slot[k.slot].retired
    <3>1. watch' \in [Slot -> [pc: WatchPc, woken: BOOLEAN]]
      BY <1>10, <2>4, <1>3 DEF CheckRetired, TypeOK
    <3> QED BY <1>10, <2>2, <2>4, <3>1 DEF CheckRetired, TypeOK
  <2> QED BY <2>3, <2>4
<1>11. CASE Revalidate(p)
  <2>1. Leased(p)
    BY <1>11 DEF Revalidate, Leased, Granted
  <2>2. caller' \in [Caller -> CallerRecord]
    <3>1. [caller EXCEPT ![p].pc = "bound", ![p].version = slot[k.slot].version]
            \in [Caller -> CallerRecord]
      BY <1>11, <1>0 DEF Revalidate, TypeOK, CallerRecord, CallerPc, SlotRecord
    <3> QED BY <1>11, <3>1, <1>2 DEF Revalidate
  <2> QED BY <1>11, <2>1, <2>2, ReleaseType DEF Revalidate, TypeOK
<1>12. CASE AwaitWriter(p) \/ RaceLoss(p)
  <2>1. cells' \in [Slot -> [CellId -> CellState]]
    <3>1. k.slot \in Slot
      BY <1>12, <1>0 DEF AwaitWriter, RaceLoss
    <3>2. retire_join_or_refuse(k.slot, {k.cell}) \/ UNCHANGED cells
      BY <1>12 DEF AwaitWriter, RaceLoss
    <3> QED BY <3>1, <3>2, AskEffect DEF TypeOK
  <2> QED BY <1>12, <2>1, <1>2 DEF AwaitWriter, RaceLoss, TypeOK
<1> QED BY <1>4, <1>5, <1>6, <1>7, <1>8, <1>9, <1>10, <1>11, <1>12 DEF ResolveStep


\* The other steps of a task keep the types.
LEMMA TypeCaller ==
    ASSUME TypeOK, Captured, Counted, NEW p \in Caller,
           Start(p) \/ ResolveBound(p) \/ Done(p) \/ DropFuture(p)
    PROVE  TypeOK'
<1> DEFINE k == caller[p]
<1>0. /\ k \in CallerRecord /\ k.cell \in CellId
      /\ k.pc \notin {"ready", "load"} => k.slot \in Slot
  BY DEF TypeOK, Captured, CallerRecord
<1>1. [caller EXCEPT ![p] = Idle] \in [Caller -> CallerRecord]
  BY RecordTypes DEF TypeOK
<1>2. CASE Start(p)
  <2>1. mapped \in Nat /\ (mapped # NoSlot => slot[mapped].version \in Nat)
    BY RegistryAssumption DEF TypeOK, Slot, NoSlot, SlotRecord
  <2> DEFINE w == <<mapped, slot[mapped].version>>
             r1 == [k EXCEPT !.pc = "load"]
             r2 == [k EXCEPT !.pc = "load", !.want = w]
             r3 == [k EXCEPT !.pc = "load", !.bind = TRUE]
  <2>2. r1 \in CallerRecord /\ r3 \in CallerRecord
    BY <1>0 DEF CallerRecord, CallerPc
  <2>3. mapped # NoSlot => w \in Nat \X Nat
    BY <2>1
  <2> HIDE DEF w
  <2>4. mapped # NoSlot => r2 \in CallerRecord
    BY <1>0, <2>3 DEF CallerRecord, CallerPc
  <2>5. \/ caller' = [caller EXCEPT ![p] = r1] \/ caller' = [caller EXCEPT ![p] = r3]
        \/ mapped # NoSlot /\ caller' = [caller EXCEPT ![p] = r2]
    BY <1>2 DEF Start, w
  <2> HIDE DEF r1, r2, r3
  <2>6. caller' \in [Caller -> CallerRecord]
    BY <2>2, <2>4, <2>5 DEF TypeOK
  <2> QED BY <1>2, <2>6 DEF Start, TypeOK
<1>3. CASE ResolveBound(p)
  <2>1. k.slot \in Slot
    BY <1>0, <1>3 DEF ResolveBound
  <2> DEFINE y(key) == <<key, slot[k.slot].rekeyed[key]>>
             r(x) == [k EXCEPT !.pc = "cell", !.cell = x]
  <2>2. \A key \in Key : y(key) \in CellId
    BY <2>1 DEF CellId, TypeOK, SlotRecord
  <2>3. \A x \in CellId : r(x) \in CallerRecord
    BY <1>0 DEF CallerRecord, CallerPc
  <2>4. \E x \in CellId : caller' = [caller EXCEPT ![p] = r(x)]
    <3>1. PICK key \in Key :
            caller' = [caller EXCEPT ![p].pc = "cell",
                          ![p].cell = IF slot[k.slot].keyed THEN y(key) ELSE SharedCell]
      BY <1>3 DEF ResolveBound
    <3> DEFINE x == IF slot[k.slot].keyed THEN y(key) ELSE SharedCell
    <3>2. x \in CellId
      BY <2>2, RecordTypes
    <3>3. caller' = [caller EXCEPT ![p] = r(x)]
      <4> HIDE DEF x
      <4>1. caller' = [caller EXCEPT ![p].pc = "cell", ![p].cell = x]
        BY <3>1 DEF x
      <4> QED BY <4>1
    <3> QED BY <3>2, <3>3
  <2>5. caller' \in [Caller -> CallerRecord]
    <3> HIDE DEF r
    <3> QED BY <2>3, <2>4 DEF TypeOK
  <2> QED BY <1>3, <2>5 DEF ResolveBound, TypeOK
<1>4. CASE Done(p)
  <2>1. Leased(p)
    BY <1>4 DEF Done, Leased, Granted
  <2> QED BY <1>1, <1>4, <2>1, ReleaseType DEF Done, TypeOK
<1>5. CASE DropFuture(p)
  <2>1. k.slot \in Slot
    BY <1>0, <1>5, RegistryAssumption DEF DropFuture
  <2>2. [cells EXCEPT ![k.slot][k.cell] = "empty"] \in [Slot -> [CellId -> CellState]]
    BY <1>0, <2>1, CellType DEF CellState
  <2> QED BY <1>1, <1>5, <2>2 DEF DropFuture, TypeOK
<1> QED BY <1>2, <1>3, <1>4, <1>5

\* Publishing a state keeps the types, and the new slot is one that was not in use.
LEMMA PublishType ==
    ASSUME TypeOK, NEW next, NEW keyed \in BOOLEAN, Publish(next, keyed)
    PROVE  /\ mapped' \in Slot \cup {NoSlot} /\ used' \in Slot /\ writer' \in Slot \cup {NoSlot}
           /\ slot' \in [Slot -> SlotRecord]
           /\ used <= used' /\ mapped' <= used'
<1>1. CASE next = NoSlot
  BY <1>1, RegistryAssumption DEF Publish, TypeOK, Slot, NoSlot
<1>2. CASE next # NoSlot
  <2>1. next = used + 1 /\ next \in Slot
    BY <1>2 DEF Publish
  <2>2. slot' \in [Slot -> SlotRecord]
    BY <1>2, <2>1, RecordTypes DEF Publish, TypeOK
  <2> QED BY <1>2, <2>1, <2>2, RegistryAssumption DEF Publish, TypeOK, Slot, NoSlot
<1> QED BY <1>1, <1>2

\* The writers keep the types.
LEMMA TypeWriter ==
    ASSUME TypeOK, Captured,
           \/ ApplyReplace \/ ApplyReuse \/ Invalidate \/ MarkRetired
           \/ \E p \in Caller, key \in Key : InvalidateBound(p, key)
    PROVE  TypeOK'
<1>1. CASE ApplyReplace
  <2>1. CASE Publish(NoSlot, FALSE)
    BY <1>1, <2>1, PublishType DEF ApplyReplace, TypeOK
  <2>2. ASSUME NEW keyed \in Scopes, Publish(used + 1, keyed)
        PROVE  TypeOK'
    <3>1. keyed \in BOOLEAN
      BY RegistryAssumption
    <3> QED BY <1>1, <2>2, <3>1, PublishType DEF ApplyReplace, TypeOK
  <2> QED BY <1>1, <2>1, <2>2 DEF ApplyReplace
<1>2. CASE ApplyReuse
  <2>1. mapped \in Slot /\ slot[mapped].version + 1 \in Nat
    BY <1>2 DEF ApplyReuse, TypeOK, SlotRecord
  <2>2. slot' \in [Slot -> SlotRecord]
    BY <1>2, <2>1, ZenonT(60) DEF ApplyReuse, TypeOK, SlotRecord
  <2> QED BY <1>2, <2>2 DEF ApplyReuse, TypeOK
<1>3. CASE Invalidate
  <2>1. mapped \in Slot /\ slot[mapped].keyed \in BOOLEAN
    BY <1>3 DEF Invalidate, TypeOK, SlotRecord
  <2> QED BY <1>3, <2>1, PublishType DEF Invalidate, TypeOK
<1>4. CASE MarkRetired
  <2>1. writer \in Slot
    BY <1>4 DEF MarkRetired, TypeOK
  <2>2. slot' \in [Slot -> SlotRecord]
    BY <1>4, <2>1, ZenonT(60) DEF MarkRetired, TypeOK, SlotRecord
  <2>3. watch' \in [Slot -> [pc: WatchPc, woken: BOOLEAN]]
    <3> DEFINE w == watch[writer]
               r == IF w.pc = "retire" THEN [w EXCEPT !.pc = "ended"] ELSE Woken(w)
    <3>1. r \in [pc: WatchPc, woken: BOOLEAN]
      BY <2>1 DEF TypeOK, Woken, WatchPc
    <3>2. watch' = [watch EXCEPT ![writer] = r]
      BY <1>4 DEF MarkRetired
    <3> HIDE DEF r
    <3> QED BY <2>1, <3>1, <3>2 DEF TypeOK
  <2>4. drain' \in [Slot -> [CellId -> [pc: DrainPc, woken: BOOLEAN]]]
    <3> DEFINE row == [x \in CellId |-> IF x = SharedCell THEN [pc |-> "check", woken |-> FALSE]
                                        ELSE Woken(drain[writer][x])]
    <3>1. row \in [CellId -> [pc: DrainPc, woken: BOOLEAN]]
      <4>1. \A w \in [pc: DrainPc, woken: BOOLEAN] : Woken(w) \in [pc: DrainPc, woken: BOOLEAN]
        BY DEF Woken
      <4>2. [pc |-> "check", woken |-> FALSE] \in [pc: DrainPc, woken: BOOLEAN]
        BY DEF DrainPc
      <4> QED BY <2>1, <4>1, <4>2 DEF TypeOK
    <3>2. drain' = [drain EXCEPT ![writer] = row]
      BY <1>4 DEF MarkRetired
    <3> HIDE DEF row
    <3> QED BY <2>1, <3>1, <3>2 DEF TypeOK
  <2> QED BY <1>4, <2>2, <2>3, <2>4 DEF MarkRetired, TypeOK
<1>5. ASSUME NEW p \in Caller, NEW key \in Key, InvalidateBound(p, key)
      PROVE  TypeOK'
  <2> DEFINE s == caller[p].slot
             x == <<key, slot[s].rekeyed[key]>>
  <2>1. s \in Slot /\ x \in CellId /\ slot[s] \in SlotRecord
    <3>1. s \in Slot
      BY <1>5 DEF InvalidateBound, Captured
    <3>2. slot[s] \in SlotRecord
      BY <3>1 DEF TypeOK
    <3>3. slot[s].rekeyed[key] \in 0..MaxRekey
      BY <3>2 DEF SlotRecord
    <3> QED BY <3>1, <3>2, <3>3 DEF CellId
  <2>2. CASE slot[s].keyed
    <3> DEFINE row == [slot[s].rekeyed EXCEPT ![key] = @ + 1]
               r == [slot[s] EXCEPT !.rekeyed = row]
               d == [drain[s][x] EXCEPT !.pc = "check"]
               drow == [drain[s] EXCEPT ![x] = d]
    <3>1. row \in [Key -> 0..MaxRekey]
      <4>1. slot[s].rekeyed \in [Key -> 0..MaxRekey] /\ slot[s].rekeyed[key] < MaxRekey
        BY <1>5, <2>1, <2>2 DEF InvalidateBound, SlotRecord
      <4>2. slot[s].rekeyed[key] + 1 \in 0..MaxRekey
        BY <4>1, RegistryAssumption
      <4> QED BY <4>1, <4>2
    <3>2. slot' = [slot EXCEPT ![s] = r] /\ drain' = [drain EXCEPT ![s] = drow]
      BY <1>5, <2>2 DEF InvalidateBound
    <3> HIDE DEF row
    <3>3. r \in SlotRecord
      BY <2>1, <3>1 DEF SlotRecord
    <3>4. d \in [pc: DrainPc, woken: BOOLEAN]
      <4>1. drain[s][x] \in [pc: DrainPc, woken: BOOLEAN]
        BY <2>1 DEF TypeOK
      <4> QED BY <4>1 DEF DrainPc
    <3> HIDE DEF r, d, x
    <3>5. drow \in [CellId -> [pc: DrainPc, woken: BOOLEAN]]
      BY <2>1, <3>4 DEF TypeOK
    <3> HIDE DEF drow
    <3>6. /\ slot' \in [Slot -> SlotRecord]
          /\ drain' \in [Slot -> [CellId -> [pc: DrainPc, woken: BOOLEAN]]]
      BY <2>1, <3>2, <3>3, <3>5 DEF TypeOK
    <3> QED BY <1>5, <2>2, <3>6 DEF InvalidateBound, TypeOK
  <2>3. CASE ~slot[s].keyed
    <3>1. slot[s].keyed \in BOOLEAN
      BY <2>1 DEF SlotRecord
    <3> QED BY <1>5, <2>3, <3>1, PublishType DEF InvalidateBound, TypeOK
  <2> QED BY <2>2, <2>3
<1> QED BY <1>1, <1>2, <1>3, <1>4, <1>5

\* The detached tasks keep the types.
LEMMA TypeTask ==
    ASSUME TypeOK, NEW s \in Slot,
           WatchStep(s) \/ DrainRetireKeyed(s) \/ \E x \in CellId : DrainStep(s, x)
    PROVE  TypeOK'
<1> DEFINE W == [Slot -> [pc: WatchPc, woken: BOOLEAN]]
<1>1. \A pc \in WatchPc : watchGoto(s, pc) => watch' \in W
  BY DEF watchGoto, TypeOK
<1>2. /\ [slot EXCEPT ![s].idle = TRUE] \in [Slot -> SlotRecord]
      /\ [slot EXCEPT ![s].idle = FALSE] \in [Slot -> SlotRecord]
      /\ [slot EXCEPT ![s].stale = FALSE] \in [Slot -> SlotRecord]
  BY ZenonT(60) DEF TypeOK, SlotRecord
<1>3. CASE WatchStart(s) \/ WatchLeases(s) \/ WatchWake(s) \/ WatchExpires(s)
  <2>1. watch' \in W
    <3>1. \A pc \in WatchPc : [watch EXCEPT ![s].pc = pc] \in W
      BY DEF TypeOK
    <3>2. CASE WatchStart(s)
      BY <3>2, <1>1 DEF WatchStart, WatchPc
    <3>3. CASE WatchLeases(s)
      BY <3>3, <3>1 DEF WatchLeases, WatchPc
    <3>4. CASE WatchWake(s)
      BY <3>4, <1>1 DEF WatchWake, WatchPc
    <3>5. CASE WatchExpires(s)
      <4> DEFINE pc == IF slot[s].leases > 0 \/ slot[s].stale THEN "start" ELSE "lock"
      <4>1. watchGoto(s, pc) /\ pc \in WatchPc
        BY <3>5 DEF WatchExpires, WatchPc
      <4> HIDE DEF pc
      <4> QED BY <4>1, <1>1
    <3> QED BY <1>3, <3>2, <3>3, <3>4, <3>5
  <2> QED BY <1>3, <1>2, <2>1 DEF WatchStart, WatchLeases, WatchWake, WatchExpires, TypeOK
<1>4. CASE WatchLock(s) \/ ClaimLeases(s) \/ ClaimEpoch(s)
  <2>1. watch' \in W
    BY <1>4, <1>1 DEF WatchLock, ClaimLeases, ClaimEpoch, withdraw, WatchPc
  <2> QED BY <1>4, <1>2, <2>1 DEF WatchLock, ClaimLeases, ClaimEpoch, withdraw, TypeOK
<1>5. CASE WatchSwap(s)
  <2>1. watch' \in W /\ slot[s].keyed \in BOOLEAN
    BY <1>5, <1>1 DEF WatchSwap, WatchPc, TypeOK, SlotRecord
  <2> QED BY <1>5, <2>1, PublishType DEF WatchSwap, TypeOK
<1>6. ASSUME NEW x \in CellId, NEW pc \in DrainPc, drainGoto(s, x, pc)
      PROVE  drain' \in [Slot -> [CellId -> [pc: DrainPc, woken: BOOLEAN]]]
  <2> DEFINE row == [drain[s] EXCEPT ![x] = [pc |-> pc, woken |-> FALSE]]
  <2>1. row \in [CellId -> [pc: DrainPc, woken: BOOLEAN]]
    BY DEF TypeOK
  <2>2. drain' = [drain EXCEPT ![s] = row]
    BY <1>6 DEF drainGoto
  <2> QED BY <2>1, <2>2 DEF TypeOK
<1>7. ASSUME NEW X, retire_join_or_refuse(s, X)
      PROVE  cells' \in [Slot -> [CellId -> CellState]]
  BY <1>7, AskEffect
<1>8. CASE DrainRetireKeyed(s)
  <2>1. drain' \in [Slot -> [CellId -> [pc: DrainPc, woken: BOOLEAN]]]
    BY <1>6, <1>8, RecordTypes DEF DrainRetireKeyed, DrainPc
  <2> QED BY <1>7, <1>8, <2>1 DEF DrainRetireKeyed, TypeOK
<1>9. ASSUME NEW x \in CellId, DrainStep(s, x)
      PROVE  TypeOK'
  <2>1. drain' \in [Slot -> [CellId -> [pc: DrainPc, woken: BOOLEAN]]]
    BY <1>6, <1>9 DEF DrainStep, DrainCheck, DrainRegister, DrainWake, DrainRetire, DrainPc
  <2>2. cells' \in [Slot -> [CellId -> CellState]]
    BY <1>7, <1>9 DEF DrainStep, DrainCheck, DrainRegister, DrainWake, DrainRetire, TypeOK
  <2> QED BY <1>9, <2>1, <2>2
         DEF DrainStep, DrainCheck, DrainRegister, DrainWake, DrainRetire, TypeOK
<1> QED BY <1>3, <1>4, <1>5, <1>8, <1>9 DEF WatchStep

-----------------------------------------------------------------------------
(* What one step of a task does to its lease *)

\* The step leaves the lease, or its absence, alone.
Kept(p) ==
    /\ \A s \in Slot : slot'[s].leases = slot[s].leases
    /\ Leased(p)' <=> Leased(p)
    /\ Leased(p) => caller'[p].slot = caller[p].slot
\* The step counts a lease for p.
Taken(p) ==
    /\ ~Leased(p) /\ Leased(p)' /\ caller'[p].slot = caller[p].slot
    /\ slot'[caller[p].slot].leases = slot[caller[p].slot].leases + 1
    /\ \A s \in Slot \ {caller[p].slot} : slot'[s].leases = slot[s].leases
\* The step drops p's lease.
Dropped(p) ==
    /\ Leased(p) /\ ~Leased(p)'
    /\ slot'[caller[p].slot].leases = slot[caller[p].slot].leases - 1
    /\ \A s \in Slot \ {caller[p].slot} : slot'[s].leases = slot[s].leases
\* A lease is granted on the slot it was counted on, and only if the slot was not claimed.
GrantRule(p) ==
    Granted(p)' => /\ caller'[p].slot = caller[p].slot
                   /\ Granted(p) \/ ~slot[caller[p].slot].idle
\* The step captures only the mapped slot, or keeps the one it had.
CaptureRule(p) ==
    /\ caller'[p].pc \notin {"ready", "load"} =>
          \/ caller'[p].slot = mapped /\ mapped # NoSlot
          \/ caller'[p].slot = caller[p].slot /\ caller[p].pc \notin {"ready", "load"}
    /\ caller'[p].pc \in {"revalidate", "bound"} => caller'[p].bind
\* Only task p changes.
Others(p) == \A q \in Caller \ {p} : caller'[q] = caller[q]
\* A task starts a watcher, or wakes one, and does nothing else to it.
WatchRule ==
    \A s \in Slot : \/ watch'[s].pc = watch[s].pc
                    \/ watch[s].pc = "off" /\ watch'[s].pc = "start"

\* The parts of a record that the rules talk about, after each kind of assignment to it.
LEMMA Moves ==
    ASSUME TypeOK, NEW p \in Caller
    PROVE  /\ \A pc \in CallerPc : goto(p, pc) =>
                 /\ caller'[p].pc = pc /\ caller'[p].bind = caller[p].bind
                 /\ caller'[p].slot = caller[p].slot /\ Others(p)
           /\ again(p) => caller'[p].pc = "load" /\ Others(p)
           /\ caller' = [caller EXCEPT ![p] = Idle] => caller'[p].pc = "ready" /\ Others(p)
<1>1. ASSUME NEW pc \in CallerPc, goto(p, pc)
      PROVE  /\ caller'[p].pc = pc /\ caller'[p].bind = caller[p].bind
             /\ caller'[p].slot = caller[p].slot /\ Others(p)
  BY <1>1 DEF goto, TypeOK, CallerRecord, Others
<1>2. again(p) => caller'[p].pc = "load" /\ Others(p)
  BY DEF again, TypeOK, Idle, Others
<1>3. caller' = [caller EXCEPT ![p] = Idle] => caller'[p].pc = "ready" /\ Others(p)
  BY DEF TypeOK, Idle, Others
<1> QED BY <1>1, <1>2, <1>3

\* Dropping a lease changes the count of its slot, no claim, and the program counter of no watcher.
LEMMA ReleaseEffect ==
    ASSUME TypeOK, NEW p \in Caller, caller[p].slot \in Slot, release(p)
    PROVE  /\ slot'[caller[p].slot].leases = slot[caller[p].slot].leases - 1
           /\ \A s \in Slot \ {caller[p].slot} : slot'[s].leases = slot[s].leases
           /\ \A s \in Slot : slot'[s].idle = slot[s].idle
           /\ WatchRule
<1>1. /\ slot'[caller[p].slot].leases = slot[caller[p].slot].leases - 1
      /\ \A s \in Slot \ {caller[p].slot} : slot'[s].leases = slot[s].leases
      /\ \A s \in Slot : slot'[s].idle = slot[s].idle
  BY DEF release, TypeOK, SlotRecord
<1>2. WatchRule
  BY DEF release, notify_waiters, Woken, TypeOK, WatchRule
<1> QED BY <1>1, <1>2

\* Starting the watcher of a slot obeys the rule for watchers.
LEMMA StartWatchEffect ==
    ASSUME TypeOK, NEW s \in Slot, watch' \in {watch, start_idle_watch(s)}
    PROVE  WatchRule
BY DEF start_idle_watch, TypeOK, WatchRule

\* Every step of a task obeys the rules.
Effect(p) ==
    /\ Others(p) /\ CaptureRule(p) /\ GrantRule(p) /\ WatchRule
    /\ Kept(p) \/ Taken(p) \/ Dropped(p)
    /\ \A s \in Slot : slot'[s].idle = slot[s].idle
    /\ UNCHANGED <<mapped, used>>

\* The steps of resolve, resolve_admitted and bind_entry_use obey the rules: a lease is
\* counted once, dropped once, and granted only past the look at the claim.
LEMMA ResolveEffect ==
    ASSUME TypeOK, Captured, NEW p \in Caller, ResolveStep(p)
    PROVE  Effect(p)
<1> DEFINE k == caller[p]
<1>0. /\ k.pc \notin {"ready", "load"} => k.slot \in Slot
      /\ UNCHANGED watch => WatchRule
      /\ k.bind \in BOOLEAN
  BY DEF Captured, WatchRule, TypeOK, CallerRecord
<1>1. CASE Load(p)
  <2>1. Others(p) /\ CaptureRule(p) /\ ~Granted(p)' /\ ~Leased(p)' /\ ~Leased(p)
    <3> DEFINE pc == IF k.bind THEN "count" ELSE "cell"
               r == [k EXCEPT !.slot = mapped, !.pc = pc]
    <3>1. CASE caller' = [caller EXCEPT ![p] = Idle]
      <4>1. caller'[p].pc = "ready" /\ Others(p)
        BY <3>1, Moves
      <4> QED BY <1>1, <4>1 DEF Load, CaptureRule, Leased, Granted
    <3>2. CASE caller' = [caller EXCEPT ![p] = r] /\ mapped # NoSlot
      <4>1. /\ Others(p) /\ caller'[p].pc = pc /\ caller'[p].bind = k.bind
            /\ caller'[p].slot = mapped
        BY <3>2 DEF TypeOK, CallerRecord, Others
      <4> QED BY <1>1, <3>2, <4>1 DEF Load, CaptureRule, Leased, Granted
    <3> QED BY <1>1, <3>1, <3>2 DEF Load
  <2> QED BY <1>0, <1>1, <2>1 DEF Load, Effect, GrantRule, Kept
<1>2. CASE GetOrInit(p)
  <2>1. PICK pc \in CallerPc :
          /\ goto(p, pc)
          /\ pc = "spawn" \/ pc = IF k.bind THEN "held" ELSE "count"
    BY <1>2 DEF GetOrInit, CallerPc
  <2>2. WatchRule
    BY <1>2, <1>0, StartWatchEffect DEF GetOrInit
  <2> QED BY <1>0, <1>2, <2>1, <2>2, Moves
         DEF GetOrInit, Effect, CaptureRule, GrantRule, Kept, Leased, Granted
<1>3. ASSUME NEW ok \in BOOLEAN, Spawned(p, ok)
      PROVE  Effect(p)
  <2>1. /\ Others(p)
        /\ \/ /\ caller'[p].slot = k.slot /\ caller'[p].bind = k.bind
              /\ caller'[p].pc \in IF k.bind THEN {"held", "bound"} ELSE {"count"}
           \/ ~k.bind /\ caller'[p].pc = "ready"
    BY <1>3 DEF Spawned, TypeOK, CallerRecord, Idle, Others
  <2>2. WatchRule
    BY <1>3, <1>0, StartWatchEffect DEF Spawned
  <2> QED BY <1>0, <1>3, <2>1, <2>2
         DEF Spawned, Effect, CaptureRule, GrantRule, Kept, Leased, Granted
<1>4. CASE AcquireCount(p)
  <2>1. caller'[p].pc = "bump" /\ caller'[p].slot = k.slot /\ Others(p)
    BY <1>4, Moves DEF AcquireCount, CallerPc
  <2>2. Taken(p)
    BY <1>0, <1>4, <2>1 DEF AcquireCount, Taken, Leased, Granted, TypeOK, SlotRecord
  <2>3. \A s \in Slot : slot'[s].idle = slot[s].idle
    BY <1>0, <1>4 DEF AcquireCount, TypeOK, SlotRecord
  <2> QED BY <1>0, <1>4, <2>1, <2>2, <2>3
         DEF AcquireCount, Effect, CaptureRule, GrantRule, Granted
<1>5. CASE AcquireBump(p)
  <2>1. caller'[p].pc = "check_idle" /\ caller'[p].slot = k.slot /\ Others(p)
    BY <1>5, Moves DEF AcquireBump, CallerPc
  <2>2. \A s \in Slot : slot'[s].idle = slot[s].idle /\ slot'[s].leases = slot[s].leases
    BY <1>0, <1>5 DEF AcquireBump, TypeOK, SlotRecord
  <2> QED BY <1>0, <1>5, <2>1, <2>2
         DEF AcquireBump, Effect, CaptureRule, GrantRule, Kept, Leased, Granted
<1>6. CASE CheckIdle(p) \/ CheckRetired(p) \/ Revalidate(p)
  <2>0. k.slot \in Slot /\ k.pc \in {"check_idle", "check_retired", "revalidate"} /\ Leased(p)
    BY <1>0, <1>6 DEF CheckIdle, CheckRetired, Revalidate, Leased, Granted
  <2> DEFINE backs_off == /\ release(p)
                          /\ again(p) \/ goto(p, "await_writer") \/ goto(p, "retire")
  <2>1. CASE backs_off
    <3>2. /\ Others(p) /\ caller'[p].pc \in {"load", "await_writer", "retire"}
          /\ caller'[p].pc # "load" => caller'[p].slot = k.slot
      BY <2>1, Moves DEF CallerPc
    <3> QED BY <1>6, <2>0, <2>1, <3>2, ReleaseEffect
           DEF CheckIdle, CheckRetired, Revalidate, Effect, CaptureRule, GrantRule, Dropped,
               Leased, Granted
  <2>2. CASE ~backs_off
    <3>1. /\ UNCHANGED slot /\ WatchRule
      <4>1. CASE CheckIdle(p) \/ Revalidate(p)
        BY <1>0, <2>2, <4>1 DEF CheckIdle, Revalidate
      <4>2. CASE CheckRetired(p)
        BY <2>0, <2>2, <4>2, StartWatchEffect DEF CheckRetired
      <4> QED BY <1>6, <4>1, <4>2
    <3>2. /\ Others(p) /\ caller'[p].slot = k.slot
          /\ caller'[p].pc \in {"check_retired", "revalidate", "held", "bound"}
          /\ k.pc = "check_idle" => ~slot[k.slot].idle /\ caller'[p].pc = "check_retired"
          /\ caller'[p].pc \in {"revalidate", "bound"} => caller'[p].bind
      <4>1. CASE CheckIdle(p)
        BY <4>1, <2>2, Moves DEF CheckIdle, CallerPc, sees_claim
      <4>2. CASE CheckRetired(p)
        <5>1. (k.bind /\ goto(p, "revalidate")) \/ goto(p, "held")
          BY <4>2, <2>2 DEF CheckRetired
        <5> QED BY <4>2, <5>1, Moves DEF CheckRetired, CallerPc
      <4>3. CASE Revalidate(p)
        <5>1. k.bind
          BY <4>3 DEF Revalidate, Captured
        <5> DEFINE v == slot[k.slot].version
                   r == [k EXCEPT !.pc = "bound", !.version = v]
        <5>2. caller' = [caller EXCEPT ![p] = r]
          BY <4>3, <2>2 DEF Revalidate
        <5> HIDE DEF v
        <5>3. r.pc = "bound" /\ r.slot = k.slot /\ r.bind = k.bind
          BY DEF TypeOK, CallerRecord
        <5> HIDE DEF r
        <5> QED BY <4>3, <5>1, <5>2, <5>3 DEF Revalidate, Others, TypeOK
      <4> QED BY <1>6, <4>1, <4>2, <4>3
    <3> QED BY <1>6, <2>0, <3>1, <3>2
           DEF CheckIdle, CheckRetired, Revalidate, Effect, CaptureRule, GrantRule, Kept,
               Leased, Granted
  <2> QED BY <2>1, <2>2
<1>7. CASE AwaitWriter(p) \/ RaceLoss(p)
  <2>1. caller'[p].pc = "load" /\ Others(p) /\ k.pc \in {"await_writer", "retire"}
    BY <1>7, Moves DEF AwaitWriter, RaceLoss
  <2> QED BY <1>0, <1>7, <2>1
         DEF AwaitWriter, RaceLoss, Effect, CaptureRule, GrantRule, Kept, Leased, Granted
<1> QED BY <1>1, <1>2, <1>3, <1>4, <1>5, <1>6, <1>7 DEF ResolveStep

\* So do a task's start, resolve_bound, the drop of what was resolved and a dropped future.
LEMMA CallerEffect ==
    ASSUME TypeOK, Captured, NEW p \in Caller,
           Start(p) \/ ResolveBound(p) \/ Done(p) \/ DropFuture(p)
    PROVE  Effect(p)
<1> DEFINE k == caller[p]
<1>0. /\ k.pc \notin {"ready", "load"} => k.slot \in Slot
      /\ UNCHANGED watch => WatchRule
      /\ k.bind \in BOOLEAN
  BY DEF Captured, WatchRule, TypeOK, CallerRecord
<1>1. CASE Start(p)
  <2>1. Others(p) /\ caller'[p].pc = "load" /\ k.pc = "ready"
    BY <1>1 DEF Start, Others, TypeOK, CallerRecord
  <2> QED BY <1>0, <1>1, <2>1 DEF Start, Effect, CaptureRule, GrantRule, Kept, Leased, Granted
<1>2. CASE ResolveBound(p)
  <2>1. /\ Others(p) /\ caller'[p].pc = "cell" /\ caller'[p].slot = k.slot
        /\ caller'[p].bind = k.bind /\ k.pc = "bound"
    <3> DEFINE r(x) == [k EXCEPT !.pc = "cell", !.cell = x]
    <3>1. PICK x : caller' = [caller EXCEPT ![p] = r(x)]
      BY <1>2 DEF ResolveBound
    <3>2. r(x).pc = "cell" /\ r(x).slot = k.slot /\ r(x).bind = k.bind
      BY DEF TypeOK, CallerRecord
    <3> HIDE DEF r
    <3> QED BY <1>2, <3>1, <3>2 DEF ResolveBound, Others, TypeOK
  <2>2. k.bind
    BY <2>1 DEF Captured
  <2> QED BY <1>0, <1>2, <2>1, <2>2
         DEF ResolveBound, Effect, CaptureRule, GrantRule, Kept, Leased, Granted
<1>3. CASE Done(p)
  <2>1. Others(p) /\ caller'[p].pc = "ready"
    BY <1>3, Moves DEF Done
  <2> QED BY <1>0, <1>3, <2>1, ReleaseEffect
         DEF Done, Effect, CaptureRule, GrantRule, Dropped, Leased, Granted
<1>4. CASE DropFuture(p)
  <2>1. Others(p) /\ caller'[p].pc = "ready" /\ ~k.bind /\ k.pc \in {"cell", "spawn", "await_writer"}
    BY <1>4, Moves, RegistryAssumption DEF DropFuture
  <2> QED BY <1>0, <1>4, <2>1 DEF DropFuture, Effect, CaptureRule, GrantRule, Kept, Leased, Granted
<1> QED BY <1>1, <1>2, <1>3, <1>4

-----------------------------------------------------------------------------
(* What the other steps do to the leases and to the watchers' claims *)

\* A claimed slot has its watcher between the claim and the end ...
Claiming == {"claim_leases", "claim_epoch", "swap", "retire", "ended"}
IdlePc == \A s \in Slot : slot[s].idle => watch[s].pc \in Claiming
\* ... and past the zero count once the claim is confirmed.
Confirmed == Claiming \ {"claim_leases"}
ClaimRule ==
    \A s \in Slot : slot'[s].idle =>
        /\ watch'[s].pc \in Claiming
        /\ watch'[s].pc \in Confirmed =>
              (slot[s].idle /\ watch[s].pc \in Confirmed) \/ slot[s].leases = 0
\* Only a slot that was not created yet gets another count, zero.
LeaseRule ==
    \A s \in Slot : \/ slot'[s].leases = slot[s].leases
                    \/ s > used /\ slot'[s].leases = 0
\* What writers and detached tasks do.
Quiet == UNCHANGED caller /\ used <= used' /\ mapped' <= used' /\ LeaseRule /\ ClaimRule

\* Publishing resets only a slot that was never used.
LEMMA PublishEffect ==
    ASSUME TypeOK, NEW next, NEW keyed \in BOOLEAN, Publish(next, keyed)
    PROVE  /\ used <= used' /\ mapped' <= used' /\ LeaseRule
           /\ \A s \in Slot : slot'[s].idle => slot[s].idle
<1>1. used <= used' /\ mapped' <= used'
  BY PublishType
<1>2. LeaseRule /\ \A s \in Slot : slot'[s].idle => slot[s].idle
  BY RegistryAssumption DEF Publish, LeaseRule, TypeOK, SlotRecord, NewSlot, Slot, NoSlot
<1> QED BY <1>1, <1>2

\* Writers and detached tasks take and drop no lease, and confirm a claim only on a zero count.
LEMMA WriterQuiet ==
    ASSUME TypeOK, Captured, IdlePc,
           \/ ApplyReplace \/ ApplyReuse \/ Invalidate \/ MarkRetired
           \/ \E p \in Caller, key \in Key : InvalidateBound(p, key)
    PROVE  Quiet
<1>0. ASSUME UNCHANGED watch, \A s \in Slot : slot'[s].idle => slot[s].idle
      PROVE  ClaimRule
  BY <1>0 DEF ClaimRule, IdlePc, Claiming, Confirmed
<1>1. used \in Nat /\ (mapped # NoSlot => mapped \in Slot)
  BY RegistryAssumption DEF TypeOK, Slot
<1>2. CASE ApplyReplace
  <2>1. CASE Publish(NoSlot, FALSE)
    BY <1>0, <1>2, <2>1, PublishEffect DEF ApplyReplace, Quiet
  <2>2. ASSUME NEW keyed \in Scopes, Publish(used + 1, keyed)
        PROVE  Quiet
    <3>1. keyed \in BOOLEAN
      BY RegistryAssumption
    <3> QED BY <1>0, <1>2, <2>2, <3>1, PublishEffect DEF ApplyReplace, Quiet
  <2> QED BY <1>2, <2>1, <2>2 DEF ApplyReplace
<1>3. CASE ApplyReuse
  <2>1. \A s \in Slot : slot'[s].idle = slot[s].idle /\ slot'[s].leases = slot[s].leases
    BY <1>1, <1>3 DEF ApplyReuse, TypeOK, SlotRecord
  <2> QED BY <1>0, <1>1, <1>3, <2>1 DEF ApplyReuse, Quiet, LeaseRule, Captured
<1>4. CASE Invalidate
  <2>1. slot[mapped].keyed \in BOOLEAN
    BY <1>1, <1>4 DEF Invalidate, TypeOK, SlotRecord
  <2> QED BY <1>0, <1>4, <2>1, PublishEffect DEF Invalidate, Quiet
<1>5. CASE MarkRetired
  <2>1. writer \in Slot
    BY <1>5 DEF MarkRetired, TypeOK
  <2>2. \A s \in Slot : slot'[s].idle = slot[s].idle /\ slot'[s].leases = slot[s].leases
    BY <1>5, <2>1 DEF MarkRetired, TypeOK, SlotRecord
  <2>3. \A s \in Slot : \/ watch'[s].pc = watch[s].pc
                        \/ watch[s].pc = "retire" /\ watch'[s].pc = "ended"
    BY <1>5, <2>1 DEF MarkRetired, TypeOK, Woken
  <2>4. ClaimRule
    BY <2>2, <2>3 DEF ClaimRule, IdlePc, Claiming, Confirmed
  <2> QED BY <1>1, <1>5, <2>2, <2>4 DEF MarkRetired, Quiet, LeaseRule, Captured
<1>6. ASSUME NEW p \in Caller, NEW key \in Key, InvalidateBound(p, key)
      PROVE  Quiet
  <2> DEFINE s == caller[p].slot
  <2>1. s \in Slot /\ slot[s] \in SlotRecord
    BY <1>6 DEF InvalidateBound, Captured, TypeOK
  <2>2. CASE slot[s].keyed
    <3> DEFINE row == [slot[s].rekeyed EXCEPT ![key] = @ + 1]
    <3>1. slot' = [slot EXCEPT ![s].rekeyed = row]
      BY <1>6, <2>2 DEF InvalidateBound
    <3> HIDE DEF row
    <3>2. \A t \in Slot : slot'[t].idle = slot[t].idle /\ slot'[t].leases = slot[t].leases
      BY <2>1, <3>1 DEF TypeOK, SlotRecord
    <3>3. UNCHANGED <<mapped, used, watch, caller>>
      BY <1>6, <2>2 DEF InvalidateBound
    <3>4. LeaseRule /\ ClaimRule
      BY <1>0, <3>2, <3>3 DEF LeaseRule
    <3> QED BY <1>1, <3>3, <3>4 DEF Quiet, Captured
  <2>3. CASE ~slot[s].keyed
    <3>1. slot[s].keyed \in BOOLEAN
      BY <2>1 DEF SlotRecord
    <3> QED BY <1>0, <1>6, <2>3, <3>1, PublishEffect DEF InvalidateBound, Quiet
  <2> QED BY <2>2, <2>3
<1> QED BY <1>2, <1>3, <1>4, <1>5, <1>6

\* The idle watcher and the drains take and drop no lease; claim_idle confirms its claim only
\* after reading a zero count.
LEMMA TaskQuiet ==
    ASSUME TypeOK, Captured, IdlePc, NEW s \in Slot,
           WatchStep(s) \/ DrainRetireKeyed(s) \/ \E x \in CellId : DrainStep(s, x)
    PROVE  Quiet
<1>0. used \in Nat
  BY RegistryAssumption DEF TypeOK, Slot
<1>1. ASSUME UNCHANGED <<slot, watch, used, mapped, caller>>
      PROVE  Quiet
  BY <1>0, <1>1 DEF Quiet, LeaseRule, ClaimRule, Captured, IdlePc, Claiming, Confirmed
<1>2. CASE DrainRetireKeyed(s)
  BY <1>1, <1>2 DEF DrainRetireKeyed
<1>3. CASE \E x \in CellId : DrainStep(s, x)
  BY <1>1, <1>3 DEF DrainStep, DrainCheck, DrainRegister, DrainWake, DrainRetire
<1>4. CASE WatchStart(s) \/ WatchLeases(s) \/ WatchWake(s) \/ WatchExpires(s)
  <2>1. watch[s].pc \notin Claiming
    BY <1>4 DEF WatchStart, WatchLeases, WatchWake, WatchExpires, Claiming
  <2>2. \A t \in Slot : slot'[t].idle = slot[t].idle /\ slot'[t].leases = slot[t].leases
    <3>1. UNCHANGED slot \/ slot' = [slot EXCEPT ![s].stale = FALSE]
      BY <1>4 DEF WatchStart, WatchLeases, WatchWake, WatchExpires
    <3>2. CASE UNCHANGED slot
      BY <3>2
    <3>3. CASE slot' = [slot EXCEPT ![s].stale = FALSE]
      BY <3>3 DEF TypeOK, SlotRecord
    <3> QED BY <3>1, <3>2, <3>3
  <2>3. \A t \in Slot \ {s} : watch'[t] = watch[t]
    BY <1>4 DEF WatchStart, WatchLeases, WatchWake, WatchExpires, watchGoto, TypeOK
  <2>4. ClaimRule
    BY <2>1, <2>2, <2>3 DEF ClaimRule, IdlePc, Confirmed
  <2> QED BY <1>0, <1>4, <2>2, <2>4
         DEF WatchStart, WatchLeases, WatchWake, WatchExpires, Quiet, LeaseRule, Captured
<1>5. CASE WatchLock(s)
  <2>1. \A t \in Slot : /\ t # s => slot'[t].idle = slot[t].idle /\ watch'[t] = watch[t]
                        /\ slot'[t].leases = slot[t].leases
    BY <1>5 DEF WatchLock, watchGoto, TypeOK, SlotRecord
  <2>2. ~slot[s].idle
    BY <1>5 DEF WatchLock, IdlePc, Claiming
  <2>3. slot'[s].idle => watch'[s].pc = "claim_leases"
    BY <1>5, <2>2 DEF WatchLock, watchGoto, TypeOK
  <2>4. ClaimRule
    BY <2>1, <2>3 DEF ClaimRule, IdlePc, Claiming, Confirmed
  <2> QED BY <1>0, <1>5, <2>1, <2>4 DEF WatchLock, Quiet, LeaseRule, Captured
<1>6. CASE ClaimLeases(s) \/ ClaimEpoch(s)
  <2>1. \A t \in Slot : /\ t # s => slot'[t].idle = slot[t].idle /\ watch'[t] = watch[t]
                        /\ slot'[t].leases = slot[t].leases
    BY <1>6 DEF ClaimLeases, ClaimEpoch, withdraw, watchGoto, TypeOK, SlotRecord
  <2>2. slot'[s].idle => \/ watch'[s].pc = "claim_epoch" /\ slot[s].leases = 0
                         \/ watch[s].pc = "claim_epoch" /\ watch'[s].pc = "swap" /\ slot[s].idle
    BY <1>6 DEF ClaimLeases, ClaimEpoch, withdraw, watchGoto, TypeOK, SlotRecord
  <2>3. ClaimRule
    BY <2>1, <2>2 DEF ClaimRule, IdlePc, Claiming, Confirmed
  <2> QED BY <1>0, <1>6, <2>1, <2>3 DEF ClaimLeases, ClaimEpoch, withdraw, Quiet, LeaseRule, Captured
<1>7. CASE WatchSwap(s)
  <2>1. slot[s].keyed \in BOOLEAN
    BY DEF TypeOK, SlotRecord
  <2>2. /\ used <= used' /\ mapped' <= used' /\ LeaseRule
        /\ \A t \in Slot : slot'[t].idle => slot[t].idle
    BY <1>7, <2>1, PublishEffect DEF WatchSwap
  <2>3. /\ \A t \in Slot \ {s} : watch'[t] = watch[t]
        /\ watch[s].pc = "swap" /\ watch'[s].pc = "retire"
    BY <1>7 DEF WatchSwap, watchGoto, TypeOK
  <2>4. ClaimRule
    BY <2>2, <2>3 DEF ClaimRule, IdlePc, Claiming, Confirmed
  <2> QED BY <1>7, <2>2, <2>4 DEF WatchSwap, Quiet
<1> QED BY <1>2, <1>3, <1>4, <1>5, <1>6, <1>7 DEF WatchStep

-----------------------------------------------------------------------------
(* The inductive invariant *)

\* Types and captured slots, exact counts, and the two facts about the watchers' claims: that a
\* claimed slot has its watcher past the claim is what makes exclusiveness inductive.
RegistryInv == TypeOK /\ Captured /\ CountExact /\ IdlePc /\ IdleExclusive

\* The count is positive while a lease is out, and zero only when none is.
LEMMA CountFacts ==
    ASSUME TypeOK, Captured, CountExact
    PROVE  /\ Counted
           /\ \A s \in Slot : IsFiniteSet(Holders(s))
           /\ \A s \in Slot : slot[s].leases = 0 => Holders(s) = {}
<1>1. \A s \in Slot : IsFiniteSet(Holders(s))
  BY FS_Subset, RegistryAssumption DEF Holders
<1>2. \A s \in Slot : slot[s].leases = 0 => Holders(s) = {}
  BY <1>1, FS_EmptySet DEF CountExact
<1>3. Counted
  <2> SUFFICES ASSUME NEW p \in Caller, Leased(p)
               PROVE  slot[caller[p].slot].leases > 0
    BY DEF Counted
  <2>1. caller[p].slot \in Slot
    BY DEF Captured, Leased, Granted
  <2>2. p \in Holders(caller[p].slot)
    BY DEF Holders
  <2>3. slot[caller[p].slot].leases # 0
    BY <1>2, <2>1, <2>2
  <2> QED BY <2>1, <2>3 DEF TypeOK, SlotRecord
<1> QED BY <1>1, <1>2, <1>3

\* A captured slot stays one that has been created, whatever publishes meanwhile.
LEMMA CapturedStep ==
    ASSUME TypeOK, TypeOK', Captured, Quiet \/ \E p \in Caller : Effect(p)
    PROVE  Captured'
<1>0. used \in Nat /\ used' \in Nat /\ \A s \in Slot : s \in Nat
  BY RegistryAssumption DEF TypeOK, Slot
<1>1. CASE Quiet
  <2>1. caller' = caller /\ used <= used' /\ mapped' <= used'
    BY <1>1 DEF Quiet
  <2>2. \A p \in Caller : caller[p].slot \in Slot /\ caller[p].slot <= used =>
          caller[p].slot <= used'
    BY <1>0, <2>1
  <2> QED BY <2>1, <2>2 DEF Captured
<1>2. ASSUME NEW p \in Caller, Effect(p)
      PROVE  Captured'
  BY <1>0, <1>2 DEF Effect, Others, CaptureRule, Captured, TypeOK
<1> QED BY <1>1, <1>2

\* The count of leases stays exact: acquire adds one holder, drop removes one, and a new slot
\* is one that nobody has captured.
LEMMA CountStep ==
    ASSUME TypeOK, Captured, CountExact, Quiet \/ \E p \in Caller : Effect(p)
    PROVE  CountExact'
<1>0. \A s \in Slot : IsFiniteSet(Holders(s))
  BY CountFacts
<1>1. CASE Quiet
  <2> SUFFICES ASSUME NEW s \in Slot PROVE slot'[s].leases = Cardinality(Holders(s)')
    BY DEF CountExact
  <2>1. Holders(s)' = Holders(s)
    BY <1>1 DEF Quiet, Holders, Leased, Granted
  <2>2. CASE s > used
    <3>1. Holders(s) = {}
      <4>1. s \in Nat /\ used \in Nat
        BY RegistryAssumption DEF Slot, TypeOK
      <4>2. \A p \in Caller : Leased(p) => caller[p].slot <= used
        BY DEF Captured, Leased, Granted
      <4> QED BY <2>2, <4>1, <4>2 DEF Holders
    <3> QED BY <1>1, <2>1, <3>1, FS_EmptySet DEF CountExact, Quiet, LeaseRule
  <2>3. CASE ~(s > used)
    BY <1>1, <2>1, <2>3 DEF CountExact, Quiet, LeaseRule
  <2> QED BY <2>2, <2>3
<1>2. ASSUME NEW p \in Caller, Effect(p)
      PROVE  CountExact'
  <2>0. \A q \in Caller \ {p} : (Leased(q)' <=> Leased(q)) /\ caller'[q] = caller[q]
    BY <1>2 DEF Effect, Others, Leased, Granted
  <2>1. CASE Kept(p)
    <3>1. \A s \in Slot : Holders(s)' = Holders(s)
      BY <2>0, <2>1 DEF Kept, Holders
    <3> QED BY <2>1, <3>1 DEF Kept, CountExact
  <2> DEFINE t == caller[p].slot
  <2>2. CASE Taken(p)
    <3>1. Holders(t)' = Holders(t) \cup {p} /\ p \notin Holders(t)
      BY <2>0, <2>2 DEF Taken, Holders
    <3>2. \A s \in Slot \ {t} : Holders(s)' = Holders(s)
      BY <2>0, <2>2 DEF Taken, Holders
    <3>3. t \in Slot => Cardinality(Holders(t)') = Cardinality(Holders(t)) + 1
      BY <1>0, <3>1, FS_AddElement
    <3> QED BY <2>2, <3>2, <3>3 DEF Taken, CountExact
  <2>3. CASE Dropped(p)
    <3> SUFFICES ASSUME NEW s \in Slot PROVE slot'[s].leases = Cardinality(Holders(s)')
      BY DEF CountExact
    <3>1. CASE s = caller[p].slot
      <4>1. p \in Holders(s) /\ p \notin Holders(s)'
        BY <2>3, <3>1 DEF Dropped, Holders
      <4>2. \A q \in Caller \ {p} : q \in Holders(s)' <=> q \in Holders(s)
        BY <2>0 DEF Holders
      <4>3. Holders(s)' = Holders(s) \ {p}
        BY <4>1, <4>2 DEF Holders
      <4>4. Cardinality(Holders(s)') = Cardinality(Holders(s)) - 1
        BY <1>0, <4>1, <4>3, FS_RemoveElement
      <4> QED BY <2>3, <3>1, <4>4 DEF Dropped, CountExact
    <3>2. CASE s # caller[p].slot
      <4>1. Holders(s)' = Holders(s)
        BY <2>0, <2>3, <3>2 DEF Dropped, Holders
      <4> QED BY <2>3, <3>2, <4>1 DEF Dropped, CountExact
    <3> QED BY <3>1, <3>2
  <2> QED BY <1>2, <2>1, <2>2, <2>3 DEF Effect
<1> QED BY <1>1, <1>2

\* A confirmed claim stays exclusive: the watcher read a zero count under it, and a lease taker
\* looks at the claim after counting its lease.
LEMMA IdleStep ==
    ASSUME RegistryInv, Quiet \/ \E p \in Caller : Effect(p)
    PROVE  IdlePc' /\ IdleExclusive'
<1> USE DEF RegistryInv
<1>1. CASE Quiet
  <2>1. IdlePc'
    BY <1>1 DEF Quiet, ClaimRule, IdlePc
  <2>2. \A s \in Slot : slot[s].leases = 0 => \A p \in Caller : Granted(p) => caller[p].slot # s
    BY CountFacts DEF Holders, Leased
  <2>3. \A p \in Caller : (Granted(p)' <=> Granted(p)) /\ caller'[p] = caller[p]
    BY <1>1 DEF Quiet, Granted
  <2>4. IdleExclusive'
    BY <1>1, <2>2, <2>3 DEF Quiet, ClaimRule, IdleExclusive, Claiming, Confirmed
  <2> QED BY <2>1, <2>4
<1>2. ASSUME NEW p \in Caller, Effect(p)
      PROVE  IdlePc' /\ IdleExclusive'
  <2>1. \A s \in Slot : slot'[s].idle => slot[s].idle /\ watch'[s].pc = watch[s].pc
    BY <1>2 DEF Effect, WatchRule, IdlePc, Claiming
  <2>2. IdlePc'
    BY <2>1 DEF IdlePc
  <2>3. \A q \in Caller \ {p} : (Granted(q)' <=> Granted(q)) /\ caller'[q] = caller[q]
    BY <1>2 DEF Effect, Others, Granted
  <2>4. IdleExclusive'
    BY <1>2, <2>1, <2>3 DEF Effect, GrantRule, IdleExclusive
  <2> QED BY <2>2, <2>4
<1> QED BY <1>1, <1>2

\* The inductive invariant holds of a fresh registry.
LEMMA RegistryInvInit == Init => RegistryInv
<1> SUFFICES ASSUME Init PROVE RegistryInv
  OBVIOUS
<1>1. TypeOK /\ Captured
  BY RegistryTypeInit
<1>2. \A s \in Slot : slot[s].leases = 0 /\ ~slot[s].idle /\ Holders(s) = {}
  BY DEF Init, NewSlot, Idle, Holders, Leased, Granted
<1> QED BY <1>1, <1>2, FS_EmptySet DEF RegistryInv, CountExact, IdlePc, IdleExclusive

\* Every step of the registry keeps the inductive invariant.
LEMMA RegistryInvStep == RegistryInv /\ [Next]_vars => RegistryInv'
<1> SUFFICES ASSUME RegistryInv, [Next]_vars PROVE RegistryInv'
  OBVIOUS
<1>0. TypeOK /\ Captured /\ CountExact /\ IdlePc /\ Counted
  BY CountFacts DEF RegistryInv
<1>1. CASE UNCHANGED vars
  BY <1>1 DEF vars, RegistryInv, TypeOK, Captured, CountExact, IdlePc, IdleExclusive, Holders,
              Leased, Granted
<1>2. ASSUME Next
      PROVE  TypeOK' /\ (Quiet \/ \E p \in Caller : Effect(p))
  <2>1. ASSUME NEW p \in Caller,
               Start(p) \/ ResolveStep(p) \/ ResolveBound(p) \/ Done(p) \/ DropFuture(p)
        PROVE  TypeOK' /\ Effect(p)
    BY <1>0, <2>1, TypeResolve, TypeCaller, ResolveEffect, CallerEffect
  <2>2. CASE \/ ApplyReplace \/ ApplyReuse \/ Invalidate \/ MarkRetired
             \/ \E p \in Caller, key \in Key : InvalidateBound(p, key)
    BY <1>0, <2>2, TypeWriter, WriterQuiet
  <2>3. ASSUME NEW s \in Slot,
               WatchStep(s) \/ DrainRetireKeyed(s) \/ \E x \in CellId : DrainStep(s, x)
        PROVE  TypeOK' /\ Quiet
    BY <1>0, <2>3, TypeTask, TaskQuiet
  <2> QED BY <1>2, <2>1, <2>2, <2>3 DEF Next
<1> QED BY <1>0, <1>1, <1>2, CapturedStep, CountStep, IdleStep DEF RegistryInv

\* The registry's state stays well formed for any number of callers, keys and slots: no lease
\* count underflows and no task refers to a slot or a cell that does not exist.
THEOREM RegistryTypeCorrect == Spec => []TypeOK
<1>1. RegistryInv => TypeOK
  BY DEF RegistryInv
<1> QED BY <1>1, RegistryInvInit, RegistryInvStep, PTL DEF Spec

\* LeaseGuard::acquire and Drop for LeaseGuard stay paired on every path of resolve, bind,
\* back-off, retry and failure: a slot's count is the number of leases out on it.
THEOREM LeasesExact == Spec => []CountExact
<1>1. RegistryInv => CountExact
  BY DEF RegistryInv
<1> QED BY <1>1, RegistryInvInit, RegistryInvStep, PTL DEF Spec

\* claim_idle and LeaseGuard::acquire exclude each other: once the watcher has read a zero count
\* under its claim, nobody holds or is granted a lease on that slot.
THEOREM IdleClaimExclusive == Spec => []IdleExclusive
<1>1. RegistryInv => IdleExclusive
  BY DEF RegistryInv
<1> QED BY <1>1, RegistryInvInit, RegistryInvStep, PTL DEF Spec

-----------------------------------------------------------------------------
(* Cells, drains and resolvers: what the second layer says *)

\* A cell that was taken out of its slot's map, and one that is or was in it.
Evicted(s, x) == x[1] \in Key /\ x[2] < slot[s].rekeyed[x[1]]
Known(s, x) == x = SharedCell \/ (x[1] \in Key /\ x[2] <= slot[s].rekeyed[x[1]])

\* A use that does not look at the retired flag again, and one that has its cell.
Secured(p) == \/ caller[p].pc \in {"bound", "held"}
              \/ caller[p].bind /\ caller[p].pc \in {"cell", "spawn"}
InCell(p) == \/ caller[p].pc = "held"
             \/ caller[p].bind /\ caller[p].pc \in {"cell", "spawn"}
\* A resolve that has its backend and no answer yet.
Late == {"count", "bump", "check_idle", "check_retired", "retire", "await_writer"}

\* What a task's place says of its cell; an admitted one is on the slot of its entry.
CallerSound(p) ==
    LET k == caller[p] IN
    /\ k.pc \in {"ready", "load"} => k.cell = SharedCell /\ ~k.init
    /\ k.pc \notin {"ready", "load"} /\ k.want # NoEntry => k.want[1] = k.slot
    /\ ~k.bind => k.cell = SharedCell
    /\ k.bind => ~k.init /\ k.pc \notin {"retire", "await_writer"}
    /\ k.pc = "spawn" => cells[k.slot][k.cell] = "spawning"
    /\ k.pc \in {"cell", "spawn"} => Known(k.slot, k.cell)
    /\ k.pc = "held" => cells[k.slot][k.cell] \in {"live", "refused", "retired"}
    /\ ~k.bind /\ k.pc \in Late => cells[k.slot][k.cell] \in {"live", "refused", "retired"}
    /\ k.pc = "retire" => slot[k.slot].retired
\* A cell is initialized by one task at a time.
OneSpawner ==
    \A p, q \in Caller :
        caller[p].pc = "spawn" /\ caller[q].pc = "spawn" /\ p # q =>
            caller[p].slot # caller[q].slot \/ caller[p].cell # caller[q].cell
CallerInv == (\A p \in Caller : CallerSound(p)) /\ OneSpawner

\* A drain runs for every retired slot and every evicted cell, and for no other.
DrainSound(s, x) ==
    /\ cells[s][x] # "empty" => Known(s, x)
    /\ drain[s][x].pc # "off" => (x = SharedCell /\ slot[s].retired) \/ Evicted(s, x)
    /\ drain[s][x].pc = "retire_keyed" => x = SharedCell
    /\ Evicted(s, x) => drain[s][x].pc # "off"
    /\ s > used => cells[s][x] = "empty" /\ drain[s][x].pc = "off"
DrainInv == \A s \in Slot : /\ slot[s].retired => drain[s][SharedCell].pc # "off"
                            /\ \A x \in CellId : DrainSound(s, x)

\* The writer swaps out a slot in use.  A watcher holds write_lock from its claim to the swap,
\* and its slot is the live one.
LockInv ==
    /\ writer <= used
    /\ \A s \in Slot : watch[s].pc \in {"claim_leases", "claim_epoch", "swap"} =>
                          ~slot[s].retired /\ writer = s /\ mapped = s

\* The first part of the second layer.
CellInv == CallerInv /\ DrainInv /\ LockInv

-----------------------------------------------------------------------------
(* What one step of a task does to its cell *)

\* The step leaves everything but its task, its cell, the counts and the watchers alone.
Base(p) ==
    /\ Others(p) /\ WatchRule
    /\ UNCHANGED <<mapped, used, writer>>
    /\ \A s \in Slot : /\ slot'[s].retired = slot[s].retired /\ slot'[s].idle = slot[s].idle
                       /\ slot'[s].rekeyed = slot[s].rekeyed
                       /\ \A x \in CellId : drain'[s][x].pc = drain[s][x].pc
Sets(p, v) == cells' = [cells EXCEPT ![caller[p].slot][caller[p].cell] = v]
SameUse(p) ==
    /\ caller'[p].slot = caller[p].slot /\ caller'[p].cell = caller[p].cell
    /\ caller'[p].bind = caller[p].bind /\ caller'[p].init = caller[p].init
    /\ caller'[p].want = caller[p].want

\* A task starts.
Begins(p) ==
    /\ caller[p].pc = "ready" /\ caller'[p].pc = "load" /\ UNCHANGED cells
    /\ caller'[p].cell = caller[p].cell /\ caller'[p].init = caller[p].init
    /\ caller'[p].bind => caller[p].bind \/ "bind" \in Operations
    /\ ~caller'[p].bind => {"resolve", "admitted"} \cap Operations # {}
\* It captures the mapped slot.
Captures(p) ==
    /\ caller[p].pc = "load" /\ UNCHANGED cells /\ mapped # NoSlot
    /\ caller'[p].pc = IF caller[p].bind THEN "count" ELSE "cell"
    /\ caller'[p].slot = mapped /\ caller'[p].cell = caller[p].cell
    /\ caller'[p].bind = caller[p].bind /\ caller'[p].init = caller[p].init
    /\ caller'[p].want = caller[p].want
    /\ caller[p].want # NoEntry => caller[p].want[1] = mapped
\* It becomes the initializer of its cell, and the spawn ends well or not.
Claims(p) ==
    /\ caller[p].pc = "cell" /\ caller'[p].pc = "spawn" /\ SameUse(p)
    /\ cells[caller[p].slot][caller[p].cell] = "empty" /\ Sets(p, "spawning")
Lands(p) ==
    /\ caller[p].pc = "spawn" /\ Sets(p, "live")
    /\ caller'[p].pc = IF caller[p].bind THEN "held" ELSE "count"
    /\ caller'[p].init = ~caller[p].bind
    /\ caller'[p].slot = caller[p].slot /\ caller'[p].cell = caller[p].cell
    /\ caller'[p].bind = caller[p].bind /\ caller'[p].want = caller[p].want
Fails(p) ==
    /\ caller[p].pc = "spawn" /\ caller'[p].pc = "bound" /\ caller[p].bind /\ SameUse(p)
    /\ Sets(p, "empty")
\* It goes on with the same cell.
Backend(p) == cells[caller[p].slot][caller[p].cell] \in {"live", "refused", "retired"}
GoesOn(p) ==
    LET k == caller[p]
        to(pc) == caller'[p].pc = pc
    IN
    /\ SameUse(p) /\ UNCHANGED cells
    /\ \/ k.pc = "cell" /\ Backend(p) /\ k.bind /\ to("held")
       \/ k.pc = "cell" /\ Backend(p) /\ ~k.bind /\ to("count")
       \/ k.pc = "count" /\ to("bump")
       \/ k.pc = "bump" /\ to("check_idle")
       \/ k.pc = "check_idle" /\ to("check_retired")
       \/ k.pc = "check_idle" /\ ~k.bind /\ to("await_writer")
       \/ k.pc = "check_retired" /\ ~k.bind /\ slot[k.slot].retired /\ to("retire")
       \/ k.pc = "check_retired" /\ k.bind /\ to("revalidate")
       \/ k.pc = "check_retired" /\ ~k.bind /\ ~slot[k.slot].retired /\ to("held")
       \/ k.pc = "revalidate" /\ ~slot[k.slot].retired /\ to("bound")
\* It goes back to the top; a backend that came too late for the drain is asked to retire first.
Retries(p) ==
    /\ caller'[p].pc = "load" /\ caller'[p].bind = caller[p].bind
    /\ caller'[p].cell = SharedCell /\ ~caller'[p].init
    /\ \/ caller[p].pc \in {"check_idle", "check_retired", "revalidate"} /\ caller[p].bind
            /\ UNCHANGED cells
       \/ caller[p].pc = "await_writer" /\ UNCHANGED cells
            /\ ~(slot[caller[p].slot].retired /\ caller[p].init)
       \/ caller[p].pc \in {"await_writer", "retire"} /\ Asks(caller[p].slot, {caller[p].cell})
            /\ (caller[p].pc = "await_writer" => slot[caller[p].slot].retired)
\* A bound use picks its cell.
Picks(p) ==
    /\ caller[p].pc = "bound" /\ caller'[p].pc = "cell" /\ UNCHANGED cells
    /\ caller'[p].slot = caller[p].slot /\ caller'[p].bind = caller[p].bind
    /\ caller'[p].init = caller[p].init /\ caller'[p].want = caller[p].want
    /\ \/ caller'[p].cell = SharedCell
       \/ \E key \in Key : caller'[p].cell = <<key, slot[caller[p].slot].rekeyed[key]>>
\* It is done, or dropped.
Quits(p) ==
    /\ caller'[p] = Idle
    /\ \/ caller[p].pc \in {"load", "cell", "bound", "held"} /\ UNCHANGED cells
       \/ caller[p].pc = "await_writer" /\ "await_writer" \in Droppable /\ UNCHANGED cells
       \/ caller[p].pc = "spawn" /\ Sets(p, "empty")

Shift(p) ==
    \/ Begins(p) \/ Captures(p) \/ Claims(p) \/ Lands(p) \/ Fails(p) \/ GoesOn(p) \/ Retries(p)
    \/ Picks(p) \/ Quits(p)

\* The fields of a task's record, after each kind of assignment to it.
LEMMA UseMoves ==
    ASSUME TypeOK, NEW p \in Caller
    PROVE  /\ \A pc \in CallerPc : goto(p, pc) => SameUse(p) /\ caller'[p].pc = pc
           /\ again(p) => /\ caller'[p].pc = "load" /\ caller'[p].bind = caller[p].bind
                          /\ caller'[p].cell = SharedCell /\ ~caller'[p].init
           /\ caller' = [caller EXCEPT ![p] = Idle] => caller'[p] = Idle
<1>1. ASSUME NEW pc \in CallerPc, goto(p, pc) PROVE SameUse(p) /\ caller'[p].pc = pc
  BY <1>1 DEF goto, TypeOK, CallerRecord, SameUse
<1>2. again(p) => /\ caller'[p].pc = "load" /\ caller'[p].bind = caller[p].bind
                  /\ caller'[p].cell = SharedCell /\ ~caller'[p].init
  BY DEF again, TypeOK, Idle
<1>3. caller' = [caller EXCEPT ![p] = Idle] => caller'[p] = Idle
  BY DEF TypeOK
<1> QED BY <1>1, <1>2, <1>3

\* Waking the waiters of a slot moves no drain.
LEMMA NotifyBase ==
    ASSUME TypeOK, NEW s \in Slot, notify_waiters(s)
    PROVE  \A t \in Slot, x \in CellId : drain'[t][x].pc = drain[t][x].pc
<1>1. \A w \in [pc: DrainPc, woken: BOOLEAN] : Woken(w).pc = w.pc
  BY DEF Woken
<1>2. drain' = [drain EXCEPT ![s] = [x \in CellId |-> Woken(drain[s][x])]]
  BY DEF notify_waiters
<1>3. \A x \in CellId : drain'[s][x] = Woken(drain[s][x]) /\ drain[s][x] \in [pc: DrainPc, woken: BOOLEAN]
  BY <1>2 DEF TypeOK
<1>4. \A t \in Slot \ {s} : drain'[t] = drain[t]
  BY <1>2 DEF TypeOK
<1> QED BY <1>1, <1>3, <1>4

\* Dropping a lease leaves flags, keys and drains alone.
LEMMA ReleaseBase ==
    ASSUME TypeOK, NEW p \in Caller, caller[p].slot \in Slot, release(p)
    PROVE  \A s \in Slot : /\ slot'[s].retired = slot[s].retired /\ slot'[s].idle = slot[s].idle
                           /\ slot'[s].rekeyed = slot[s].rekeyed
                           /\ \A x \in CellId : drain'[s][x].pc = drain[s][x].pc
<1>1. \A s \in Slot : /\ slot'[s].retired = slot[s].retired /\ slot'[s].idle = slot[s].idle
                      /\ slot'[s].rekeyed = slot[s].rekeyed
  BY DEF release, TypeOK, SlotRecord
<1> QED BY <1>1, NotifyBase DEF release

\* Every step of a task leaves the writers and the drains alone.
LEMMA TaskBase ==
    ASSUME TypeOK, Captured, NEW p \in Caller,
           ResolveStep(p) \/ Start(p) \/ ResolveBound(p) \/ Done(p) \/ DropFuture(p)
    PROVE  Base(p)
<1>0. caller[p].pc \notin {"ready", "load"} => caller[p].slot \in Slot
  BY DEF Captured
<1>1. Others(p) /\ WatchRule /\ UNCHANGED <<mapped, used>>
  BY ResolveEffect, CallerEffect DEF Effect
<1>2. UNCHANGED writer
  BY DEF ResolveStep, Start, ResolveBound, Done, DropFuture, Load, GetOrInit, Spawned, AcquireCount,
         AcquireBump, CheckIdle, CheckRetired, Revalidate, AwaitWriter, RaceLoss
<1> DEFINE Goal == \A s \in Slot : /\ slot'[s].retired = slot[s].retired /\ slot'[s].idle = slot[s].idle
                                  /\ slot'[s].rekeyed = slot[s].rekeyed
                                  /\ \A x \in CellId : drain'[s][x].pc = drain[s][x].pc
<1>3. UNCHANGED <<slot, drain>> => Goal
  OBVIOUS
<1>4. release(p) /\ caller[p].slot \in Slot => Goal
  BY ReleaseBase
<1>5. Goal
  <2>1. CASE AcquireCount(p) \/ AcquireBump(p)
    <3>1. caller[p].slot \in Slot /\ UNCHANGED drain
      BY <1>0, <2>1 DEF AcquireCount, AcquireBump
    <3>2. \/ slot' = [slot EXCEPT ![caller[p].slot].leases = @ + 1]
          \/ slot' = [slot EXCEPT ![caller[p].slot].stale = TRUE]
      BY <2>1 DEF AcquireCount, AcquireBump
    <3>3. CASE slot' = [slot EXCEPT ![caller[p].slot].leases = @ + 1]
      BY <3>1, <3>3 DEF TypeOK, SlotRecord
    <3>4. CASE slot' = [slot EXCEPT ![caller[p].slot].stale = TRUE]
      BY <3>1, <3>4 DEF TypeOK, SlotRecord
    <3> QED BY <3>2, <3>3, <3>4
  <2>2. ASSUME CheckIdle(p) \/ CheckRetired(p) \/ Revalidate(p) \/ Done(p)
        PROVE  Goal
    <3>1. caller[p].slot \in Slot
      BY <1>0, <2>2 DEF CheckIdle, CheckRetired, Revalidate, Done
    <3>2. UNCHANGED <<slot, drain>> \/ release(p)
      BY <2>2 DEF CheckIdle, CheckRetired, Revalidate, Done
    <3> HIDE DEF Goal
    <3> QED BY <1>3, <1>4, <3>1, <3>2
  <2>3. ASSUME \/ Load(p) \/ GetOrInit(p) \/ (\E ok \in BOOLEAN : Spawned(p, ok)) \/ AwaitWriter(p)
               \/ RaceLoss(p) \/ Start(p) \/ ResolveBound(p) \/ DropFuture(p)
        PROVE  Goal
    <3>1. UNCHANGED <<slot, drain>>
      BY <2>3 DEF Load, GetOrInit, Spawned, AwaitWriter, RaceLoss, Start, ResolveBound, DropFuture
    <3> HIDE DEF Goal
    <3> QED BY <1>3, <3>1
  <2> HIDE DEF Goal
  <2> QED BY <2>1, <2>2, <2>3 DEF ResolveStep
<1> QED BY <1>1, <1>2, <1>5 DEF Base

\* Every step of a task is one of the shifts.
LEMMA TaskShift ==
    ASSUME TypeOK, Captured, NEW p \in Caller,
           ResolveStep(p) \/ Start(p) \/ ResolveBound(p) \/ Done(p) \/ DropFuture(p)
    PROVE  Shift(p)
<1> DEFINE k == caller[p]
<1>0. k \in CallerRecord /\ caller \in [Caller -> CallerRecord] /\ k.cell \in CellId
  BY DEF TypeOK, CallerRecord
<1>1. CASE Load(p)
  <2>1. CASE mapped = NoSlot \/ ~admitted_matches(k)
    <3>1. caller' = [caller EXCEPT ![p] = Idle]
      BY <1>1, <2>1 DEF Load
    <3> QED BY <1>1, <3>1, UseMoves DEF Load, Quits, Shift
  <2>2. CASE mapped # NoSlot /\ admitted_matches(k)
    <3>1. caller' = [caller EXCEPT ![p] = [k EXCEPT !.slot = mapped, !.pc = IF k.bind THEN "count" ELSE "cell"]]
      BY <1>1, <2>2 DEF Load
    <3>2. k.want # NoEntry => k.want[1] = mapped
      BY <2>2 DEF admitted_matches
    <3> QED BY <1>0, <1>1, <2>2, <3>1, <3>2 DEF Load, Captures, Shift, CallerRecord
  <2> QED BY <2>1, <2>2
<1>2. CASE GetOrInit(p)
  <2>1. CASE cells[k.slot][k.cell] = "empty"
    BY <1>2, <2>1, UseMoves DEF GetOrInit, Claims, Sets, Shift, CallerPc
  <2>2. CASE cells[k.slot][k.cell] # "empty"
    <3>1. k.slot \in Slot
      BY <1>2 DEF GetOrInit, Captured
    <3>2. cells[k.slot][k.cell] \in {"live", "refused", "retired"}
      BY <1>0, <1>2, <2>2, <3>1 DEF GetOrInit, TypeOK, CellState
    <3> QED BY <1>2, <2>2, <3>2, UseMoves DEF GetOrInit, GoesOn, Backend, Shift, CallerPc
  <2> QED BY <2>1, <2>2
<1>3. ASSUME NEW ok \in BOOLEAN, Spawned(p, ok) PROVE Shift(p)
  <2>1. CASE ok
    <3>1. caller' = [caller EXCEPT ![p] = [k EXCEPT !.init = ~k.bind, !.pc = IF k.bind THEN "held" ELSE "count"]]
      BY <1>3, <2>1 DEF Spawned
    <3> QED BY <1>0, <1>3, <2>1, <3>1 DEF Spawned, Lands, Sets, Shift, CallerRecord
  <2>2. CASE ~ok /\ k.bind
    <3>1. caller' = [caller EXCEPT ![p] = [k EXCEPT !.pc = "bound"]]
      BY <1>3, <2>2 DEF Spawned
    <3>2. SameUse(p) /\ caller'[p].pc = "bound"
      BY <1>0, <3>1 DEF SameUse, CallerRecord
    <3>3. Sets(p, "empty") /\ k.pc = "spawn"
      BY <1>3, <2>2 DEF Spawned, Sets
    <3> QED BY <2>2, <3>2, <3>3 DEF Fails, Shift
  <2>3. CASE ~ok /\ ~k.bind
    <3>1. caller' = [caller EXCEPT ![p] = Idle]
      BY <1>3, <2>3 DEF Spawned
    <3> QED BY <1>3, <2>3, <3>1, UseMoves DEF Spawned, Quits, Sets, Shift
  <2> QED BY <2>1, <2>2, <2>3
<1>4. CASE AcquireCount(p) \/ AcquireBump(p)
  BY <1>4, UseMoves DEF AcquireCount, AcquireBump, GoesOn, Shift, CallerPc
<1>5. CASE CheckIdle(p)
  <2>1. (goto(p, "await_writer") /\ ~k.bind) \/ goto(p, "check_retired") \/ (again(p) /\ k.bind)
    BY <1>5 DEF CheckIdle, sees_claim
  <2>2. k.pc = "check_idle" /\ UNCHANGED cells
    BY <1>5 DEF CheckIdle
  <2> QED BY <2>1, <2>2, UseMoves DEF GoesOn, Retries, Shift, CallerPc
<1>6. CASE CheckRetired(p)
  <2>1. \/ slot[k.slot].retired /\ k.bind /\ again(p)
        \/ slot[k.slot].retired /\ ~k.bind /\ goto(p, "retire")
        \/ ~slot[k.slot].retired /\ k.bind /\ goto(p, "revalidate")
        \/ ~slot[k.slot].retired /\ ~k.bind /\ goto(p, "held")
    BY <1>6 DEF CheckRetired
  <2>2. k.pc = "check_retired" /\ UNCHANGED cells
    BY <1>6 DEF CheckRetired
  <2> QED BY <2>1, <2>2, UseMoves DEF GoesOn, Retries, Shift, CallerPc
<1>7. CASE Revalidate(p)
  <2>0. k.pc = "revalidate" /\ UNCHANGED cells /\ k.bind
    BY <1>7 DEF Revalidate, Captured
  <2>1. CASE again(p)
    BY <2>0, <2>1, UseMoves DEF Retries, Shift
  <2>2. CASE ~again(p)
    <3>1. ~slot[k.slot].retired /\ caller' = [caller EXCEPT ![p].pc = "bound", ![p].version = slot[k.slot].version]
      BY <1>7, <2>2 DEF Revalidate
    <3>2. SameUse(p) /\ caller'[p].pc = "bound"
      BY <1>0, <3>1 DEF SameUse, CallerRecord
    <3> QED BY <2>0, <3>1, <3>2 DEF GoesOn, Shift
  <2> QED BY <2>1, <2>2
<1>8. CASE AwaitWriter(p) \/ RaceLoss(p)
  <2>1. k.slot \in Slot
    BY <1>8 DEF AwaitWriter, RaceLoss, Captured
  <2>2. retire_join_or_refuse(k.slot, {k.cell}) => Asks(k.slot, {k.cell})
    BY <2>1, AskEffect
  <2>3. /\ again(p) /\ k.pc \in {"await_writer", "retire"}
        /\ \/ Asks(k.slot, {k.cell}) /\ (k.pc = "await_writer" => slot[k.slot].retired)
           \/ /\ k.pc = "await_writer" /\ UNCHANGED cells
              /\ ~(slot[k.slot].retired /\ k.init)
    BY <1>8, <2>2 DEF AwaitWriter, RaceLoss, late_spawn
  <2> QED BY <2>3, UseMoves DEF Retries, Shift
<1>9. CASE Start(p)
  BY <1>0, <1>9 DEF Start, Begins, Shift, CallerRecord
<1>10. CASE ResolveBound(p)
  <2>1. PICK key \in Key :
          caller' = [caller EXCEPT ![p].pc = "cell",
                        ![p].cell = IF slot[k.slot].keyed THEN <<key, slot[k.slot].rekeyed[key]>>
                                    ELSE SharedCell]
    BY <1>10 DEF ResolveBound
  <2> DEFINE x == IF slot[k.slot].keyed THEN <<key, slot[k.slot].rekeyed[key]>> ELSE SharedCell
  <2>2. x = SharedCell \/ x = <<key, slot[k.slot].rekeyed[key]>>
    OBVIOUS
  <2>3. caller' = [caller EXCEPT ![p] = [k EXCEPT !.pc = "cell", !.cell = x]]
    <3> HIDE DEF x
    <3>1. caller' = [caller EXCEPT ![p].pc = "cell", ![p].cell = x]
      BY <2>1 DEF x
    <3> QED BY <3>1
  <2> HIDE DEF x
  <2>4. /\ caller'[p].pc = "cell" /\ caller'[p].cell = x /\ caller'[p].slot = k.slot
        /\ caller'[p].bind = k.bind /\ caller'[p].init = k.init /\ caller'[p].want = k.want
    BY <1>0, <2>3 DEF CallerRecord
  <2> QED BY <1>10, <2>2, <2>4 DEF ResolveBound, Picks, Shift
<1>11. CASE Done(p)
  BY <1>11, UseMoves DEF Done, Quits, Shift
<1>12. CASE DropFuture(p)
  BY <1>12, UseMoves, RegistryAssumption DEF DropFuture, Quits, Sets, Shift
<1> QED BY <1>1, <1>2, <1>3, <1>4, <1>5, <1>6, <1>7, <1>8, <1>9, <1>10, <1>11, <1>12 DEF ResolveStep

-----------------------------------------------------------------------------
(* The cells under the steps of the tasks *)

\* One cell changes at most: its initializer claims it, ends its spawn, or its backend is asked
\* to retire by a resolver that found the slot retired.
CellMove(p, s, x) ==
    \/ cells'[s][x] = cells[s][x]
    \/ /\ s = caller[p].slot /\ x = caller[p].cell
       /\ \/ caller[p].pc = "cell" /\ cells[s][x] = "empty" /\ cells'[s][x] = "spawning"
          \/ caller[p].pc = "spawn" /\ cells[s][x] = "spawning" /\ cells'[s][x] = "empty"
          \/ Lands(p) /\ cells[s][x] = "spawning" /\ cells'[s][x] = "live"
          \/ /\ cells[s][x] \in {"live", "refused"} /\ cells'[s][x] \in {"refused", "retired"}
             /\ slot[s].retired /\ ~caller[p].bind /\ caller[p].pc \in {"await_writer", "retire"}

\* Every step of a task moves its own cell only.
LEMMA ShiftCells ==
    ASSUME TypeOK, Captured, CallerInv, NEW p \in Caller, Shift(p)
    PROVE  /\ \A s \in Slot, x \in CellId : CellMove(p, s, x)
           /\ caller[p].pc \notin {"ready", "load"} => caller[p].slot \in Slot
           /\ caller[p].cell \in CellId
<1> DEFINE k == caller[p]
<1>1. CallerSound(p) /\ k.cell \in CellId /\ (k.pc \notin {"ready", "load"} => k.slot \in Slot)
  BY DEF CallerInv, Captured, TypeOK, CallerRecord
<1>2. ASSUME NEW v, Sets(p, v), k.slot \in Slot
      PROVE  \A s \in Slot, x \in CellId : cells'[s][x] = IF s = k.slot /\ x = k.cell THEN v ELSE cells[s][x]
  BY <1>1, <1>2 DEF Sets, TypeOK
<1>3. UNCHANGED cells => \A s \in Slot, x \in CellId : CellMove(p, s, x)
  BY DEF CellMove
<1>4. CASE Claims(p)
  BY <1>1, <1>2, <1>4 DEF Claims, CellMove
<1>5. CASE Lands(p)
  BY <1>1, <1>2, <1>5 DEF Lands, CellMove, CallerSound
<1>6. CASE Fails(p)
  BY <1>1, <1>2, <1>6 DEF Fails, CellMove, CallerSound
<1>7. CASE Retries(p)
  <2>1. CASE UNCHANGED cells
    BY <1>1, <1>3, <2>1
  <2>2. CASE ~UNCHANGED cells
    <3>1. /\ k.pc \in {"await_writer", "retire"} /\ Asks(k.slot, {k.cell})
          /\ k.pc = "await_writer" => slot[k.slot].retired
      BY <1>7, <2>2 DEF Retries
    <3>2. ~k.bind /\ cells[k.slot][k.cell] \in {"live", "refused", "retired"} /\ slot[k.slot].retired
      BY <1>1, <3>1 DEF CallerSound, Late, TypeOK, CallerRecord
    <3> QED BY <1>1, <3>1, <3>2 DEF CellMove, Asks
  <2> QED BY <2>1, <2>2
<1>8. CASE Quits(p)
  <2>1. CASE UNCHANGED cells
    BY <1>1, <1>3, <2>1
  <2>2. CASE k.pc = "spawn" /\ Sets(p, "empty")
    BY <1>1, <1>2, <2>2 DEF CellMove, CallerSound
  <2> QED BY <1>8, <2>1, <2>2 DEF Quits
<1>9. CASE Begins(p) \/ Captures(p) \/ GoesOn(p) \/ Picks(p)
  BY <1>1, <1>3, <1>9 DEF Begins, Captures, GoesOn, Picks
<1> QED BY <1>4, <1>5, <1>6, <1>7, <1>8, <1>9 DEF Shift

\* The other tasks keep what they know of their cells: only its initializer ends a spawn.
LEMMA OthersSound ==
    ASSUME TypeOK, Captured, CallerInv, NEW p \in Caller, Base(p), Shift(p), NEW q \in Caller, q # p
    PROVE  CallerSound(q)'
<1> DEFINE k == caller[q]
<1>1. CallerSound(q) /\ k.cell \in CellId /\ (k.pc \notin {"ready", "load"} => k.slot \in Slot)
  BY DEF CallerInv, Captured, TypeOK, CallerRecord
<1>2. caller'[q] = k
  BY DEF Base, Others
<1>3. ASSUME k.slot \in Slot
      PROVE  /\ slot'[k.slot].retired = slot[k.slot].retired
             /\ slot'[k.slot].rekeyed = slot[k.slot].rekeyed
             /\ cells[k.slot][k.cell] \in {"live", "refused", "retired"} =>
                  cells'[k.slot][k.cell] \in {"live", "refused", "retired"}
             /\ cells'[k.slot][k.cell] = cells[k.slot][k.cell] \/ k.pc # "spawn"
  <2>1. CellMove(p, k.slot, k.cell)
    BY <1>1, <1>3, ShiftCells
  <2>2. k.pc = "spawn" => /\ cells[k.slot][k.cell] = "spawning"
                          /\ caller[p].pc = "spawn" => caller[p].slot # k.slot \/ caller[p].cell # k.cell
    BY <1>1 DEF CallerInv, OneSpawner, CallerSound
  <2> QED BY <1>3, <2>1, <2>2 DEF CellMove, Base, Lands
<1> QED BY <1>1, <1>2, <1>3 DEF CallerSound, Known, Late

\* The task that steps knows its new place.
LEMMA SelfSound ==
    ASSUME TypeOK, TypeOK', Captured, CallerInv, NEW p \in Caller, Base(p), Shift(p)
    PROVE  CallerSound(p)'
<1> DEFINE k == caller[p]
           l == caller'[p]
<1>0. CallerSound(p) /\ k.cell \in CellId /\ k.bind \in BOOLEAN /\ l.bind \in BOOLEAN
  BY DEF CallerInv, TypeOK, CallerRecord
<1>1. /\ k.pc \notin {"ready", "load"} =>
           k.slot \in Slot /\ slot'[k.slot].retired = slot[k.slot].retired
             /\ slot'[k.slot].rekeyed = slot[k.slot].rekeyed
  BY DEF Captured, Base
<1>2. SharedCell \in CellId
  BY RecordTypes
<1>3. k.slot \in Slot => CellMove(p, k.slot, k.cell)
  BY <1>0, ShiftCells
<1>4. CASE Begins(p)
  BY <1>0, <1>4 DEF Begins, CallerSound, Late
<1>5. CASE Captures(p)
  BY <1>0, <1>5 DEF Captures, CallerSound, Late, Known
<1>6. CASE Claims(p)
  <2>1. cells'[k.slot][k.cell] = "spawning"
    BY <1>0, <1>1, <1>6 DEF Claims, Sets, TypeOK
  <2> QED BY <1>0, <1>1, <1>6, <2>1 DEF Claims, SameUse, CallerSound, Late, Known
<1>7. CASE Lands(p)
  <2>1. cells'[k.slot][k.cell] = "live"
    BY <1>0, <1>1, <1>7 DEF Lands, Sets, TypeOK
  <2> QED BY <1>0, <1>1, <1>7, <2>1 DEF Lands, CallerSound, Late, Known
<1>8. CASE Fails(p)
  BY <1>0, <1>1, <1>8 DEF Fails, SameUse, CallerSound, Late, Known
<1>9. CASE GoesOn(p)
  BY <1>0, <1>1, <1>9 DEF GoesOn, Backend, SameUse, CallerSound, Late, Known
<1>10. CASE Retries(p)
  BY <1>0, <1>10 DEF Retries, CallerSound, Late
<1>11. CASE Picks(p)
  <2>1. k.bind
    BY <1>11 DEF Picks, Captured
  <2>2. \/ l.cell = SharedCell
        \/ l.cell[1] \in Key /\ l.cell[2] <= slot'[k.slot].rekeyed[l.cell[1]]
    <3>1. k.slot \in Slot /\ slot'[k.slot].rekeyed = slot[k.slot].rekeyed
      BY <1>1, <1>11 DEF Picks
    <3>2. \A key \in Key : slot[k.slot].rekeyed[key] \in Nat
      BY <3>1 DEF TypeOK, SlotRecord
    <3> QED BY <1>11, <3>1, <3>2 DEF Picks
  <2> QED BY <1>0, <1>1, <1>11, <2>1, <2>2 DEF Picks, CallerSound, Late, Known
<1>12. CASE Quits(p)
  BY <1>12 DEF Quits, Idle, CallerSound, Late
<1> QED BY <1>4, <1>5, <1>6, <1>7, <1>8, <1>9, <1>10, <1>11, <1>12 DEF Shift

\* A task becomes the initializer of an empty cell only.
LEMMA TaskCells ==
    ASSUME TypeOK, TypeOK', Captured, CallerInv, NEW p \in Caller, Base(p), Shift(p)
    PROVE  CallerInv'
<1>1. \A q \in Caller : CallerSound(q)'
  BY OthersSound, SelfSound
<1>2. caller'[p].pc = "spawn" =>
        /\ caller'[p].slot = caller[p].slot /\ caller'[p].cell = caller[p].cell
        /\ cells[caller[p].slot][caller[p].cell] = "empty"
  BY DEF Shift, Begins, Captures, Claims, Lands, Fails, GoesOn, Retries, Picks, Quits, Idle, SameUse
<1>3. \A q \in Caller : caller[q].pc = "spawn" => cells[caller[q].slot][caller[q].cell] = "spawning"
  BY DEF CallerInv, CallerSound
<1>4. OneSpawner'
  BY <1>2, <1>3 DEF CallerInv, OneSpawner, Base, Others
<1> QED BY <1>1, <1>4 DEF CallerInv

-----------------------------------------------------------------------------
(* The writers, the watchers and the drains *)

\* A slot that a writer has just created.
Fresh(s) == s > used /\ ~slot'[s].retired /\ \A key \in Key : slot'[s].rekeyed[key] = 0
Flags(s) == slot'[s].retired = slot[s].retired /\ slot'[s].rekeyed = slot[s].rekeyed

\* A drain goes on.
DrainMove(s, x) ==
    \/ drain'[s][x].pc = drain[s][x].pc
    \/ /\ drain[s][x].pc # "off" /\ drain'[s][x].pc # "off"
       /\ drain'[s][x].pc = "retire_keyed" => x = SharedCell

\* No cell is evicted and no slot retired.
Calm ==
    /\ used <= used'
    /\ \A s \in Slot : Fresh(s) \/ Flags(s)
    /\ \A s \in Slot, x \in CellId :
          /\ DrainMove(s, x)
          /\ cells'[s][x] # "empty" => s <= used /\ (cells[s][x] # "empty" \/ Known(s, x))

\* Drains and cells stay sound over a calm step.
LEMMA CalmDrains ==
    ASSUME TypeOK, TypeOK', DrainInv, Calm
    PROVE  DrainInv'
<1>0. used \in Nat /\ used' \in Nat /\ \A s \in Slot : s \in Nat
  BY RegistryAssumption DEF TypeOK, Slot
<1>1. \A x \in CellId : x[2] \in Nat
  BY RegistryAssumption DEF CellId
<1> SUFFICES ASSUME NEW s \in Slot
             PROVE  /\ slot'[s].retired => drain'[s][SharedCell].pc # "off"
                    /\ \A x \in CellId : DrainSound(s, x)'
  BY DEF DrainInv
<1>2. /\ slot[s].retired => drain[s][SharedCell].pc # "off"
      /\ \A x \in CellId : DrainSound(s, x)
      /\ \A x \in CellId : DrainMove(s, x)
      /\ Fresh(s) \/ Flags(s)
      /\ \A x \in CellId : cells'[s][x] # "empty" => s <= used /\ (cells[s][x] # "empty" \/ Known(s, x))
      /\ used <= used'
  BY DEF DrainInv, Calm
<1>3. CASE Fresh(s)
  <2>1. \A x \in CellId : cells'[s][x] = "empty" /\ drain'[s][x].pc = "off" /\ ~Evicted(s, x)'
    BY <1>0, <1>1, <1>2, <1>3 DEF Fresh, DrainSound, DrainMove, Evicted
  <2> QED BY <1>3, <2>1, RecordTypes DEF Fresh, DrainSound
<1>4. CASE Flags(s)
  <2>1. SharedCell \in CellId
    BY RecordTypes
  <2>2. \A x \in CellId : (Evicted(s, x)' <=> Evicted(s, x)) /\ (Known(s, x)' <=> Known(s, x))
    BY <1>4 DEF Flags, Evicted, Known
  <2>3. slot'[s].retired => drain'[s][SharedCell].pc # "off"
    BY <1>2, <1>4, <2>1 DEF Flags, DrainMove
  <2>4. s > used' => s > used
    BY <1>0, <1>2
  <2>5. ASSUME NEW x \in CellId PROVE DrainSound(s, x)'
    BY <1>0, <1>2, <1>4, <2>2, <2>4, <2>5 DEF Flags, DrainMove, DrainSound
  <2> QED BY <2>3, <2>5
<1> QED BY <1>2, <1>3, <1>4

\* A task's step is calm.
LEMMA TaskCalm ==
    ASSUME TypeOK, Captured, CallerInv, DrainInv, NEW p \in Caller, Base(p), Shift(p)
    PROVE  Calm
<1>0. used \in Nat /\ \A s \in Slot : s \in Nat
  BY RegistryAssumption DEF TypeOK, Slot
<1>1. used <= used' /\ \A s \in Slot : Flags(s)
  BY <1>0 DEF Base, Flags
<1>2. \A s \in Slot, x \in CellId : DrainMove(s, x)
  BY DEF Base, DrainMove
<1>3. ASSUME NEW s \in Slot, NEW x \in CellId, cells'[s][x] # "empty"
      PROVE  s <= used /\ (cells[s][x] # "empty" \/ Known(s, x))
  <2>1. CellMove(p, s, x)
    BY ShiftCells
  <2>2. CASE cells'[s][x] = cells[s][x]
    BY <1>0, <1>3, <2>2 DEF DrainInv, DrainSound
  <2>3. CASE cells'[s][x] # cells[s][x]
    <3>1. s = caller[p].slot /\ x = caller[p].cell /\ caller[p].pc \notin {"ready", "load"}
      BY <2>1, <2>3 DEF CellMove, Lands
    <3>2. s <= used
      BY <3>1 DEF Captured
    <3>3. cells[s][x] # "empty" \/ Known(s, x)
      BY <2>1, <2>3, <3>1 DEF CellMove, CallerInv, CallerSound
    <3> QED BY <3>2, <3>3
  <2> QED BY <2>2, <2>3
<1> QED BY <1>1, <1>2, <1>3 DEF Calm

\* What a step of a writer, a watcher or a drain may do to the cells and the flags.
Outside ==
    /\ UNCHANGED caller /\ used <= used'
    /\ \A s \in Slot : \/ Fresh(s)
                       \/ /\ slot[s].retired => slot'[s].retired
                          /\ \A key \in Key : slot[s].rekeyed[key] <= slot'[s].rekeyed[key]
    /\ \A s \in Slot, x \in CellId : \/ cells'[s][x] = cells[s][x]
                                     \/ cells[s][x] \in {"live", "refused"} /\ cells'[s][x] \in {"refused", "retired"}

\* The tasks keep what they know of their cells.
LEMMA OutsideCells ==
    ASSUME TypeOK, TypeOK', Captured, CallerInv, Outside
    PROVE  CallerInv'
<1>0. used \in Nat /\ \A s \in Slot : s \in Nat
  BY RegistryAssumption DEF TypeOK, Slot
<1>1. ASSUME NEW p \in Caller PROVE CallerSound(p)'
  <2> DEFINE k == caller[p]
  <2>1. CallerSound(p) /\ k.cell \in CellId
    BY DEF CallerInv, TypeOK, CallerRecord
  <2>2. caller'[p] = k
    BY DEF Outside
  <2>3. CASE k.pc \in {"ready", "load"}
    BY <2>1, <2>2, <2>3 DEF CallerSound, Late
  <2>4. CASE k.pc \notin {"ready", "load"}
    <3>1. k.slot \in Slot /\ k.slot <= used
      BY <2>4 DEF Captured
    <3>2. /\ slot[k.slot].retired => slot'[k.slot].retired
          /\ \A key \in Key : slot[k.slot].rekeyed[key] <= slot'[k.slot].rekeyed[key]
          /\ \/ cells'[k.slot][k.cell] = cells[k.slot][k.cell]
             \/ cells[k.slot][k.cell] \in {"live", "refused"} /\ cells'[k.slot][k.cell] \in {"refused", "retired"}
      BY <1>0, <2>1, <3>1 DEF Outside, Fresh
    <3>3. \A key \in Key : slot[k.slot].rekeyed[key] \in Nat /\ slot'[k.slot].rekeyed[key] \in Nat
      BY <3>1 DEF TypeOK, SlotRecord
    <3>4. k.cell[2] \in Nat
      BY <2>1, RegistryAssumption DEF CellId
    <3>5. Known(k.slot, k.cell) => Known(k.slot, k.cell)'
      BY <2>2, <3>2, <3>3, <3>4 DEF Known
    <3> QED BY <2>1, <2>2, <3>2, <3>5 DEF CallerSound, Late
  <2> QED BY <2>3, <2>4
<1>2. OneSpawner'
  BY DEF Outside, CallerInv, OneSpawner
<1> QED BY <1>1, <1>2 DEF CallerInv

\* A writer publishes, edits, or a watcher moves: no slot in use is retired, no cell evicted.
Renews ==
    /\ UNCHANGED <<caller, cells, drain>> /\ used <= used'
    /\ \A s \in Slot : Fresh(s) \/ Flags(s)
\* The cell of a key is taken out of its slot's map and gets its drain.
Evicts(s, key) ==
    /\ UNCHANGED <<caller, cells, used>>
    /\ s <= used /\ ~slot[s].retired /\ ~slot'[s].retired
    /\ <<key, slot[s].rekeyed[key]>> \in CellId
    /\ \A t \in Slot \ {s} : Flags(t)
    /\ \A j \in Key : slot'[s].rekeyed[j] = IF j = key THEN slot[s].rekeyed[j] + 1 ELSE slot[s].rekeyed[j]
    /\ \A t \in Slot, x \in CellId :
          drain'[t][x].pc = IF t = s /\ x = <<key, slot[s].rekeyed[key]>> THEN "check" ELSE drain[t][x].pc
\* The slot a writer has replaced is retired and gets its drain.
Retires(s) ==
    /\ UNCHANGED <<caller, cells, used>> /\ s <= used
    /\ \A t \in Slot \ {s} : Flags(t)
    /\ slot'[s].retired /\ slot'[s].rekeyed = slot[s].rekeyed
    /\ \A t \in Slot, x \in CellId :
          drain'[t][x].pc = IF t = s /\ x = SharedCell THEN "check" ELSE drain[t][x].pc
\* A drain looks at the count, parks, wakes or asks its cells' backends to retire.
Current(s, x) == x[1] \in Key /\ x[2] = slot[s].rekeyed[x[1]]
Drains(s, x) ==
    LET from == drain[s][x].pc  to == drain'[s][x].pc
        wait == {"check", "register", "parked"} IN
    /\ UNCHANGED <<caller, slot, used>>
    /\ \A t \in Slot, y \in CellId : t # s \/ y # x => drain'[t][y] = drain[t][y]
    /\ \/ from \in wait /\ to \in wait /\ UNCHANGED cells
       \/ from \in wait /\ to = "retire" /\ (slot[s].leases = 0 \/ GraceExpires) /\ UNCHANGED cells
       \/ /\ from = "retire" /\ to = IF x = SharedCell THEN "retire_keyed" ELSE "ended"
          /\ Asks(s, {x})
       \/ /\ x = SharedCell /\ from = "retire_keyed" /\ to = "ended"
          /\ Asks(s, {y \in CellId : Current(s, y)})

\* The published slot is one that was not in use; the others stay as they are.
LEMMA PublishFresh ==
    ASSUME TypeOK, NEW next, NEW keyed, Publish(next, keyed)
    PROVE  /\ used <= used'
           /\ \A s \in Slot : slot'[s] = slot[s] \/ (s > used /\ slot'[s] = NewSlot(keyed))
<1>0. used \in Nat
  BY RegistryAssumption DEF TypeOK, Slot
<1>1. CASE next = NoSlot
  BY <1>0, <1>1 DEF Publish
<1>2. CASE next # NoSlot
  BY <1>0, <1>2 DEF Publish, TypeOK
<1> QED BY <1>1, <1>2

\* A publication renews.
LEMMA PublishRenews ==
    ASSUME TypeOK, NEW next, NEW keyed, Publish(next, keyed), UNCHANGED <<caller, cells, drain>>
    PROVE  Renews
<1>1. \A s \in Slot : s > used /\ slot'[s] = NewSlot(keyed) => Fresh(s)
  BY DEF NewSlot, Fresh
<1>2. \A s \in Slot : slot'[s] = slot[s] => Flags(s)
  BY DEF Flags
<1> QED BY <1>1, <1>2, PublishFresh DEF Renews

\* The kinds of the writers' steps.
LEMMA WriterKinds ==
    ASSUME TypeOK, Captured,
           \/ ApplyReplace \/ ApplyReuse \/ Invalidate \/ MarkRetired
           \/ \E p \in Caller, key \in Key : InvalidateBound(p, key)
    PROVE  \/ Renews
           \/ \E s \in Slot, key \in Key : Evicts(s, key)
           \/ writer \in Slot /\ (writer <= used => Retires(writer))
<1>0. used \in Nat
  BY RegistryAssumption DEF TypeOK, Slot
<1>1. CASE ApplyReplace \/ Invalidate
  BY <1>1, PublishRenews DEF ApplyReplace, Invalidate
<1>2. CASE ApplyReuse
  <2>1. mapped \in Slot /\ slot' = [slot EXCEPT ![mapped].version = @ + 1]
    BY <1>2 DEF ApplyReuse, TypeOK
  <2>2. \A s \in Slot : Flags(s)
    BY <2>1 DEF TypeOK, SlotRecord, Flags
  <2> QED BY <1>0, <1>2, <2>2 DEF ApplyReuse, Renews
<1>3. CASE MarkRetired
  <2>1. writer \in Slot /\ slot' = [slot EXCEPT ![writer].retired = TRUE]
    BY <1>3 DEF MarkRetired, TypeOK
  <2>2. /\ \A t \in Slot \ {writer} : Flags(t)
        /\ slot'[writer].retired /\ slot'[writer].rekeyed = slot[writer].rekeyed
    BY <2>1 DEF TypeOK, SlotRecord, Flags
  <2>3. drain' = [drain EXCEPT ![writer] =
                    [x \in CellId |-> IF x = SharedCell THEN [pc |-> "check", woken |-> FALSE]
                                      ELSE Woken(drain[writer][x])]]
    BY <1>3 DEF MarkRetired
  <2>4. \A w \in [pc: DrainPc, woken: BOOLEAN] : Woken(w).pc = w.pc
    BY DEF Woken
  <2>5. \A x \in CellId : drain'[writer][x] = IF x = SharedCell THEN [pc |-> "check", woken |-> FALSE]
                                              ELSE Woken(drain[writer][x])
    BY <2>1, <2>3 DEF TypeOK
  <2>6. \A t \in Slot \ {writer} : drain'[t] = drain[t]
    BY <2>3 DEF TypeOK
  <2>7. \A t \in Slot, x \in CellId : drain[t][x] \in [pc: DrainPc, woken: BOOLEAN]
    BY DEF TypeOK
  <2>8. \A t \in Slot, x \in CellId :
          drain'[t][x].pc = IF t = writer /\ x = SharedCell THEN "check" ELSE drain[t][x].pc
    BY <2>1, <2>4, <2>5, <2>6, <2>7
  <2> QED BY <1>3, <2>1, <2>2, <2>8 DEF MarkRetired, Retires
<1>4. ASSUME NEW p \in Caller, NEW key \in Key, InvalidateBound(p, key)
      PROVE  Renews \/ \E s \in Slot : Evicts(s, key)
  <2> DEFINE s == caller[p].slot
             x == <<key, slot[s].rekeyed[key]>>
  <2>1. s \in Slot /\ s <= used /\ slot[s] \in SlotRecord /\ ~slot[s].retired
    BY <1>4 DEF InvalidateBound, Captured, TypeOK
  <2>2. CASE slot[s].keyed
    <3> DEFINE row == [slot[s].rekeyed EXCEPT ![key] = @ + 1]
    <3>1. slot' = [slot EXCEPT ![s].rekeyed = row]
      BY <1>4, <2>2 DEF InvalidateBound
    <3>2. \A j \in Key : row[j] = IF j = key THEN slot[s].rekeyed[j] + 1 ELSE slot[s].rekeyed[j]
      BY <2>1 DEF SlotRecord
    <3> HIDE DEF row
    <3>3. /\ \A t \in Slot \ {s} : Flags(t)
          /\ slot'[s].retired = slot[s].retired /\ slot'[s].rekeyed = row
      BY <2>1, <3>1 DEF TypeOK, SlotRecord, Flags
    <3>4. x \in CellId
      BY <2>1 DEF CellId, SlotRecord
    <3>5. drain' = [drain EXCEPT ![s][x].pc = "check"]
      BY <1>4, <2>2 DEF InvalidateBound
    <3>6. \A t \in Slot, y \in CellId :
            drain'[t][y].pc = IF t = s /\ y = x THEN "check" ELSE drain[t][y].pc
      <4> HIDE DEF x
      <4> QED BY <2>1, <3>4, <3>5 DEF TypeOK
    <3> QED BY <1>4, <2>1, <2>2, <3>2, <3>3, <3>4, <3>6 DEF InvalidateBound, Evicts
  <2>3. CASE ~slot[s].keyed
    BY <1>4, <2>3, PublishRenews DEF InvalidateBound
  <2> QED BY <2>2, <2>3, <2>1
<1> QED BY <1>1, <1>2, <1>3, <1>4

\* The steps of a watcher renew; those of a drain are a drain's.
LEMMA TaskKinds ==
    ASSUME TypeOK, NEW s \in Slot,
           WatchStep(s) \/ DrainRetireKeyed(s) \/ \E x \in CellId : DrainStep(s, x)
    PROVE  Renews \/ \E x \in CellId : Drains(s, x)
<1>0. used \in Nat /\ SharedCell \in CellId
  BY RegistryAssumption, RecordTypes DEF TypeOK, Slot
<1>1. CASE WatchSwap(s)
  BY <1>1, PublishRenews DEF WatchSwap
<1>2. CASE WatchStep(s) /\ ~WatchSwap(s)
  <2>1. /\ UNCHANGED <<caller, cells, drain, used>>
        /\ \/ UNCHANGED slot \/ slot' = [slot EXCEPT ![s].stale = FALSE]
           \/ \E v \in BOOLEAN : slot' = [slot EXCEPT ![s].idle = v]
    BY <1>2 DEF WatchStep, WatchStart, WatchLeases, WatchWake, WatchExpires, WatchLock, ClaimLeases,
                ClaimEpoch, withdraw
  <2>2. \A t \in Slot : Flags(t)
    <3>1. CASE UNCHANGED slot
      BY <3>1 DEF Flags
    <3>2. CASE slot' = [slot EXCEPT ![s].stale = FALSE]
      BY <3>2 DEF Flags, TypeOK, SlotRecord
    <3>3. ASSUME NEW v \in BOOLEAN, slot' = [slot EXCEPT ![s].idle = v]
          PROVE  \A t \in Slot : Flags(t)
      BY <3>3 DEF Flags, TypeOK, SlotRecord
    <3> QED BY <2>1, <3>1, <3>2, <3>3
  <2> QED BY <1>0, <2>1, <2>2 DEF Renews
<1>3. ASSUME NEW x \in CellId, NEW pc, drainGoto(s, x, pc)
      PROVE  /\ \A t \in Slot, y \in CellId : t # s \/ y # x => drain'[t][y] = drain[t][y]
             /\ drain'[s][x].pc = pc
  BY <1>3 DEF drainGoto, TypeOK
<1>5. CASE DrainRetireKeyed(s)
  <2> DEFINE X == {<<k, slot[s].rekeyed[k]>> : k \in Key}
  <2>1. \A y \in CellId : y \in X <=> Current(s, y)
    <3>1. \A y \in CellId : y = <<y[1], y[2]>>
      BY DEF CellId
    <3> QED BY <3>1 DEF Current
  <2>2. Asks(s, X)
    BY <1>5, AskEffect DEF DrainRetireKeyed
  <2> HIDE DEF X
  <2>3. Asks(s, {y \in CellId : Current(s, y)})
    BY <2>1, <2>2 DEF Asks
  <2>4. Drains(s, SharedCell)
    BY <1>0, <1>3, <1>5, <2>3 DEF DrainRetireKeyed, Drains
  <2> QED BY <1>0, <2>4
<1>6. ASSUME NEW x \in CellId, DrainStep(s, x)
      PROVE  Drains(s, x)
  <2>1. CASE DrainRetire(s, x)
    <3>1. Asks(s, {x})
      BY <2>1, AskEffect DEF DrainRetire
    <3>2. /\ drain[s][x].pc = "retire" /\ UNCHANGED <<caller, slot, used>>
          /\ drainGoto(s, x, IF x = SharedCell THEN "retire_keyed" ELSE "ended")
      BY <2>1 DEF DrainRetire
    <3> QED BY <1>3, <3>1, <3>2 DEF Drains
  <2>2. CASE DrainCheck(s, x) \/ DrainRegister(s, x)
    <3>1. PICK pc : /\ drainGoto(s, x, pc) /\ pc \in {"register", "parked", "retire"}
                    /\ pc = "retire" => slot[s].leases = 0
      BY <2>2 DEF DrainCheck, DrainRegister
    <3>2. drain[s][x].pc \in {"check", "register"} /\ UNCHANGED <<caller, slot, used, cells>>
      BY <2>2 DEF DrainCheck, DrainRegister
    <3> QED BY <1>3, <3>1, <3>2 DEF Drains
  <2>3. CASE DrainWake(s, x)
    BY <1>3, <2>3 DEF DrainWake, Drains
  <2> QED BY <1>6, <2>1, <2>2, <2>3 DEF DrainStep
<1> QED BY <1>1, <1>2, <1>5, <1>6

\* A step of a writer, a watcher or a drain.
World ==
    \/ Renews
    \/ \E s \in Slot, key \in Key : Evicts(s, key)
    \/ \E s \in Slot : Retires(s)
    \/ \E s \in Slot, x \in CellId : Drains(s, x)

\* Of its own kind, it stays outside the tasks.
LEMMA WorldOutside == ASSUME TypeOK, World PROVE Outside
<1>0. used \in Nat
  BY RegistryAssumption DEF TypeOK, Slot
<1>1. \A s \in Slot, key \in Key : slot[s].rekeyed[key] \in Nat
  BY DEF TypeOK, SlotRecord
<1>2. \A s \in Slot : Flags(s) => /\ slot[s].retired => slot'[s].retired
                                  /\ \A key \in Key : slot[s].rekeyed[key] <= slot'[s].rekeyed[key]
  BY <1>1 DEF Flags
<1>3. CASE Renews
  BY <1>2, <1>3 DEF Renews, Outside
<1>4. ASSUME NEW s \in Slot, NEW key \in Key, Evicts(s, key) PROVE Outside
  <2>1. \A j \in Key : slot[s].rekeyed[j] <= slot'[s].rekeyed[j]
    BY <1>1, <1>4 DEF Evicts
  <2> QED BY <1>0, <1>2, <1>4, <2>1 DEF Evicts, Outside
<1>5. ASSUME NEW s \in Slot, Retires(s) PROVE Outside
  BY <1>0, <1>1, <1>2, <1>5 DEF Retires, Outside
<1>6. ASSUME NEW s \in Slot, NEW x \in CellId, Drains(s, x) PROVE Outside
  <2>1. \A t \in Slot : Flags(t)
    BY <1>6 DEF Drains, Flags
  <2>2. \A t \in Slot, y \in CellId : \/ cells'[t][y] = cells[t][y]
                                      \/ cells[t][y] \in {"live", "refused"} /\ cells'[t][y] \in {"refused", "retired"}
    BY <1>6 DEF Drains, Asks
  <2> QED BY <1>0, <1>2, <1>6, <2>1, <2>2 DEF Drains, Outside
<1> QED BY <1>3, <1>4, <1>5, <1>6 DEF World

\* Drains and cells stay sound: an evicted cell and a retired slot get their drain at once.
LEMMA WorldDrains == ASSUME TypeOK, TypeOK', DrainInv, World PROVE DrainInv'
<1>0. /\ used \in Nat /\ used' \in Nat /\ \A s \in Slot : s \in Nat
      /\ \A x \in CellId : x[2] \in Nat /\ x = <<x[1], x[2]>>
      /\ \A s \in Slot, key \in Key : slot[s].rekeyed[key] \in Nat /\ slot'[s].rekeyed[key] \in Nat
  <2>1. \A x \in CellId : x[2] \in Nat /\ x = <<x[1], x[2]>>
    BY RegistryAssumption DEF CellId
  <2>2. \A s \in Slot, key \in Key : slot[s].rekeyed[key] \in Nat /\ slot'[s].rekeyed[key] \in Nat
    BY DEF TypeOK, SlotRecord
  <2> QED BY <2>1, <2>2, RegistryAssumption DEF TypeOK, Slot
<1>1. CASE Renews
  <2>1. Calm
    BY <1>0, <1>1 DEF Renews, Calm, DrainMove, DrainInv, DrainSound
  <2> QED BY <2>1, CalmDrains
<1>2. ASSUME NEW s \in Slot, NEW x \in CellId, Drains(s, x) PROVE DrainInv'
  <2>1. \A t \in Slot : Flags(t)
    BY <1>2 DEF Drains, Flags
  <2>2. \A t \in Slot, y \in CellId : DrainMove(t, y)
    BY <1>2 DEF Drains, DrainMove
  <2>3. \A t \in Slot, y \in CellId : cells'[t][y] # "empty" => cells[t][y] # "empty"
    BY <1>2 DEF Drains, Asks
  <2>4. Calm
    BY <1>0, <1>2, <2>1, <2>2, <2>3 DEF Drains, Calm, DrainInv, DrainSound
  <2> QED BY <2>4, CalmDrains
<1>3. ASSUME NEW s \in Slot, NEW key \in Key, Evicts(s, key) PROVE DrainInv'
  <2> DEFINE z == <<key, slot[s].rekeyed[key]>>
  <2>1. z # SharedCell /\ z \in CellId
    BY <1>3, RegistryAssumption DEF SharedCell, Evicts
  <2>2. ASSUME NEW t \in Slot, t # s
        PROVE  /\ slot'[t].retired => drain'[t][SharedCell].pc # "off"
               /\ \A x \in CellId : DrainSound(t, x)'
    BY <1>0, <1>3, <2>1, <2>2, RecordTypes DEF Evicts, Flags, DrainInv, DrainSound, Evicted, Known
  <2>3. ASSUME NEW x \in CellId PROVE DrainSound(s, x)'
    <3>1. Evicted(s, x)' <=> Evicted(s, x) \/ x = z
      BY <1>0, <1>3 DEF Evicts, Evicted
    <3>2. Known(s, x) => Known(s, x)'
      BY <1>0, <1>3 DEF Evicts, Known
    <3>3. DrainSound(s, x) /\ drain'[s][x].pc = IF x = z THEN "check" ELSE drain[s][x].pc
      BY <1>3 DEF DrainInv, Evicts
    <3> QED BY <1>0, <1>3, <3>1, <3>2, <3>3 DEF Evicts, DrainSound
  <2> QED BY <1>3, <2>2, <2>3 DEF Evicts, DrainInv
<1>4. ASSUME NEW s \in Slot, Retires(s) PROVE DrainInv'
  <2>1. ASSUME NEW t \in Slot
        PROVE  /\ slot'[t].retired => drain'[t][SharedCell].pc # "off"
               /\ \A x \in CellId : DrainSound(t, x)'
    <3>1. \A x \in CellId : /\ Evicted(t, x)' <=> Evicted(t, x)
                            /\ Known(t, x)' <=> Known(t, x)
      BY <1>4 DEF Retires, Flags, Evicted, Known
    <3>2. /\ t # s => slot'[t].retired = slot[t].retired
          /\ t = s => slot'[t].retired
          /\ \A x \in CellId :
               drain'[t][x].pc = IF t = s /\ x = SharedCell THEN "check" ELSE drain[t][x].pc
      BY <1>4 DEF Retires, Flags
    <3>3. slot[t].retired => drain[t][SharedCell].pc # "off"
      BY DEF DrainInv
    <3>4. ASSUME NEW x \in CellId PROVE DrainSound(t, x)'
      <4>1. DrainSound(t, x) /\ UNCHANGED <<cells, used>> /\ s <= used
        BY <1>4 DEF DrainInv, Retires
      <4> QED BY <1>0, <3>1, <3>2, <4>1 DEF DrainSound
    <3> QED BY <3>2, <3>3, <3>4, RecordTypes
  <2> QED BY <2>1 DEF DrainInv
<1> QED BY <1>1, <1>2, <1>3, <1>4 DEF World

\* The holders of write_lock: only the watcher that claimed its slot goes on with it.
LEMMA LockTask ==
    ASSUME LockInv, NEW p \in Caller, Base(p)
    PROVE  LockInv'
  BY DEF LockInv, Base, WatchRule

\* A writer holds write_lock alone, so no watcher is between its claim and its swap.
LEMMA LockWriter ==
    ASSUME TypeOK, Captured, LockInv,
           \/ ApplyReplace \/ ApplyReuse \/ Invalidate \/ MarkRetired
           \/ \E p \in Caller, key \in Key : InvalidateBound(p, key)
    PROVE  LockInv'
<1>0. used \in Nat /\ \A s \in Slot : s \in Nat /\ s # NoSlot
  BY RegistryAssumption DEF TypeOK, Slot, NoSlot
<1>1. ASSUME NEW next, NEW keyed, Publish(next, keyed), UNCHANGED watch, writer = NoSlot
      PROVE  LockInv'
  <2>1. writer' <= used'
    BY <1>0, <1>1, PublishFresh, RegistryAssumption DEF Publish, Captured, TypeOK, Slot, NoSlot
  <2> QED BY <1>0, <1>1, <2>1 DEF LockInv
<1>2. CASE ApplyReplace \/ Invalidate
  BY <1>1, <1>2 DEF ApplyReplace, Invalidate
<1>3. CASE ApplyReuse
  BY <1>0, <1>3 DEF ApplyReuse, LockInv
<1>4. CASE MarkRetired
  <2>1. writer \in Slot
    BY <1>4 DEF MarkRetired, TypeOK
  <2>2. \A s \in Slot : watch'[s].pc \in {"claim_leases", "claim_epoch", "swap"} =>
          watch[s].pc \in {"claim_leases", "claim_epoch", "swap"}
    BY <1>4, <2>1 DEF MarkRetired, TypeOK, Woken
  <2> QED BY <1>0, <1>4, <2>1, <2>2 DEF MarkRetired, LockInv, NoSlot
<1>5. ASSUME NEW p \in Caller, NEW key \in Key, InvalidateBound(p, key) PROVE LockInv'
  <2>1. writer = NoSlot /\ UNCHANGED watch
    BY <1>5 DEF InvalidateBound
  <2>2. CASE UNCHANGED <<mapped, used, writer>>
    BY <1>0, <2>1, <2>2 DEF LockInv
  <2>3. CASE \E next, keyed : Publish(next, keyed)
    BY <1>1, <2>1, <2>3
  <2> QED BY <1>5, <2>2, <2>3 DEF InvalidateBound
<1> QED BY <1>2, <1>3, <1>4, <1>5

\* The watcher that takes write_lock finds its slot mapped and not retired.
LEMMA LockTasks ==
    ASSUME TypeOK, Captured, LockInv, NEW s \in Slot,
           WatchStep(s) \/ DrainRetireKeyed(s) \/ \E x \in CellId : DrainStep(s, x)
    PROVE  LockInv'
<1>0. used \in Nat /\ \A t \in Slot : t \in Nat /\ t # NoSlot
  BY RegistryAssumption DEF TypeOK, Slot, NoSlot
<1>1. CASE DrainRetireKeyed(s) \/ \E x \in CellId : DrainStep(s, x)
  BY <1>1 DEF DrainRetireKeyed, DrainStep, DrainCheck, DrainRegister, DrainWake, DrainRetire, LockInv
<1>2. \A pc : watchGoto(s, pc) => watch'[s].pc = pc /\ \A t \in Slot \ {s} : watch'[t] = watch[t]
  BY DEF watchGoto, TypeOK
<1>3. CASE WatchStart(s) \/ WatchLeases(s) \/ WatchWake(s) \/ WatchExpires(s)
  <2>1. UNCHANGED <<mapped, used, writer>> /\ \A t \in Slot : slot'[t].retired = slot[t].retired
    <3>1. UNCHANGED slot \/ slot' = [slot EXCEPT ![s].stale = FALSE]
      BY <1>3 DEF WatchStart, WatchLeases, WatchWake, WatchExpires
    <3>2. slot' = [slot EXCEPT ![s].stale = FALSE] => \A t \in Slot : slot'[t].retired = slot[t].retired
      BY DEF TypeOK, SlotRecord
    <3> QED BY <1>3, <3>1, <3>2 DEF WatchStart, WatchLeases, WatchWake, WatchExpires
  <2>2. /\ watch'[s].pc \notin {"claim_leases", "claim_epoch", "swap"}
        /\ \A t \in Slot \ {s} : watch'[t] = watch[t]
    BY <1>3, <1>2 DEF WatchStart, WatchLeases, WatchWake, WatchExpires, TypeOK
  <2> QED BY <2>1, <2>2 DEF LockInv
<1>4. CASE WatchLock(s)
  <2>1. \A t \in Slot : slot'[t].retired = slot[t].retired
    <3>1. UNCHANGED slot \/ slot' = [slot EXCEPT ![s].idle = TRUE]
      BY <1>4 DEF WatchLock
    <3>2. slot' = [slot EXCEPT ![s].idle = TRUE] => \A t \in Slot : slot'[t].retired = slot[t].retired
      BY DEF TypeOK, SlotRecord
    <3> QED BY <3>1, <3>2
  <2> QED BY <1>0, <1>2, <1>4, <2>1 DEF WatchLock, LockInv, Captured
<1>5. CASE ClaimLeases(s) \/ ClaimEpoch(s)
  <2>1. \A t \in Slot : slot'[t].retired = slot[t].retired
    BY <1>5 DEF ClaimLeases, ClaimEpoch, withdraw, TypeOK, SlotRecord
  <2> QED BY <1>0, <1>2, <1>5, <2>1 DEF ClaimLeases, ClaimEpoch, withdraw, LockInv, NoSlot
<1>6. CASE WatchSwap(s)
  <2>1. writer' <= used'
    BY <1>0, <1>6, PublishFresh, RegistryAssumption DEF WatchSwap, Publish, Captured, TypeOK, Slot, NoSlot
  <2> QED BY <1>0, <1>2, <1>6, <2>1 DEF WatchSwap, LockInv
<1> QED BY <1>1, <1>3, <1>4, <1>5, <1>6 DEF WatchStep

-----------------------------------------------------------------------------
(* Who uses a retired backend, and who will retire an orphan *)

\* Operations a deployment may leave out: bound uses; plain resolves; every writer but the
\* idle watchers.
Bindless == "bind" \notin Operations
Resolveless == {"resolve", "admitted"} \cap Operations = {}
IdleOnly == {"apply", "invalidate", "evict"} \cap Operations = {}

\* Without bound uses there are none.
BindInv == Bindless => \A p \in Caller : ~caller[p].bind
\* Without plain resolves all uses are bound; with idle watchers only, a retired slot has been
\* claimed by its watcher and keeps the claim.
ModeInv ==
    /\ Resolveless => \A p \in Caller : caller[p].pc # "ready" => caller[p].bind
    /\ IdleOnly => \A s \in Slot :
         /\ slot[s].retired => slot[s].idle /\ watch[s].pc = "ended"
         /\ writer = s => /\ slot[s].idle
                          /\ watch[s].pc \in {"claim_leases", "claim_epoch", "swap", "retire"}

\* Nobody uses the slot, nobody uses the cell.
Free(s) == \A p \in Caller : Secured(p) => caller[p].slot # s
Unused(s, x) == \A p \in Caller : InCell(p) /\ caller[p].slot = s => caller[p].cell # x

\* A drain that has stopped waiting has no user left, where no force deadline ends the wait.
Past == {"retire", "retire_keyed", "ended"}
QuitInv ==
    ~GraceExpires => \A s \in Slot, x \in CellId :
        drain[s][x].pc \in Past => Unused(s, x) /\ (x = SharedCell => Free(s))

\* The futures that wait for write_lock are not dropped, and the force deadline does not cut
\* off a bound use that is still spawning.
Tended == "await_writer" \notin Droppable /\ (~GraceExpires \/ Bindless)
OrphanInv == Tended => OrphanFree

\* A backend is asked to retire only where nobody uses it: no force deadline, and no resolver that
\* loses the race while a bound use still has the slot.
Orderly == ~GraceExpires /\ (Resolveless \/ IdleOnly)
RetiredSound(s, x) ==
    cells[s][x] \in {"refused", "retired"} => Unused(s, x) /\ (Evicted(s, x) \/ (slot[s].retired /\ Free(s)))
RetiredInv == Orderly => \A s \in Slot, x \in CellId : RetiredSound(s, x)

UseInv == BindInv /\ ModeInv /\ QuitInv /\ OrphanInv /\ RetiredInv

\* The shared cell is no key's.
LEMMA Sharing == \A s : ~Evicted(s, SharedCell) /\ ~Current(s, SharedCell)
  BY RegistryAssumption DEF Evicted, Current, SharedCell

\* Only the flags, the drains and the watchers of its slot stand between a task and a use.
LEMMA ShiftUse ==
    ASSUME TypeOK, Captured, CellInv, NEW p \in Caller, Base(p), Shift(p)
    PROVE  /\ Secured(p)' => /\ caller'[p].slot = caller[p].slot /\ caller[p].slot \in Slot
                             /\ Secured(p) \/ ~slot[caller[p].slot].retired
           /\ InCell(p)' => /\ caller'[p].slot = caller[p].slot /\ caller[p].slot \in Slot
                            /\ \/ InCell(p) /\ caller'[p].cell = caller[p].cell
                               \/ ~slot[caller[p].slot].retired /\ caller'[p].cell = SharedCell
                               \/ /\ Secured(p)
                                  /\ \/ caller'[p].cell = SharedCell
                                     \/ Current(caller[p].slot, caller'[p].cell)
<1> DEFINE k == caller[p]
<1>0. CallerSound(p) /\ k.bind \in BOOLEAN
  BY DEF CellInv, CallerInv, TypeOK, CallerRecord
<1>1. k.pc \notin {"ready", "load"} => k.slot \in Slot
  BY DEF Captured
<1>2. CASE Begins(p) \/ Captures(p) \/ Retries(p) \/ Quits(p)
  <2>1. caller'[p].pc \in {"ready", "load", "count", "cell"}
    BY <1>2 DEF Begins, Captures, Retries, Quits, Idle
  <2>2. caller'[p].pc = "cell" => ~caller'[p].bind
    BY <1>0, <1>2 DEF Begins, Captures, Retries, Quits, Idle
  <2> QED BY <2>1, <2>2 DEF Secured, InCell
<1>3. CASE Claims(p) \/ Fails(p)
  BY <1>0, <1>1, <1>3 DEF Claims, Fails, SameUse, Secured, InCell
<1>4. CASE Lands(p)
  BY <1>0, <1>1, <1>4 DEF Lands, Secured, InCell
<1>5. CASE GoesOn(p)
  BY <1>0, <1>1, <1>5 DEF GoesOn, SameUse, Secured, InCell, CallerSound
<1>6. CASE Picks(p)
  <2>1. k.bind /\ k.slot \in Slot /\ Secured(p)
    BY <1>1, <1>6 DEF Picks, Captured, Secured
  <2> QED BY <1>6, <2>1 DEF Picks, Current, InCell, Secured
<1> QED BY <1>2, <1>3, <1>4, <1>5, <1>6 DEF Shift

\* A task's step and the operations left out.
LEMMA TaskModes ==
    ASSUME TypeOK, TypeOK', BindInv, ModeInv, NEW p \in Caller, Base(p), Shift(p)
    PROVE  BindInv' /\ ModeInv'
<1> DEFINE k == caller[p]
           l == caller'[p]
<1>0. k.bind \in BOOLEAN /\ l.bind \in BOOLEAN /\ \A q \in Caller \ {p} : caller'[q] = caller[q]
  BY DEF TypeOK, CallerRecord, Base, Others
<1>1. /\ l.bind => k.bind \/ "bind" \in Operations
      /\ l.pc # "ready" /\ ~l.bind => (k.pc # "ready" /\ ~k.bind) \/ {"resolve", "admitted"} \cap Operations # {}
  BY <1>0 DEF Shift, Begins, Captures, Claims, Lands, Fails, GoesOn, Retries, Picks, Quits, SameUse, Idle
<1>2. BindInv'
  BY <1>0, <1>1 DEF BindInv, Bindless
<1>3. Resolveless => \A q \in Caller : caller'[q].pc # "ready" => caller'[q].bind
  BY <1>0, <1>1 DEF ModeInv, Resolveless
<1>4. \A s \in Slot : /\ slot'[s].retired = slot[s].retired /\ slot'[s].idle = slot[s].idle
                      /\ writer' = writer /\ (watch[s].pc # "off" => watch'[s].pc = watch[s].pc)
  BY DEF Base, WatchRule
<1>5. ASSUME IdleOnly, NEW s \in Slot
      PROVE  /\ slot'[s].retired => slot'[s].idle /\ watch'[s].pc = "ended"
             /\ writer' = s => /\ slot'[s].idle
                               /\ watch'[s].pc \in {"claim_leases", "claim_epoch", "swap", "retire"}
  BY <1>4, <1>5 DEF ModeInv
<1> QED BY <1>2, <1>3, <1>5 DEF ModeInv, Resolveless, IdleOnly

\* A cell in use is not doomed yet: it has no drain past its wait.
LEMMA DrainFacts ==
    ASSUME TypeOK, DrainInv, NEW s \in Slot, NEW x \in CellId
    PROVE  /\ drain[s][SharedCell].pc # "off" <=> slot[s].retired
           /\ Current(s, x) => drain[s][x].pc = "off" /\ ~Evicted(s, x)
<1>0. \A j \in Key : slot[s].rekeyed[j] \in Nat
  BY DEF TypeOK, SlotRecord
<1>1. drain[s][SharedCell].pc # "off" <=> slot[s].retired
  BY Sharing, RecordTypes DEF DrainInv, DrainSound
<1>2. Current(s, x) => ~Evicted(s, x) /\ x # SharedCell
  BY <1>0, Sharing DEF Current, Evicted
<1> QED BY <1>1, <1>2 DEF DrainInv, DrainSound

\* Nobody comes to use a cell or a slot whose drain has stopped waiting.
LEMMA TaskQuit ==
    ASSUME TypeOK, Captured, CellInv, QuitInv, NEW p \in Caller, Base(p), Shift(p)
    PROVE  QuitInv'
<1> SUFFICES ASSUME ~GraceExpires, NEW s \in Slot, NEW x \in CellId, drain'[s][x].pc \in Past
             PROVE  Unused(s, x)' /\ (x = SharedCell => Free(s)')
  BY DEF QuitInv, Past
<1>0. DrainInv
  BY DEF CellInv
<1>1. drain[s][x].pc \in Past /\ drain[s][x].pc # "off"
  BY DEF Base, Past
<1>2. Unused(s, x) /\ (x = SharedCell => Free(s) /\ slot[s].retired) /\ ~Current(s, x)
  BY <1>0, <1>1, DrainFacts DEF QuitInv
<1>3. \A q \in Caller \ {p} : /\ caller'[q] = caller[q]
                              /\ InCell(q)' = InCell(q) /\ Secured(q)' = Secured(q)
  BY DEF Base, Others, InCell, Secured
<1>4. InCell(p)' /\ caller'[p].slot = s => caller'[p].cell # x
  BY <1>2, ShiftUse DEF Unused, Free
<1>5. x = SharedCell /\ Secured(p)' => caller'[p].slot # s
  BY <1>2, ShiftUse DEF Free
<1> QED BY <1>2, <1>3, <1>4, <1>5 DEF Unused, Free

\* Nobody comes to use a backend that was asked to retire, and the resolver that asks one leaves
\* nobody with it.
LEMMA TaskRetired ==
    ASSUME TypeOK, Captured, CellInv, ModeInv, IdleExclusive, RetiredInv, NEW p \in Caller,
           Base(p), Shift(p)
    PROVE  RetiredInv'
<1> SUFFICES ASSUME Orderly, NEW s \in Slot, NEW x \in CellId, cells'[s][x] \in {"refused", "retired"}
             PROVE  Unused(s, x)' /\ (Evicted(s, x)' \/ (slot'[s].retired /\ Free(s)'))
  BY DEF RetiredInv, RetiredSound, Orderly, Resolveless, IdleOnly
<1>0. /\ CallerInv /\ DrainInv
      /\ slot'[s].retired = slot[s].retired /\ slot'[s].rekeyed = slot[s].rekeyed
  BY DEF CellInv, Base
<1>1. Unused(s, x) /\ (Evicted(s, x) \/ (slot[s].retired /\ Free(s)))
  <2>1. CASE cells[s][x] \in {"refused", "retired"}
    BY <2>1 DEF RetiredInv, RetiredSound
  <2>2. CASE cells[s][x] \notin {"refused", "retired"}
    <3>1. slot[s].retired /\ ~caller[p].bind /\ caller[p].pc \in {"await_writer", "retire"}
      BY <1>0, <2>2, ShiftCells DEF CellMove
    <3>2. IdleOnly
      BY <3>1 DEF Orderly, ModeInv
    <3>3. slot[s].idle /\ watch[s].pc = "ended"
      BY <3>1, <3>2 DEF ModeInv
    <3>4. Free(s)
      BY <3>3 DEF IdleExclusive, Free, Granted, Secured
    <3>5. Unused(s, x)
      BY <3>4 DEF Free, Unused, InCell, Secured
    <3> QED BY <3>1, <3>4, <3>5
  <2> QED BY <2>1, <2>2
<1>2. \A q \in Caller \ {p} : /\ caller'[q] = caller[q]
                              /\ InCell(q)' = InCell(q) /\ Secured(q)' = Secured(q)
  BY DEF Base, Others, InCell, Secured
<1>3. Free(s) /\ slot[s].retired => Free(s)'
  BY <1>2, ShiftUse DEF Free
<1>4. Evicted(s, x)' = Evicted(s, x)
  BY <1>0 DEF Evicted
<1>5. InCell(p)' /\ caller'[p].slot = s => caller'[p].cell # x
  <2>1. Current(s, x) => ~Evicted(s, x)
    BY <1>0, DrainFacts
  <2>2. x = SharedCell => ~Evicted(s, x)
    BY Sharing
  <2> QED BY <1>1, <2>1, <2>2, ShiftUse DEF Unused, Free
<1> QED BY <1>0, <1>1, <1>2, <1>3, <1>4, <1>5 DEF Unused

\* A resolver that owes a doomed backend its request to retire goes on owing it, or makes it.
LEMMA OweRule ==
    ASSUME TypeOK, Captured, CellInv, "await_writer" \notin Droppable, NEW p \in Caller, Base(p), Shift(p),
           NEW s \in Slot, NEW x \in CellId, Doomed(s, x), cells'[s][x] = "live", ResolverOwes(p, s, x)
    PROVE  ResolverOwes(p, s, x)'
<1> DEFINE k == caller[p]
<1>0. /\ k.slot = s /\ k.cell = x /\ ~k.bind /\ x = SharedCell /\ k.cell \in CellId
      /\ k.pc \in {"count", "bump", "check_idle", "check_retired", "retire", "await_writer"}
      /\ k.pc \in {"count", "bump", "check_idle", "await_writer"} => k.init
  BY DEF ResolverOwes, CellInv, CallerInv, CallerSound
<1>1. slot[s].retired
  BY <1>0, Sharing DEF Doomed, Evicted
<1>2. CASE GoesOn(p)
  BY <1>0, <1>1, <1>2 DEF GoesOn, SameUse, ResolverOwes
<1>3. CASE Retries(p)
  <2>1. k.pc \in {"await_writer", "retire"} /\ Asks(k.slot, {k.cell})
    BY <1>0, <1>1, <1>3 DEF Retries
  <2>2. cells'[s][x] # "live"
    BY <1>0, <2>1 DEF Asks, Doomed
  <2> QED BY <2>2
<1>4. CASE Begins(p) \/ Captures(p) \/ Claims(p) \/ Lands(p) \/ Fails(p) \/ Picks(p) \/ Quits(p)
  BY <1>0, <1>4 DEF Begins, Captures, Claims, Lands, Fails, Picks, Quits
<1> QED BY <1>2, <1>3, <1>4 DEF Shift

\* A backend that lands in a doomed cell is owed: by its resolver, or by the drain that still
\* waits for the bound use.
LEMMA TaskOrphan ==
    ASSUME TypeOK, Captured, CellInv, BindInv, QuitInv, OrphanInv, NEW p \in Caller, Base(p), Shift(p)
    PROVE  OrphanInv'
<1> SUFFICES ASSUME Tended, NEW s \in Slot, NEW x \in CellId, Doomed(s, x)'
             PROVE  DrainOwes(s, x)' \/ \E q \in Caller : ResolverOwes(q, s, x)'
  BY DEF OrphanInv, OrphanFree, Tended, Bindless
<1>0. /\ CallerInv /\ DrainInv /\ cells'[s][x] = "live" /\ SharedCell \in CellId
      /\ slot'[s].retired = slot[s].retired /\ slot'[s].rekeyed = slot[s].rekeyed
      /\ \A y \in CellId : drain'[s][y].pc = drain[s][y].pc
  BY RecordTypes DEF CellInv, Base, Doomed
<1>1. DrainOwes(s, x)' <=> DrainOwes(s, x)
  BY <1>0 DEF DrainOwes
<1>2. CASE cells[s][x] = "live"
  <2>1. Doomed(s, x)
    BY <1>0, <1>2 DEF Doomed
  <2>2. DrainOwes(s, x) \/ \E q \in Caller : ResolverOwes(q, s, x)
    BY <2>1 DEF OrphanInv, OrphanFree
  <2>3. \A q \in Caller \ {p} : ResolverOwes(q, s, x) => ResolverOwes(q, s, x)'
    BY DEF Base, Others, ResolverOwes
  <2>4. ResolverOwes(p, s, x) => ResolverOwes(p, s, x)'
    BY <1>0, <2>1, OweRule DEF Tended
  <2> QED BY <1>1, <2>2, <2>3, <2>4
<1>3. CASE cells[s][x] # "live"
  <2>1. Lands(p) /\ s = caller[p].slot /\ x = caller[p].cell /\ caller[p].bind \in BOOLEAN
    <3>1. CellMove(p, s, x) /\ caller[p].bind \in BOOLEAN
      BY <1>0, ShiftCells DEF TypeOK, CallerRecord
    <3> QED BY <1>0, <1>3, <3>1 DEF CellMove
  <2>2. CASE ~caller[p].bind
    BY <2>1, <2>2 DEF Lands, ResolverOwes
  <2>3. CASE caller[p].bind
    <3>1. ~GraceExpires
      BY <2>3 DEF BindInv, Tended
    <3>2. InCell(p) /\ Secured(p)
      BY <2>1, <2>3 DEF Lands, InCell, Secured
    <3>3. drain[s][x].pc \notin Past /\ drain[s][SharedCell].pc \notin Past
      BY <1>0, <2>1, <3>1, <3>2 DEF QuitInv, Unused, Free
    <3>4. slot[s].retired \/ Evicted(s, x)
      BY <1>0 DEF Doomed, Evicted
    <3>5. Known(s, x)
      BY <1>0, <2>1 DEF Lands, CallerInv, CallerSound
    <3>6. Evicted(s, x) => drain[s][x].pc # "off"
      BY <1>0 DEF DrainInv, DrainSound
    <3>7. slot[s].retired => drain[s][SharedCell].pc # "off"
      BY <1>0 DEF DrainInv
    <3>8. x = SharedCell \/ Evicted(s, x) \/ Current(s, x)
      <4>1. x[1] \in Key => slot[s].rekeyed[x[1]] \in Nat
        BY DEF TypeOK, SlotRecord
      <4>2. x[2] \in Nat
        BY RegistryAssumption DEF CellId
      <4> QED BY <3>5, <4>1, <4>2 DEF Known, Evicted, Current
    <3>9. DrainOwes(s, x)
      BY <3>3, <3>4, <3>6, <3>7, <3>8, Sharing DEF DrainOwes, Past, Current
    <3> QED BY <1>1, <3>9
  <2> QED BY <2>1, <2>2, <2>3
<1> QED BY <1>2, <1>3

\* A drain stops waiting when the count is zero, and then nobody uses the slot.
LEMMA WorldQuit ==
    ASSUME TypeOK, Captured, CountExact, QuitInv, World
    PROVE  QuitInv'
<1> SUFFICES ASSUME ~GraceExpires, NEW s \in Slot, NEW x \in CellId, drain'[s][x].pc \in Past
             PROVE  Unused(s, x)' /\ (x = SharedCell => Free(s)')
  BY DEF QuitInv, Past
<1>0. UNCHANGED caller
  BY WorldOutside DEF Outside
<1>1. Unused(s, x)' = Unused(s, x) /\ Free(s)' = Free(s)
  BY <1>0 DEF Unused, Free, InCell, Secured
<1>2. slot[s].leases = 0 => Unused(s, x) /\ Free(s)
  BY CountFacts DEF Holders, Leased, Granted, Unused, Free, InCell, Secured
<1>3. drain[s][x].pc \in Past \/ slot[s].leases = 0
  <2>1. CASE Renews
    BY <2>1 DEF Renews
  <2>2. ASSUME NEW t \in Slot, NEW key \in Key, Evicts(t, key) PROVE drain[s][x].pc \in Past
    BY <2>2 DEF Evicts, Past
  <2>3. ASSUME NEW t \in Slot, Retires(t) PROVE drain[s][x].pc \in Past
    BY <2>3 DEF Retires, Past
  <2>4. ASSUME NEW t \in Slot, NEW y \in CellId, Drains(t, y)
        PROVE  drain[s][x].pc \in Past \/ slot[s].leases = 0
    BY <2>4 DEF Drains, Past
  <2> QED BY <2>1, <2>2, <2>3, <2>4 DEF World
<1> QED BY <1>1, <1>2, <1>3 DEF QuitInv

\* A drain asks only what nobody uses to retire.
LEMMA WorldRetired ==
    ASSUME TypeOK, TypeOK', DrainInv, QuitInv, RetiredInv, World
    PROVE  RetiredInv'
<1> SUFFICES ASSUME Orderly, NEW s \in Slot, NEW x \in CellId, cells'[s][x] \in {"refused", "retired"}
             PROVE  Unused(s, x)' /\ (Evicted(s, x)' \/ (slot'[s].retired /\ Free(s)'))
  BY DEF RetiredInv, RetiredSound, Orderly, Resolveless, IdleOnly
<1>0. Outside
  BY WorldOutside
<1>1. Unused(s, x)' = Unused(s, x) /\ Free(s)' = Free(s)
  BY <1>0 DEF Outside, Unused, Free, InCell, Secured
<1>2. Unused(s, x) /\ (Evicted(s, x) \/ (slot[s].retired /\ Free(s)))
  <2>1. CASE cells[s][x] \in {"refused", "retired"}
    BY <2>1 DEF RetiredInv, RetiredSound
  <2>2. CASE cells[s][x] \notin {"refused", "retired"}
    <3>1. PICK t \in Slot, y \in CellId : Drains(t, y)
      BY <2>2 DEF World, Renews, Evicts, Retires
    <3>2. t = s /\ drain[s][y].pc \in {"retire", "retire_keyed"} /\ (y = x \/ (y = SharedCell /\ Current(s, x)))
      BY <2>2, <3>1 DEF Drains, Asks
    <3>3. Unused(s, y) /\ (y = SharedCell => Free(s))
      BY <3>2 DEF QuitInv, Orderly, Past
    <3>4. y = SharedCell => slot[s].retired
      BY <3>2, DrainFacts
    <3>5. y # SharedCell => Evicted(s, y)
      BY <3>2 DEF DrainInv, DrainSound
    <3>6. Free(s) => Unused(s, x)
      BY DEF Free, Unused, InCell, Secured
    <3> QED BY <3>2, <3>3, <3>4, <3>5, <3>6
  <2> QED BY <2>1, <2>2
<1>3. ~Fresh(s)
  <2>1. cells[s][x] # "empty"
    BY <1>0 DEF Outside
  <2>2. s \in Nat /\ used \in Nat
    BY RegistryAssumption DEF TypeOK, Slot
  <2> QED BY <2>1, <2>2 DEF DrainInv, DrainSound, Fresh
<1>4. slot[s].retired => slot'[s].retired
  BY <1>0, <1>3 DEF Outside
<1>5. Evicted(s, x) => Evicted(s, x)'
  <2>1. \A j \in Key : slot[s].rekeyed[j] \in Nat /\ slot'[s].rekeyed[j] \in Nat /\ slot[s].rekeyed[j] <= slot'[s].rekeyed[j]
    BY <1>0, <1>3 DEF Outside, TypeOK, SlotRecord
  <2>2. x[2] \in Nat
    BY RegistryAssumption DEF CellId
  <2> QED BY <2>1, <2>2 DEF Evicted
<1> QED BY <1>1, <1>2, <1>4, <1>5

\* Whoever takes a slot or a cell out of use leaves a drain behind, and a drain ends only after
\* it has asked what it found to retire.
LEMMA WorldOrphan ==
    ASSUME TypeOK, TypeOK', DrainInv, CallerInv, OrphanInv, World
    PROVE  OrphanInv'
<1> SUFFICES ASSUME Tended, NEW s \in Slot, NEW x \in CellId, Doomed(s, x)'
             PROVE  DrainOwes(s, x)' \/ \E q \in Caller : ResolverOwes(q, s, x)'
  BY DEF OrphanInv, OrphanFree, Tended, Bindless
<1>0. /\ SharedCell \in CellId /\ cells'[s][x] = "live" /\ cells[s][x] = "live" /\ UNCHANGED caller
      /\ x[2] \in Nat /\ x = <<x[1], x[2]>>
      /\ \A j \in Key : slot[s].rekeyed[j] \in Nat /\ slot'[s].rekeyed[j] \in Nat
  <2>1. x[2] \in Nat /\ x = <<x[1], x[2]>>
    BY RegistryAssumption DEF CellId
  <2>2. \A j \in Key : slot[s].rekeyed[j] \in Nat /\ slot'[s].rekeyed[j] \in Nat
    BY DEF TypeOK, SlotRecord
  <2> QED BY <2>1, <2>2, RecordTypes, WorldOutside DEF Doomed, Outside
<1>1. Known(s, x) /\ ~Fresh(s)
  <2>1. s \in Nat /\ used \in Nat
    BY RegistryAssumption DEF TypeOK, Slot
  <2> QED BY <1>0, <2>1 DEF DrainInv, DrainSound, Fresh
<1>2. /\ Doomed(s, x) <=> slot[s].retired \/ Evicted(s, x)
      /\ slot'[s].retired \/ Evicted(s, x)'
  BY <1>0 DEF Doomed, Evicted
<1>3. /\ x = SharedCell \/ Evicted(s, x) \/ Current(s, x)
      /\ Current(s, x) => ~Evicted(s, x)
      /\ x = SharedCell => ~Evicted(s, x) /\ ~Current(s, x) /\ ~Evicted(s, x)'
  <2>1. x = SharedCell => x[1] \notin Key
    BY RegistryAssumption DEF SharedCell
  <2> QED BY <1>0, <1>1, <2>1 DEF Known, Evicted, Current
<1>4. \A q \in Caller : ResolverOwes(q, s, x)' <=> ResolverOwes(q, s, x)
  BY <1>0 DEF ResolverOwes
<1>5. Doomed(s, x) => DrainOwes(s, x) \/ \E q \in Caller : ResolverOwes(q, s, x)
  BY DEF OrphanInv, OrphanFree
<1>6. DrainOwes(s, x) <=> \/ drain[s][x].pc \notin {"off", "retire_keyed", "ended"}
                          \/ drain[s][SharedCell].pc \notin {"off", "ended"} /\ Current(s, x)
  BY DEF DrainOwes, Current
<1>7. DrainOwes(s, x)' <=> \/ drain'[s][x].pc \notin {"off", "retire_keyed", "ended"}
                           \/ drain'[s][SharedCell].pc \notin {"off", "ended"} /\ Current(s, x)'
  BY DEF DrainOwes, Current
<1>8. ASSUME Flags(s)
      PROVE  Doomed(s, x) /\ Current(s, x)' = Current(s, x)
  BY <1>2, <1>8 DEF Flags, Evicted, Current
<1>9. CASE Renews
  BY <1>1, <1>4, <1>5, <1>6, <1>7, <1>8, <1>9 DEF Renews
<1>10. ASSUME NEW t \in Slot, NEW key \in Key, Evicts(t, key)
       PROVE  DrainOwes(s, x)' \/ \E q \in Caller : ResolverOwes(q, s, x)'
  <2>1. CASE t # s
    <3>1. Flags(s) /\ \A y \in CellId : drain'[s][y].pc = drain[s][y].pc
      BY <1>10, <2>1 DEF Evicts
    <3> QED BY <1>0, <1>4, <1>5, <1>6, <1>7, <1>8, <3>1
  <2>2. CASE t = s
    <3> DEFINE z == <<key, slot[s].rekeyed[key]>>
    <3>1. CASE x = z
      BY <1>7, <1>10, <2>2, <3>1 DEF Evicts
    <3>2. CASE x # z
      <4>1. Evicted(s, x)' <=> Evicted(s, x)
        BY <1>0, <1>10, <2>2, <3>2 DEF Evicts, Evicted
      <4>2. Evicted(s, x)
        BY <1>2, <1>10, <2>2, <4>1 DEF Evicts
      <4>3. drain'[s][x].pc = drain[s][x].pc
        BY <1>10, <2>2, <3>2 DEF Evicts
      <4> QED BY <1>2, <1>3, <1>4, <1>5, <1>6, <1>7, <4>2, <4>3
    <3> QED BY <3>1, <3>2
  <2> QED BY <2>1, <2>2
<1>11. ASSUME NEW t \in Slot, Retires(t)
       PROVE  DrainOwes(s, x)' \/ \E q \in Caller : ResolverOwes(q, s, x)'
  <2>1. CASE t # s
    <3>1. Flags(s) /\ \A y \in CellId : drain'[s][y].pc = drain[s][y].pc
      BY <1>11, <2>1 DEF Retires
    <3> QED BY <1>0, <1>4, <1>5, <1>6, <1>7, <1>8, <3>1
  <2>2. CASE t = s
    <3>1. /\ drain'[s][SharedCell].pc = "check" /\ (x # SharedCell => drain'[s][x].pc = drain[s][x].pc)
          /\ Current(s, x)' = Current(s, x) /\ Evicted(s, x)' = Evicted(s, x)
      BY <1>0, <1>11, <2>2 DEF Retires, Current, Evicted
    <3>2. CASE Evicted(s, x)
      BY <1>2, <1>3, <1>4, <1>5, <1>6, <1>7, <3>1, <3>2
    <3>3. CASE ~Evicted(s, x)
      BY <1>3, <1>7, <3>1, <3>3
    <3> QED BY <3>2, <3>3
  <2> QED BY <2>1, <2>2
<1>12. ASSUME NEW t \in Slot, NEW y \in CellId, Drains(t, y)
       PROVE  DrainOwes(s, x)' \/ \E q \in Caller : ResolverOwes(q, s, x)'
  <2>1. Flags(s)
    BY <1>12 DEF Drains, Flags
  <2>2. CASE t # s
    <3>1. \A w \in CellId : drain'[s][w] = drain[s][w]
      BY <1>12, <2>2 DEF Drains
    <3> QED BY <1>0, <1>4, <1>5, <1>6, <1>7, <1>8, <2>1, <3>1
  <2>3. CASE t = s
    <3>1. /\ \A w \in CellId : w # y => drain'[s][w] = drain[s][w]
          /\ drain[s][y].pc = "retire" => x # y
          /\ drain[s][y].pc = "retire_keyed" /\ y = SharedCell => ~Current(s, x)
          /\ \/ drain'[s][y].pc \in {"check", "register", "parked", "retire"}
             \/ /\ drain[s][y].pc = "retire"
                /\ drain'[s][y].pc = IF y = SharedCell THEN "retire_keyed" ELSE "ended"
             \/ y = SharedCell /\ drain[s][y].pc = "retire_keyed" /\ drain'[s][y].pc = "ended"
      BY <1>0, <1>12, <2>3 DEF Drains, Asks
    <3> QED BY <1>0, <1>3, <1>4, <1>5, <1>6, <1>7, <1>8, <2>1, <3>1
  <2> QED BY <2>2, <2>3
<1> QED BY <1>9, <1>10, <1>11, <1>12 DEF World

\* Where only idle watchers retire slots, a claim outlives the swap; and nobody but a task
\* starts a use.
LEMMA WriterModes ==
    ASSUME TypeOK, Captured, LockInv, BindInv, ModeInv,
           \/ ApplyReplace \/ ApplyReuse \/ Invalidate \/ MarkRetired
           \/ \E p \in Caller, key \in Key : InvalidateBound(p, key)
    PROVE  BindInv' /\ ModeInv'
<1>0. UNCHANGED caller
  BY DEF ApplyReplace, ApplyReuse, Invalidate, MarkRetired, InvalidateBound
<1>1. BindInv' /\ (Resolveless => \A q \in Caller : caller'[q].pc # "ready" => caller'[q].bind)
  BY <1>0 DEF BindInv, ModeInv, Bindless
<1>2. ASSUME IdleOnly, NEW s \in Slot
      PROVE  /\ slot'[s].retired => slot'[s].idle /\ watch'[s].pc = "ended"
             /\ writer' = s => /\ slot'[s].idle
                               /\ watch'[s].pc \in {"claim_leases", "claim_epoch", "swap", "retire"}
  <2>1. CASE ApplyReuse
    <3>1. mapped \in Slot /\ slot' = [slot EXCEPT ![mapped].version = @ + 1]
      BY <2>1 DEF ApplyReuse, TypeOK
    <3>2. slot'[s].retired = slot[s].retired /\ slot'[s].idle = slot[s].idle
      BY <3>1 DEF TypeOK, SlotRecord
    <3> QED BY <1>2, <2>1, <3>2 DEF ApplyReuse, ModeInv
  <2>2. CASE MarkRetired
    <3>1. writer \in Slot /\ slot' = [slot EXCEPT ![writer].retired = TRUE] /\ writer' = NoSlot /\ s # NoSlot
      BY <2>2, RegistryAssumption DEF MarkRetired, TypeOK, Slot, NoSlot
    <3>2. slot'[s].idle = slot[s].idle /\ (s # writer => slot'[s].retired = slot[s].retired)
      BY <3>1 DEF TypeOK, SlotRecord
    <3>3. watch[writer].pc = "retire" /\ slot[writer].idle
      BY <1>2, <2>2, <3>1 DEF MarkRetired, ModeInv
    <3>4. watch'[writer].pc = "ended" /\ (s # writer => watch'[s] = watch[s])
      BY <2>2, <3>1, <3>3 DEF MarkRetired, TypeOK
    <3> QED BY <1>2, <3>1, <3>2, <3>3, <3>4 DEF ModeInv
  <2>3. ~ApplyReplace /\ ~Invalidate /\ ~\E p \in Caller, key \in Key : InvalidateBound(p, key)
    BY <1>2 DEF IdleOnly, ApplyReplace, Invalidate, InvalidateBound
  <2> QED BY <2>1, <2>2, <2>3
<1> QED BY <1>1, <1>2 DEF ModeInv, Resolveless, IdleOnly

\* The claim of a watcher stays up from its confirmation to the end of its slot.
LEMMA WatchModes ==
    ASSUME TypeOK, Captured, LockInv, BindInv, ModeInv, NEW s \in Slot,
           WatchStep(s) \/ DrainRetireKeyed(s) \/ \E x \in CellId : DrainStep(s, x)
    PROVE  BindInv' /\ ModeInv'
<1>0. UNCHANGED caller
  BY DEF WatchStep, WatchStart, WatchLeases, WatchWake, WatchExpires, WatchLock, ClaimLeases, ClaimEpoch,
         WatchSwap, DrainRetireKeyed, DrainStep, DrainCheck, DrainRegister, DrainWake, DrainRetire
<1>1. BindInv' /\ (Resolveless => \A q \in Caller : caller'[q].pc # "ready" => caller'[q].bind)
  BY <1>0 DEF BindInv, ModeInv, Bindless
<1>2. \A pc : watchGoto(s, pc) => watch'[s].pc = pc /\ \A t \in Slot \ {s} : watch'[t] = watch[t]
  BY DEF watchGoto, TypeOK
<1>3. \A t \in Slot : t # NoSlot /\ t \in Nat /\ used \in Nat
  BY RegistryAssumption DEF Slot, NoSlot, TypeOK
<1>4. ASSUME IdleOnly, NEW t \in Slot
      PROVE  /\ slot'[t].retired => slot'[t].idle /\ watch'[t].pc = "ended"
             /\ writer' = t => /\ slot'[t].idle
                               /\ watch'[t].pc \in {"claim_leases", "claim_epoch", "swap", "retire"}
  <2>0. /\ slot[t].retired => slot[t].idle /\ watch[t].pc = "ended"
        /\ writer = t => /\ slot[t].idle
                         /\ watch[t].pc \in {"claim_leases", "claim_epoch", "swap", "retire"}
    BY <1>4 DEF ModeInv
  <2>1. CASE DrainRetireKeyed(s) \/ \E x \in CellId : DrainStep(s, x)
    BY <2>0, <2>1 DEF DrainRetireKeyed, DrainStep, DrainCheck, DrainRegister, DrainWake, DrainRetire
  <2>2. CASE WatchStart(s) \/ WatchLeases(s) \/ WatchWake(s) \/ WatchExpires(s)
    <3>1. UNCHANGED slot \/ slot' = [slot EXCEPT ![s].stale = FALSE]
      BY <2>2 DEF WatchStart, WatchLeases, WatchWake, WatchExpires
    <3>2. slot'[t].retired = slot[t].retired /\ slot'[t].idle = slot[t].idle
      <4>1. CASE UNCHANGED slot
        BY <4>1
      <4>2. CASE slot' = [slot EXCEPT ![s].stale = FALSE]
        BY <4>2 DEF TypeOK, SlotRecord
      <4> QED BY <3>1, <4>1, <4>2
    <3>3. UNCHANGED writer /\ (t # s => watch'[t] = watch[t])
      BY <1>2, <2>2 DEF WatchStart, WatchLeases, WatchWake, WatchExpires, TypeOK
    <3>4. watch[s].pc \in {"start", "leases", "parked", "clock"}
      BY <2>2 DEF WatchStart, WatchLeases, WatchWake, WatchExpires
    <3> QED BY <2>0, <3>2, <3>3, <3>4
  <2>3. CASE WatchLock(s)
    <3>1. CASE mapped # s \/ slot[s].retired
      BY <1>2, <2>0, <2>3, <3>1 DEF WatchLock
    <3>2. CASE ~(mapped # s \/ slot[s].retired)
      <4>1. slot' = [slot EXCEPT ![s].idle = TRUE] /\ watchGoto(s, "claim_leases") /\ writer' = s
        BY <2>3, <3>2 DEF WatchLock
      <4>2. slot'[t].retired = slot[t].retired /\ slot'[s].idle /\ (t # s => slot'[t].idle = slot[t].idle)
        BY <4>1 DEF TypeOK, SlotRecord
      <4> QED BY <1>2, <2>0, <3>2, <4>1, <4>2
    <3> QED BY <3>1, <3>2
  <2>4. CASE ClaimLeases(s) \/ ClaimEpoch(s)
    <3>1. ~slot[s].retired /\ writer = s
      BY <2>4 DEF ClaimLeases, ClaimEpoch, LockInv
    <3>2. CASE withdraw(s)
      <4>1. slot'[t].retired = slot[t].retired /\ (t # s => slot'[t].idle = slot[t].idle)
        BY <3>2 DEF withdraw, TypeOK, SlotRecord
      <4> QED BY <1>2, <1>3, <2>0, <3>1, <3>2, <4>1 DEF withdraw
    <3>3. CASE ~withdraw(s)
      <4>1. UNCHANGED <<slot, writer>> /\ (watchGoto(s, "claim_epoch") \/ watchGoto(s, "swap"))
        BY <2>4, <3>3 DEF ClaimLeases, ClaimEpoch
      <4> QED BY <1>2, <2>0, <3>1, <4>1
    <3> QED BY <3>2, <3>3
  <2>5. CASE WatchSwap(s)
    <3>1. ~slot[s].retired /\ mapped = s /\ writer = s /\ s <= used /\ s \in Nat
      BY <1>3, <2>5 DEF WatchSwap, LockInv, Captured
    <3>2. slot'[t] = slot[t] \/ (t > used /\ ~slot'[t].retired)
      <4>1. ~NewSlot(slot[s].keyed).retired
        BY DEF NewSlot
      <4> QED BY <2>5, <4>1, PublishFresh DEF WatchSwap
    <3>3. writer' = s /\ watch'[s].pc = "retire" /\ (t # s => watch'[t] = watch[t])
      BY <1>2, <2>5, <3>1 DEF WatchSwap, Publish
    <3> QED BY <1>3, <2>0, <3>1, <3>2, <3>3
  <2> QED BY <2>1, <2>2, <2>3, <2>4, <2>5 DEF WatchStep
<1> QED BY <1>1, <1>4 DEF ModeInv, Resolveless, IdleOnly

-----------------------------------------------------------------------------
(* The second layer *)

\* The inductive invariant of both layers.
Inv == RegistryInv /\ CellInv /\ UseInv

\* A fresh registry satisfies the second layer.
LEMMA InvInit == Init => Inv
<1> SUFFICES ASSUME Init PROVE CellInv /\ UseInv
  BY RegistryInvInit DEF Inv
<1>0. TypeOK /\ Captured
  BY RegistryTypeInit
<1>1. \A p \in Caller : caller[p] = Idle
  BY DEF Init
<1>2. \A s \in Slot, x \in CellId : cells[s][x] = "empty" /\ drain[s][x].pc = "off"
  BY DEF Init
<1>3. \A s \in Slot : /\ ~slot[s].retired /\ watch[s].pc = "off"
                      /\ \A key \in Key : slot[s].rekeyed[key] = 0
  BY DEF Init, NewSlot
<1>4. writer = NoSlot /\ used = 1 /\ \A s \in Slot : s # NoSlot
  BY RegistryAssumption DEF Init, Slot, NoSlot
<1>5. CallerInv
  BY <1>1 DEF CallerInv, CallerSound, OneSpawner, Idle, Late
<1>6. DrainInv
  <2>1. \A x \in CellId : x[2] \in Nat
    BY RegistryAssumption DEF CellId
  <2> QED BY <1>2, <1>3, <2>1 DEF DrainInv, DrainSound, Evicted
<1>7. LockInv
  BY <1>3, <1>4 DEF LockInv, NoSlot
<1>8. BindInv /\ ModeInv
  BY <1>1, <1>3, <1>4 DEF BindInv, ModeInv, Idle
<1>9. QuitInv /\ OrphanInv /\ RetiredInv
  BY <1>2 DEF QuitInv, OrphanInv, RetiredInv, RetiredSound, OrphanFree, Doomed, Past
<1> QED BY <1>5, <1>6, <1>7, <1>8, <1>9 DEF CellInv, UseInv

\* Every step of the registry keeps the second layer.
LEMMA InvStep == Inv /\ [Next]_vars => Inv'
<1> SUFFICES ASSUME Inv, [Next]_vars PROVE Inv'
  OBVIOUS
<1>0. RegistryInv' /\ TypeOK'
  BY RegistryInvStep DEF Inv, RegistryInv
<1>1. /\ TypeOK /\ Captured /\ CountExact /\ IdleExclusive /\ CellInv /\ CallerInv /\ DrainInv /\ LockInv
      /\ BindInv /\ ModeInv /\ QuitInv /\ OrphanInv /\ RetiredInv
  BY DEF Inv, RegistryInv, CellInv, UseInv
<1>2. ASSUME NEW p \in Caller,
             Start(p) \/ ResolveStep(p) \/ ResolveBound(p) \/ Done(p) \/ DropFuture(p)
      PROVE  CellInv' /\ UseInv'
  <2>1. Base(p) /\ Shift(p)
    BY <1>1, <1>2, TaskBase, TaskShift
  <2>2. CellInv'
    BY <1>0, <1>1, <2>1, TaskCells, TaskCalm, CalmDrains, LockTask DEF CellInv
  <2>3. UseInv'
    BY <1>0, <1>1, <2>1, TaskModes, TaskQuit, TaskOrphan, TaskRetired DEF UseInv
  <2> QED BY <2>2, <2>3
<1>3. ASSUME World, LockInv', BindInv', ModeInv'
      PROVE  CellInv' /\ UseInv'
  <2>1. CellInv'
    BY <1>0, <1>1, <1>3, WorldOutside, OutsideCells, WorldDrains DEF CellInv
  <2>2. QuitInv' /\ OrphanInv' /\ RetiredInv'
    BY <1>0, <1>1, <1>3, WorldQuit, WorldOrphan, WorldRetired
  <2> QED BY <1>3, <2>1, <2>2 DEF UseInv
<1>4. CASE \/ ApplyReplace \/ ApplyReuse \/ Invalidate \/ MarkRetired
           \/ \E p \in Caller, key \in Key : InvalidateBound(p, key)
  <2>1. World
    BY <1>1, <1>4, WriterKinds DEF World, LockInv
  <2>2. LockInv' /\ BindInv' /\ ModeInv'
    BY <1>1, <1>4, LockWriter, WriterModes
  <2> QED BY <1>0, <1>3, <2>1, <2>2 DEF Inv
<1>5. ASSUME NEW s \in Slot,
             WatchStep(s) \/ DrainRetireKeyed(s) \/ \E x \in CellId : DrainStep(s, x)
      PROVE  CellInv' /\ UseInv'
  <2>1. World
    BY <1>1, <1>5, TaskKinds DEF World
  <2>2. LockInv' /\ BindInv' /\ ModeInv'
    BY <1>1, <1>5, LockTasks, WatchModes
  <2> QED BY <1>3, <2>1, <2>2
<1>6. CASE UNCHANGED vars
  <2>1. Renews
    <3>1. used \in Nat
      BY <1>1, RegistryAssumption DEF TypeOK, Slot
    <3> QED BY <1>6, <3>1 DEF vars, Renews, Flags
  <2>2. LockInv' /\ BindInv' /\ ModeInv'
    BY <1>1, <1>6 DEF vars, LockInv, BindInv, ModeInv
  <2> QED BY <1>0, <1>3, <2>1, <2>2 DEF World, Inv
<1> QED BY <1>0, <1>2, <1>4, <1>5, <1>6 DEF Next, Inv

\* The registry keeps both layers.
THEOREM RegistryInvariance == Spec => []Inv
  BY InvInit, InvStep, PTL DEF Spec

\* An admitted resolution, however often it was retried, is on the slot of its entry.
THEOREM AdmittedIsExact == Spec => []AdmittedExact
<1>1. Inv => AdmittedExact
  BY DEF Inv, CellInv, CallerInv, CallerSound, AdmittedExact
<1> QED BY <1>1, RegistryInvariance, PTL

\* Where the futures waiting for write_lock are not dropped, and either no drain has a force
\* deadline or there are no bound uses, a backend of a retired slot or an evicted cell that
\* nobody has asked to retire yet always has a drain or a resolver that will ask it.  Whether it
\* then retires or refuses is the backend's answer, and both are in the model.
THEOREM NoOrphans ==
    ASSUME "await_writer" \notin Droppable, ~GraceExpires \/ "bind" \notin Operations
    PROVE  Spec => []OrphanFree
<1>1. Inv => OrphanFree
  BY DEF Inv, UseInv, OrphanInv, Tended, Bindless
<1> QED BY <1>1, RegistryInvariance, PTL

\* Without force deadlines, and with either bound uses only or idle watchers as the only
\* writers, the backend of a use that is still held has not been asked to retire.
THEOREM HeldIsAlive ==
    ASSUME ~GraceExpires,
           \/ {"resolve", "admitted"} \cap Operations = {}
           \/ {"apply", "invalidate", "evict"} \cap Operations = {}
    PROVE  Spec => []HeldAlive
<1>1. Inv => HeldAlive
  <2> SUFFICES ASSUME Inv, NEW p \in Caller, caller[p].pc = "held"
               PROVE  cells[caller[p].slot][caller[p].cell] = "live"
    BY DEF HeldAlive
  <2>1. /\ caller[p].slot \in Slot /\ caller[p].cell \in CellId
        /\ cells[caller[p].slot][caller[p].cell] \in {"live", "refused", "retired"}
    BY DEF Inv, RegistryInv, Captured, TypeOK, CallerRecord, CellInv, CallerInv, CallerSound
  <2>2. RetiredSound(caller[p].slot, caller[p].cell)
    BY <2>1 DEF Inv, UseInv, RetiredInv, Orderly, Resolveless, IdleOnly
  <2> QED BY <2>1, <2>2 DEF RetiredSound, Unused, InCell
<1> QED BY <1>1, RegistryInvariance, PTL

=============================================================================
