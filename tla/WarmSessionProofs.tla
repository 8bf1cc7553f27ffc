------------------------- MODULE WarmSessionProofs --------------------------
(***************************************************************************)
(* Types, tables and claims of WarmSession, for any contexts, callers and  *)
(* bounds.                                                                 *)
(*                                                                         *)
(* Types: TypeOK is inductive by itself; one lemma per group of actions.   *)
(*                                                                         *)
(* Tables: every step leaves tombstones and flights alone (Quiet), inserts *)
(* a handle in a context without a tombstone (Inserts), or swaps a live    *)
(* handle for a tombstone with its flight (Takes); the settlement and the  *)
(* retry of a cleanup are the two others.  Each shape keeps the tables     *)
(* sound.  GovRunning is the strengthening: it tells that a governed       *)
(* handle is live and running, so that no settlement of a claim resurrects *)
(* a handle beside a tombstone.                                            *)
(*                                                                         *)
(* Claims: a call that claimed a handle finds that very handle after its   *)
(* awaits.  Every step is, for the claims, a bystander, takes a claim on a *)
(* handle nobody had claimed, lets a claiming call proceed or end on its   *)
(* own handle, or starts or ends a cancel flight; each keeps ClaimExact.   *)
(***************************************************************************)
EXTENDS WarmSession, TLAPS

(* Types *)

\* The empty records are well typed.
LEMMA EmptyRecords ==
    /\ AnyCtx \in Ctx
    /\ NoFingerprint \in Fingerprint
    /\ NoHandle \in HandleRecord
    /\ NoTomb \in TombRecord
    /\ NoCall \in CallRecord
    /\ NoTurn \in TurnRecord
<1>1. AnyCtx \in Ctx
  BY ConstantsAssumption DEF AnyCtx
<1>2. NoFingerprint \in Fingerprint
  BY ConstantsAssumption DEF NoFingerprint, Fingerprint
<1>3. NoHandle \in HandleRecord
  BY <1>2 DEF NoHandle, HandleRecord, NoOp, NoSeed, SessionState
<1>4. NoTomb \in TombRecord
  BY DEF NoTomb, TombRecord, NoOp
<1>5. NoCall \in CallRecord
  BY <1>1, <1>2 DEF NoCall, CallRecord, NoOp
<1>6. NoTurn \in TurnRecord
  BY <1>1, <1>2 DEF NoTurn, TurnRecord
<1> QED BY <1>1, <1>2, <1>3, <1>4, <1>5, <1>6

\* The manager starts well typed.
LEMMA TypeInit == Init => TypeOK
  BY EmptyRecords DEF Init, TypeOK

\* Firing retained tokens keeps the type of the turn table.
LEMMA FireType ==
    ASSUME NEW t \in [Op -> TurnRecord], NEW S
    PROVE  fire_lingering_turn_abort(t, S) \in [Op -> TurnRecord]
  BY ZenonT(60) DEF fire_lingering_turn_abort, TurnRecord

\* Reserving retained operations keeps the type of the turn table.
LEMMA ReserveType ==
    ASSUME NEW t \in [Op -> TurnRecord], NEW S
    PROVE  reserve_successor(t, S) \in [Op -> TurnRecord]
  BY DEF reserve_successor, TurnRecord

\* Swapping a handle for its tombstone (take_expiry_claim_locked) keeps the types.
LEMMA TakeClaimType ==
    ASSUME TypeOK, NEW c \in Ctx, NEW o \in Nat, NEW claim \in Nat,
           NEW t \in [Op -> TurnRecord], TakeClaim(c, o, claim, t)
    PROVE  /\ handle' \in [Ctx -> HandleRecord]
           /\ tomb' \in [Ctx -> TombRecord]
           /\ retry' \in [Ctx -> BOOLEAN]
           /\ flights' \subseteq FlightRecord
           /\ turn' \in [Op -> TurnRecord]
<1>1. handle[c].gen \in Nat
  BY DEF TypeOK, HandleRecord
<1>2. tomb' \in [Ctx -> TombRecord]
  BY <1>1 DEF TypeOK, TombRecord, TakeClaim
<1>3. flights' \subseteq FlightRecord
  BY <1>1 DEF TypeOK, FlightRecord, TakeClaim
<1>4. turn' \in [Op -> TurnRecord]
  BY FireType DEF TakeClaim
<1> QED BY <1>2, <1>3, <1>4, EmptyRecords DEF TypeOK, TakeClaim

\* Minting a turn on a handle (warm_turn_from_handle) keeps the types.
LEMMA MintTurnType ==
    ASSUME TypeOK, NEW c \in Ctx, NEW h \in HandleRecord,
           NEW t \in [Op -> TurnRecord], MintTurn(c, h, t)
    PROVE  /\ handle' \in [Ctx -> HandleRecord]
           /\ turn' \in [Op -> TurnRecord]
           /\ nextOp' \in Nat \ {0}
<1>1. nextOp \in Op
  BY ConstantsAssumption DEF TypeOK, MintTurn, Op
<1>2. [h EXCEPT !.state = "Running", !.op = nextOp,
                               !.aborts = h.aborts \cup {nextOp},
                               !.seed = NoSeed, !.injects = FALSE] \in HandleRecord
  BY <1>1 DEF HandleRecord, TypeOK, NoSeed, SessionState
<1>3. handle' \in [Ctx -> HandleRecord]
  BY <1>2 DEF MintTurn, TypeOK
<1>4. [NoTurn EXCEPT !.stage = "fresh", !.ctx = c, !.gen = h.gen] \in TurnRecord
  BY EmptyRecords DEF TurnRecord, HandleRecord
<1>5. turn' \in [Op -> TurnRecord]
  BY <1>4 DEF MintTurn
<1> QED BY <1>3, <1>5 DEF MintTurn, TypeOK

\* Claiming a handle for a governed turn keeps the types.
LEMMA TypeGovernedClaim ==
    ASSUME TypeOK, NEW c \in Ctx, NEW h \in HandleRecord, NEW fp \in Fingerprint,
           NEW fresh \in BOOLEAN, GovernedClaim(c, h, fp, fresh)
    PROVE  /\ handle' \in [Ctx -> HandleRecord]
           /\ turn' \in [Op -> TurnRecord]
           /\ nextOp' \in Nat \ {0}
<1>1. nextOp \in Op
  BY ConstantsAssumption DEF TypeOK, GovernedClaim, Op
<1>2. handle' \in [Ctx -> HandleRecord]
  BY <1>1 DEF GovernedClaim, HandleRecord, TypeOK, SessionState
<1>3. [NoTurn EXCEPT !.stage = "claimed", !.ctx = c, !.gen = h.gen, !.id = h.id, !.fp = fp,
                     !.fresh = fresh] \in TurnRecord
  BY EmptyRecords DEF TurnRecord, HandleRecord
<1> QED BY <1>1, <1>2, <1>3 DEF GovernedClaim, TypeOK

\* The first lock hold of checkout, claim, clear and compact keeps the types.
LEMMA TypeCallStart ==
    ASSUME TypeOK, NEW p \in Caller, NEW c \in Ctx,
           \/ \E r \in Request : CheckoutLock1(p, c, r) \/ ClaimLock1(p, c, r)
           \/ \E force \in BOOLEAN : Clear(p, c, force)
           \/ Compact(p, c)
    PROVE  TypeOK'
<1> USE EmptyRecords
<1>0. handle[c] \in HandleRecord
  BY DEF TypeOK
<1>1. ASSUME NEW r \in Request, CheckoutLock1(p, c, r) \/ ClaimLock1(p, c, r)
      PROVE  TypeOK'
  <2>1. r \in Fingerprint
    BY ConstantsAssumption
  <2>2. CASE CheckoutLock1(p, c, r)
    BY <2>1, <2>2, ZenonT(60) DEF CheckoutLock1, TypeOK, CallRecord, tables, live
  <2>3. CASE ClaimLock1(p, c, r)
    BY <2>1, <2>3 DEF ClaimLock1, TypeOK, CallRecord, tables
  <2> QED BY <1>1, <2>2, <2>3
<1>3. ASSUME NEW force \in BOOLEAN, Clear(p, c, force)
      PROVE  TypeOK'
  <2>1. turn' \in [Op -> TurnRecord]
    BY <1>3, FireType DEF Clear, TypeOK
  <2>2. handle' \in [Ctx -> HandleRecord]
    BY <1>0, <1>3 DEF Clear, TypeOK, HandleRecord, SessionState, ClaimedStates
  <2>3. call' \in [Caller -> CallRecord]
    <3> DEFINE nk(pc) == [NoCall EXCEPT !.kind = "clear", !.ctx = c, !.id = handle[c].id,
                                        !.gen = handle[c].gen, !.pc = pc]
    <3>1. \E pc \in {"cancel_old", "release_old"} : call' = [call EXCEPT ![p] = nk(pc)]
      BY <1>3 DEF Clear
    <3>2. \A pc \in {"cancel_old", "release_old"} : nk(pc) \in CallRecord
      BY <1>0 DEF HandleRecord, CallRecord
    <3> QED BY <3>1, <3>2 DEF TypeOK
  <2> QED BY <1>3, <2>1, <2>2, <2>3 DEF Clear, TypeOK
<1>4. CASE Compact(p, c)
  <2>2. handle' \in [Ctx -> HandleRecord]
    BY <1>0, <1>4 DEF Compact, TypeOK, HandleRecord, SessionState, ClaimedStates
  <2>3. call' \in [Caller -> CallRecord]
    BY <1>0, <1>4, ZenonT(60) DEF Compact, TypeOK, HandleRecord, CallRecord
  <2> QED BY <1>4, <2>2, <2>3 DEF Compact, TypeOK
<1> QED BY <1>1, <1>3, <1>4

\* take_expiry_claim_locked with its fresh claim id keeps the types.
LEMMA TypeTakeExpiry ==
    ASSUME TypeOK, NEW c \in Ctx, NEW o \in Nat, NEW t \in [Op -> TurnRecord],
           take_expiry_claim_locked(c, o, t)
    PROVE  /\ handle' \in [Ctx -> HandleRecord]
           /\ tomb' \in [Ctx -> TombRecord]
           /\ retry' \in [Ctx -> BOOLEAN]
           /\ flights' \subseteq FlightRecord
           /\ turn' \in [Op -> TurnRecord]
           /\ nextClaim' \in Nat \ {0}
<1>1. nextClaim \in Nat /\ TakeClaim(c, o, nextClaim, t)
  BY DEF TypeOK, take_expiry_claim_locked
<1> QED BY <1>1, TakeClaimType DEF take_expiry_claim_locked, TypeOK

\* The later lock holds of a call, and dropping it, keep the types.
LEMMA TypeCallStep ==
    ASSUME TypeOK, NEW p \in Caller, CallStep(p) \/ DropCall(p)
    PROVE  TypeOK'
<1> USE EmptyRecords
<1> DEFINE k == call[p]  c == call[p].ctx  h == handle[call[p].ctx]
<1>a. k \in CallRecord /\ c \in Ctx /\ h \in HandleRecord /\ h.aborts \subseteq Op
  BY DEF TypeOK, CallRecord, HandleRecord
<1>b. turn \in [Op -> TurnRecord]
  BY DEF TypeOK
<1>c. ASSUME Return(p) PROVE call' \in [Caller -> CallRecord]
  BY <1>c DEF Return, TypeOK
<1>1. CASE ResolveFails(p)
  BY <1>1, <1>c DEF ResolveFails, TypeOK, tables
<1>2. CASE CheckoutRefused(p)
  BY <1>2, <1>c DEF CheckoutRefused, TypeOK, tables
<1>3. CASE CheckoutExpiresArmed(p)
  <2>1. PICK o \in ArmedOps(h) : take_expiry_claim_locked(c, o, turn)
    BY <1>3 DEF CheckoutExpiresArmed
  <2>2. o \in Nat
    BY <2>1, <1>a DEF ArmedOps, Op
  <2> QED BY <1>3, <1>a, <1>b, <1>c, <2>1, <2>2, TypeTakeExpiry DEF CheckoutExpiresArmed, TypeOK
<1>4. CASE CheckoutReuse(p)
  <2>1. MintTurn(c, h, reserve_successor(turn, h.aborts))
    BY <1>4 DEF CheckoutReuse
  <2>2. reserve_successor(turn, h.aborts) \in [Op -> TurnRecord]
    BY <1>b, ReserveType
  <2> QED BY <1>4, <1>a, <1>c, <2>1, <2>2, MintTurnType DEF CheckoutReuse, TypeOK
<1>5. CASE CheckoutReconcile(p)
  <2>1. turn' \in [Op -> TurnRecord]
    BY <1>5, <1>b, ReserveType DEF CheckoutReconcile
  <2>2. handle' \in [Ctx -> HandleRecord]
    BY <1>5, <1>a DEF CheckoutReconcile, TypeOK, HandleRecord, SessionState, ClaimedStates
  <2>3. call' \in [Caller -> CallRecord]
    BY <1>5, <1>a, ZenonT(60) DEF CheckoutReconcile, TypeOK, HandleRecord, CallRecord
  <2> QED BY <1>5, <2>1, <2>2, <2>3 DEF CheckoutReconcile, TypeOK
<1>6. CASE CheckoutFresh(p)
  <2>2. handle' \in [Ctx -> HandleRecord]
    BY <1>6, <1>a DEF CheckoutFresh, TypeOK, HandleRecord, SessionState, ClaimedStates, CallRecord
  <2>3. call' \in [Caller -> CallRecord]
    BY <1>6, <1>a DEF CheckoutFresh, TypeOK, CallRecord
  <2> QED BY <1>6, <2>2, <2>3 DEF CheckoutFresh, TypeOK
<1>7. ASSUME NEW kind, RemoveAfterRelease(p, kind)
      PROVE TypeOK'
  BY <1>7, <1>c DEF RemoveAfterRelease, TypeOK
<1>8. CASE CheckoutTeardown(p) \/ ClearTeardown(p) \/ CompactTeardown(p)
  BY <1>7, <1>8 DEF CheckoutTeardown, ClearTeardown, CompactTeardown
<1>9. CASE CancelOld(p) \/ ReleasedOld(p)
  BY <1>9, <1>a DEF CancelOld, ReleasedOld, TypeOK, CallRecord, tables
<1>10. CASE ClaimLock2(p)
  <2>1. CASE live(c) \/ tomb[c].state # "None"
    BY <1>10, <2>1, <1>c DEF ClaimLock2, TypeOK
  <2>2. CASE ~(live(c) \/ tomb[c].state # "None")
    <3> DEFINE nh == [NoHandle EXCEPT !.id = nextId, !.fp = k.fp]
    <3>1. GovernedClaim(c, nh, k.fp, TRUE) /\ nextId' = nextId + 1
      BY <1>10, <2>2 DEF ClaimLock2
    <3>2. nh \in HandleRecord /\ k.fp \in Fingerprint
      BY <1>a DEF HandleRecord, CallRecord, TypeOK
    <3>3. handle' \in [Ctx -> HandleRecord] /\ turn' \in [Op -> TurnRecord] /\ nextOp' \in Nat \ {0}
      BY <3>1, <3>2, <1>a, TypeGovernedClaim
    <3> QED BY <1>10, <1>c, <3>1, <3>3 DEF ClaimLock2, TypeOK
  <2> QED BY <2>1, <2>2
<1>11. ASSUME NEW ok \in BOOLEAN, ReconcileSettle(p, ok)
       PROVE  TypeOK'
  <2>1. CASE still_ours(k, "Reconciling") /\ ok /\ ~h.expire
    <3>1. MintTurn(c, [h EXCEPT !.fp = k.fp], turn) /\ Return(p)
      BY <1>11, <2>1 DEF ReconcileSettle
    <3>2. [h EXCEPT !.fp = k.fp] \in HandleRecord
      BY <1>a DEF HandleRecord, CallRecord
    <3> QED BY <1>11, <3>1, <3>2, <1>a, <1>b, <1>c, MintTurnType DEF ReconcileSettle, TypeOK
  <2>2. CASE still_ours(k, "Reconciling") /\ ~(ok /\ ~h.expire)
    <3>1. /\ handle' = [handle EXCEPT ![c].state = "Expiring", ![c].aborts = {}]
          /\ turn' = fire_lingering_turn_abort(turn, h.aborts)
          /\ call' = [call EXCEPT ![p].pc = "teardown", ![p].ok = TRUE]
          /\ UNCHANGED nextOp
      BY <1>11, <2>2 DEF ReconcileSettle
    <3>2. handle' \in [Ctx -> HandleRecord]
      BY <3>1, <1>a DEF TypeOK, HandleRecord, SessionState, ClaimedStates
    <3>3. call' \in [Caller -> CallRecord]
      BY <3>1, <1>a DEF TypeOK, CallRecord
    <3> QED BY <1>11, <3>1, <3>2, <3>3, <1>b, FireType DEF ReconcileSettle, TypeOK
  <2>3. CASE ~still_ours(k, "Reconciling")
    BY <1>11, <2>3, <1>c DEF ReconcileSettle, TypeOK
  <2> QED BY <2>1, <2>2, <2>3
<1>12. ASSUME NEW ok \in BOOLEAN, ConfigureSettle(p, ok)
       PROVE  TypeOK'
  <2> DEFINE ours == still_ours(k, "Configuring") /\ h.op = k.op
  <2>1. CASE ours /\ h.expire
    <3>1. /\ handle' = [handle EXCEPT ![c].state = "Expiring"]
          /\ call' = [call EXCEPT ![p].pc = "teardown", ![p].ok = ok]
          /\ UNCHANGED <<turn, nextOp>>
      BY <1>12, <2>1 DEF ConfigureSettle
    <3>2. handle' \in [Ctx -> HandleRecord]
      BY <3>1, <1>a DEF TypeOK, HandleRecord, SessionState, ClaimedStates
    <3>3. call' \in [Caller -> CallRecord]
      BY <3>1, <1>a DEF TypeOK, CallRecord
    <3> QED BY <1>12, <3>1, <3>2, <3>3 DEF ConfigureSettle, TypeOK
  <2>2. CASE ours /\ ~h.expire /\ ok
    <3>1. MintTurn(c, h, turn) /\ Return(p)
      BY <1>12, <2>2 DEF ConfigureSettle
    <3> QED BY <1>12, <3>1, <1>a, <1>b, <1>c, MintTurnType DEF ConfigureSettle, TypeOK
  <2>3. CASE ours /\ ~h.expire /\ ~ok
    BY <1>12, <2>3, <1>c DEF ConfigureSettle, TypeOK
  <2>4. CASE ~ours
    BY <1>12, <2>4, <1>c DEF ConfigureSettle, TypeOK
  <2> QED BY <2>1, <2>2, <2>3, <2>4
<1>13. ASSUME NEW ok \in BOOLEAN, NEW kind \in {"clear", "compact"}, NEW s,
              RenewSettle(p, ok, kind, s)
       PROVE  TypeOK'
  <2>1. CASE still_ours(k, s) /\ Commits(ok, h)
    <3> DEFINE seed == IF kind = "compact" THEN k.gen ELSE NoSeed
               injects == IF kind = "compact" THEN h.injects ELSE FALSE
               nh == [h EXCEPT !.gen = k.gen, !.op = NoOp, !.aborts = {}, !.state = "Idle",
                               !.seed = seed, !.injects = injects]
    <3>1. handle' = [handle EXCEPT ![c] = nh] /\ Return(p)
      BY <1>13, <2>1 DEF RenewSettle
    <3>2. seed \in Nat /\ injects \in BOOLEAN /\ k.gen \in Nat
      BY <1>a DEF HandleRecord, CallRecord, NoSeed
    <3>3. nh \in HandleRecord
      <4> HIDE DEF seed, injects
      <4> QED BY <1>a, <3>2 DEF HandleRecord, SessionState, NoOp
    <3>4. handle' \in [Ctx -> HandleRecord]
      BY <1>a, <3>1, <3>3 DEF TypeOK
    <3> QED BY <1>13, <3>1, <3>4, <1>c DEF RenewSettle, TypeOK
  <2>2. CASE still_ours(k, s) /\ ~Commits(ok, h)
    BY <1>13, <2>2, <1>a DEF RenewSettle, TypeOK, CallRecord
  <2>3. CASE ~still_ours(k, s)
    BY <1>13, <2>3, <1>c DEF RenewSettle, TypeOK
  <2> QED BY <2>1, <2>2, <2>3
<1>14. ASSUME NEW ok \in BOOLEAN, ClearSettle(p, ok) \/ CompactSettle(p, ok)
       PROVE  TypeOK'
  BY <1>13, <1>14 DEF ClearSettle, CompactSettle
<1>15. ASSUME NEW ok \in BOOLEAN, Summarized(p, ok)
       PROVE  TypeOK'
  <2>1. handle' \in [Ctx -> HandleRecord]
    <3>1. handle' = handle \/ handle' = [handle EXCEPT ![c] = [h EXCEPT !.state = "Expiring"]]
      BY <1>15 DEF Summarized
    <3>2. [h EXCEPT !.state = "Expiring"] \in HandleRecord
      BY <1>a DEF HandleRecord, SessionState, ClaimedStates
    <3> QED BY <3>1, <3>2, <1>a DEF TypeOK
  <2>2. call' \in [Caller -> CallRecord]
    BY <1>15, <1>a, <1>c DEF Summarized, TypeOK, CallRecord
  <2> QED BY <1>15, <2>1, <2>2 DEF Summarized, TypeOK
<1>16. CASE DropCall(p)
  BY <1>16, <1>c DEF DropCall, TypeOK, tables
<1> QED
  BY <1>1, <1>2, <1>3, <1>4, <1>5, <1>6, <1>8, <1>9, <1>10, <1>11, <1>12, <1>14, <1>15, <1>16
     DEF CallStep

\* The operations of one lock hold (release, reap, cancel, inject, ...) keep the types.
LEMMA TypeTableCall ==
    ASSUME TypeOK, NEW c \in Ctx, TableCall(c)
    PROVE  TypeOK'
<1> USE EmptyRecords
<1> DEFINE h == handle[c]
<1>a. h \in HandleRecord /\ h.op \in Nat /\ h.aborts \subseteq Op /\ h.gen \in Nat
  BY DEF TypeOK, HandleRecord
<1>b. turn \in [Op -> TurnRecord]
  BY DEF TypeOK
<1>c. ASSUME NEW o \in Nat, take_expiry_claim_locked(c, o, turn), UNCHANGED <<cancels, call, nextId, nextOp>>
      PROVE  TypeOK'
  BY <1>c, <1>b, TypeTakeExpiry DEF TypeOK
<1>d. ASSUME NEW expire \in BOOLEAN, AbortGoverned(c, expire)
      PROVE  TypeOK'
  <2>1. handle' \in [Ctx -> HandleRecord]
    BY <1>a, <1>d DEF AbortGoverned, TypeOK, HandleRecord
  <2> QED BY <1>b, <1>d, <2>1, FireType DEF AbortGoverned, TypeOK
<1>e. ASSUME DeferExpiry(c)
      PROVE  TypeOK'
  BY <1>a, <1>e DEF DeferExpiry, TypeOK, HandleRecord
<1>1. CASE ExpireArmedIdle(c)
  <2>1. PICK o \in ArmedOps(h) : take_expiry_claim_locked(c, o, turn)
    BY <1>1 DEF ExpireArmedIdle
  <2>2. o \in Nat
    BY <2>1, <1>a DEF ArmedOps, Op
  <2> QED BY <1>1, <1>c, <2>1, <2>2 DEF ExpireArmedIdle
<1>2. CASE CheckoutExisting(c)
  <2>1. MintTurn(c, h, reserve_successor(turn, h.aborts))
    BY <1>2 DEF CheckoutExisting
  <2>2. reserve_successor(turn, h.aborts) \in [Op -> TurnRecord]
    BY <1>b, ReserveType
  <2> QED BY <1>2, <1>a, <2>1, <2>2, MintTurnType DEF CheckoutExisting, TypeOK
<1>3. CASE RetryCleanup(c)
  <2>1. tomb' \in [Ctx -> TombRecord]
    BY <1>3 DEF RetryCleanup, TypeOK, TombRecord
  <2>2. flights' \subseteq FlightRecord
    BY <1>3 DEF RetryCleanup, TypeOK, FlightRecord, TombRecord
  <2> QED BY <1>3, <2>1, <2>2 DEF RetryCleanup, TypeOK
<1>4. CASE ReleaseGoverned(c) \/ CancelGoverned(c) \/ ClearGoverned(c)
  BY <1>4, <1>d DEF ReleaseGoverned, CancelGoverned, ClearGoverned
<1>5. CASE ReleaseDeferred(c) \/ CancelDeferred(c) \/ ClearConfiguring(c)
  BY <1>5, <1>e DEF ReleaseDeferred, CancelDeferred, ClearConfiguring
<1>6. CASE Release(c) \/ Reap(c)
  BY <1>6, <1>a, <1>c DEF Release, Reap
<1>7. CASE Cancel(c)
  <2>1. handle' \in [Ctx -> HandleRecord]
    BY <1>a, <1>7 DEF Cancel, TypeOK, HandleRecord, SessionState, ClaimedStates
  <2>2. cancels' \subseteq CancelRecord
    BY <1>a, <1>7 DEF Cancel, TypeOK, CancelRecord, HandleRecord
  <2> QED BY <1>7, <2>1, <2>2 DEF Cancel, TypeOK
<1>8. CASE Inject(c) \/ Retire(c)
  <2>1. [h EXCEPT !.injects = TRUE] \in HandleRecord /\ [h EXCEPT !.retired = TRUE] \in HandleRecord
    BY <1>a DEF HandleRecord
  <2>2. handle' = [handle EXCEPT ![c] = [h EXCEPT !.injects = TRUE]]
        \/ handle' = [handle EXCEPT ![c] = [h EXCEPT !.retired = TRUE]]
    BY <1>8 DEF Inject, Retire
  <2> QED BY <1>8, <2>1, <2>2 DEF Inject, Retire, TypeOK
<1>9. ASSUME NEW r \in Request \cup {NoFingerprint}, claim_governed_locked(c, r)
      PROVE  TypeOK'
  <2>1. GovernedClaim(c, h, Intended(h.fp, r), FALSE)
    BY <1>9 DEF claim_governed_locked
  <2>2. Intended(h.fp, r) \in Fingerprint
    BY <1>a, ConstantsAssumption DEF Intended, Fingerprint, HandleRecord
  <2> QED BY <1>9, <1>a, <2>1, <2>2, TypeGovernedClaim DEF claim_governed_locked, TypeOK
<1> QED BY <1>1, <1>2, <1>3, <1>4, <1>5, <1>6, <1>7, <1>8, <1>9 DEF TableCall

\* The steps of dispatched turns and governed claims keep the types.
LEMMA TypeTurnStep ==
    ASSUME TypeOK, NEW o \in Op,
           \/ TurnPoll(o) \/ TurnComplete(o) \/ GovernedStep(o)
           \/ \E a \in {"finish", "expire"} : TurnExit(o, a)
    PROVE  TypeOK'
<1> USE EmptyRecords
<1> DEFINE t == turn[o]  c == turn[o].ctx  h == handle[turn[o].ctx]
<1>a. /\ t \in TurnRecord /\ c \in Ctx /\ h \in HandleRecord
      /\ h.op \in Nat /\ h.aborts \subseteq Op /\ h.gen \in Nat
  BY DEF TypeOK, HandleRecord, TurnRecord
<1>b. turn \in [Op -> TurnRecord] /\ o \in Nat
  BY DEF TypeOK, Op
<1>c. done(o) \in [Op -> TurnRecord]
  BY <1>a, <1>b DEF done, TurnRecord
<1>d. ASSUME NEW s \in {"claimed", "admitted", "applying", "settling",
                        "fresh", "prompting", "exited", "done"}
      PROVE stage(o, s) \in [Op -> TurnRecord]
  BY <1>a, <1>b, <1>d DEF stage, TurnRecord
<1>e. ASSUME take_expiry_claim_locked(c, o, done(o)), UNCHANGED <<cancels, call, nextId, nextOp>>
      PROVE  TypeOK'
  BY <1>a, <1>b, <1>c, <1>e, TypeTakeExpiry DEF TypeOK
<1>1. CASE TurnPoll(o)
  BY <1>1, <1>a, <1>b DEF TurnPoll, TypeOK, TurnRecord, tables
<1>2. ASSUME NEW a \in {"finish", "expire"}, TurnExit(o, a)
      PROVE  TypeOK'
  <2>1. turn' \in [Op -> TurnRecord]
    BY <1>2, <1>a, <1>b DEF TurnExit, TurnRecord
  <2> QED BY <1>2, <2>1 DEF TurnExit, TypeOK, tables
<1>3. CASE finish_owned_turn(o)
  <2>1. CASE take_expiry_claim_locked(c, o, done(o))
    BY <1>3, <2>1, <1>e DEF finish_owned_turn
  <2>2. CASE ~take_expiry_claim_locked(c, o, done(o))
    <3>1. \A g \in {"none", "claimed", "ready"}, s \in SessionState \cup {"Absent"}, n \in Nat :
            [h EXCEPT !.gov = g, !.aborts = h.aborts \ {o}, !.state = s, !.op = n] \in HandleRecord
      BY <1>a DEF HandleRecord
    <3>2. handle' \in [Ctx -> HandleRecord]
      <4> DEFINE current == live(c) /\ h.gen = t.gen
                 owner == current /\ h.op = o
                 ready == owner /\ h.gov = "ready"
                 gov == gov_after_finish(h, ready)
                 idle == owner /\ gov = "none" /\ h.state = "Running"
                 s == IF idle THEN "Idle" ELSE h.state
                 n == IF idle THEN NoOp ELSE h.op
                 nh == [h EXCEPT !.gov = gov, !.aborts = h.aborts \ {o}, !.state = s, !.op = n]
      <4>1. handle' = [handle EXCEPT ![c] = IF current THEN nh ELSE h]
        BY <1>3, <2>2 DEF finish_owned_turn
      <4>2. gov \in {"none", "claimed", "ready"}
        BY <1>a DEF gov_after_finish, HandleRecord
      <4>3. s \in SessionState \cup {"Absent"} /\ n \in Nat
        BY <1>a DEF HandleRecord, SessionState, NoOp
      <4>4. nh \in HandleRecord
        BY <3>1, <4>2, <4>3
      <4> QED BY <1>a, <4>1, <4>4 DEF TypeOK
    <3> QED BY <1>3, <2>2, <3>2, <1>c DEF finish_owned_turn, TypeOK
  <2> QED BY <2>1, <2>2
<1>4. CASE begin_expire_current(o)
  <2>1. CASE take_expiry_claim_locked(c, o, done(o))
    BY <1>4, <2>1, <1>e DEF begin_expire_current
  <2>2. CASE ~take_expiry_claim_locked(c, o, done(o))
    <3>1. \E e \in BOOLEAN : handle' = [handle EXCEPT ![c].expire = e]
      BY <1>4, <2>2, <1>a DEF begin_expire_current
    <3>2. handle' \in [Ctx -> HandleRecord]
      BY <3>1, <1>a DEF TypeOK, HandleRecord
    <3>3. turn' \in [Op -> TurnRecord]
      BY <1>4, <2>2, <1>c, FireType DEF begin_expire_current
    <3> QED BY <1>4, <2>2, <3>2, <3>3 DEF begin_expire_current, TypeOK
  <2> QED BY <2>1, <2>2
<1>5. CASE Admit(o) \/ Rollback(o)
  BY <1>5, <1>d DEF Admit, Rollback, TypeOK, tables
<1>6. CASE ApplyLock1(o)
  <2>1. reserve_successor(turn, h.aborts) \in [Op -> TurnRecord]
    BY <1>b, ReserveType
  <2>2. [reserve_successor(turn, h.aborts) EXCEPT ![o].stage = "applying", ![o].applying = TRUE]
           \in [Op -> TurnRecord]
    <3> DEFINE u == reserve_successor(turn, h.aborts)
    <3>1. [u[o] EXCEPT !.stage = "applying", !.applying = TRUE] \in TurnRecord
      BY <2>1 DEF TurnRecord
    <3>2. [u EXCEPT ![o].stage = "applying", ![o].applying = TRUE]
            = [u EXCEPT ![o] = [u[o] EXCEPT !.stage = "applying", !.applying = TRUE]]
      BY <2>1
    <3> QED BY <2>1, <3>1, <3>2
  <2> QED BY <1>6, <1>d, <2>2 DEF ApplyLock1, TypeOK, tables
<1>7. ASSUME NEW ok \in BOOLEAN, ApplyLock2(o, ok)
      PROVE  TypeOK'
  <2>1. handle' \in [Ctx -> HandleRecord]
    <3> DEFINE nh == [h EXCEPT !.fp = t.fp, !.gov = "ready", !.aborts = h.aborts \cup {o},
                               !.seed = NoSeed, !.injects = FALSE]
    <3>1. handle' = [handle EXCEPT ![c] = nh] \/ UNCHANGED handle
      BY <1>7 DEF ApplyLock2
    <3>2. nh \in HandleRecord
      BY <1>a DEF HandleRecord, TurnRecord, NoSeed
    <3> QED BY <1>a, <3>1, <3>2 DEF TypeOK
  <2> QED BY <1>7, <1>d, <2>1 DEF ApplyLock2, TypeOK
<1>8. CASE GovernedSettle(o)
  <2>1. CASE take_expiry_claim_locked(c, o, done(o))
    BY <1>8, <2>1, <1>e DEF GovernedSettle
  <2>2. CASE ~take_expiry_claim_locked(c, o, done(o))
    <3>1. handle' \in [Ctx -> HandleRecord]
      <4> DEFINE nh == [h EXCEPT !.state = "Idle", !.op = NoOp, !.gov = "none"]
      <4>1. nh \in HandleRecord
        BY <1>a DEF HandleRecord, NoOp, SessionState
      <4>2. \E x \in {h, NoHandle, nh} : handle' = [handle EXCEPT ![c] = x]
        BY <1>8, <2>2 DEF GovernedSettle
      <4> QED BY <1>a, <4>1, <4>2 DEF TypeOK
    <3> QED BY <1>8, <2>2, <3>1, <1>c DEF GovernedSettle, TypeOK
  <2> QED BY <2>1, <2>2
<1>9. CASE FirstPoll(o)
  <2>1. \/ \E e \in BOOLEAN : handle' = [handle EXCEPT ![c] = [h EXCEPT !.expire = e]]
        \/ handle' = [handle EXCEPT ![c] = [h EXCEPT !.gov = "none"]]
    BY <1>9, <1>a DEF FirstPoll, HandleRecord
  <2>3. /\ \A e \in BOOLEAN : [h EXCEPT !.expire = e] \in HandleRecord
        /\ [h EXCEPT !.gov = "none"] \in HandleRecord
    BY <1>a DEF HandleRecord
  <2>2. handle' \in [Ctx -> HandleRecord]
    BY <2>1, <1>a, <2>3 DEF TypeOK
  <2> QED BY <1>9, <1>d, <2>2 DEF FirstPoll, TypeOK
<1> QED BY <1>1, <1>2, <1>3, <1>4, <1>5, <1>6, <1>7, <1>8, <1>9 DEF TurnComplete, GovernedStep

\* The settlements of cleanup and cancel flights keep the types.
LEMMA TypeFlightStep ==
    ASSUME TypeOK, FlightStep
    PROVE  TypeOK'
<1> USE EmptyRecords
<1>1. ASSUME NEW f \in flights, NEW ok \in BOOLEAN, CleanupSettle(f, ok)
      PROVE  TypeOK'
  <2>1. f.ctx \in Ctx
    BY DEF TypeOK, FlightRecord
  <2>2. tomb' \in [Ctx -> TombRecord]
    BY <1>1, <2>1 DEF CleanupSettle, TypeOK, TombRecord
  <2>3. retry' \in [Ctx -> BOOLEAN]
    BY <1>1, <2>1 DEF CleanupSettle, TypeOK
  <2> QED BY <1>1, <2>2, <2>3 DEF CleanupSettle, TypeOK
<1>2. ASSUME NEW x \in cancels, NEW ok \in BOOLEAN, CancelSettle(x, ok)
      PROVE  TypeOK'
  <2> DEFINE c == x.ctx  h == handle[x.ctx]
  <2>1. c \in Ctx /\ h \in HandleRecord /\ h.op \in Nat /\ x.claim \in Nat
    BY DEF TypeOK, CancelRecord, HandleRecord
  <2>2. CASE TakeClaim(c, h.op, x.claim, turn)
    BY <1>2, <2>1, <2>2, TakeClaimType DEF CancelSettle, TypeOK
  <2>3. CASE ~TakeClaim(c, h.op, x.claim, turn)
    BY <1>2, <2>1, <2>3, SMTT(40) DEF CancelSettle, TypeOK, HandleRecord, SessionState, NoOp, tables
  <2> QED BY <2>2, <2>3
<1> QED BY <1>1, <1>2 DEF FlightStep

\* Every step of the manager keeps the types.
LEMMA TypeStep ==
    ASSUME TypeOK, [Next]_vars
    PROVE  TypeOK'
<1>1. CASE UNCHANGED vars
  BY <1>1 DEF vars, TypeOK
<1>2. ASSUME NEW p \in Caller, NEW c \in Ctx,
             \/ \E r \in Request : CheckoutLock1(p, c, r) \/ ClaimLock1(p, c, r)
             \/ \E force \in BOOLEAN : Clear(p, c, force)
             \/ Compact(p, c)
      PROVE  TypeOK'
  BY <1>2, TypeCallStart
<1>3. ASSUME NEW p \in Caller, CallStep(p) \/ DropCall(p)
      PROVE  TypeOK'
  BY <1>3, TypeCallStep
<1>4. ASSUME NEW c \in Ctx, TableCall(c)
      PROVE  TypeOK'
  BY <1>4, TypeTableCall
<1>5. ASSUME NEW o \in Op,
             \/ TurnPoll(o) \/ TurnComplete(o) \/ GovernedStep(o)
             \/ \E a \in {"finish", "expire"} : TurnExit(o, a)
      PROVE  TypeOK'
  BY <1>5, TypeTurnStep
<1> QED BY <1>1, <1>2, <1>3, <1>4, <1>5, TypeFlightStep DEF Next

\* Every reachable state has the types the Rust declarations give it: Spec => []TypeOK.
THEOREM TypeCorrect == Spec => []TypeOK
<1>1. ASSUME TypeOK, [Next]_vars PROVE TypeOK'
  BY <1>1, TypeStep
<1> QED
  BY <1>1, TypeInit, PTL DEF Spec

-----------------------------------------------------------------------------
(* Tables *)

\* A handle with a governed turn is running.
GovRunning == \A c \in Ctx : handle[c].gov # "none" => handle[c].state = "Running"

\* No tombstone, retry capability or flight changes and no handle appears.
Quiet == /\ UNCHANGED <<tomb, retry, flights>>
         /\ \A c \in Ctx : live(c)' => live(c)

\* A handle appears, at most, in a context that has no tombstone.
Inserts(c) == /\ tomb[c].state = "None"
              /\ UNCHANGED <<tomb, retry, flights>>
              /\ \A d \in Ctx \ {c} : live(d)' => live(d)

\* The handle of c becomes a tombstone with its cleanup flight.
Takes(c) ==
    /\ live(c)
    /\ handle' = [handle EXCEPT ![c] = NoHandle]
    /\ \E o \in Nat, claim \in Nat :
         /\ tomb' = [tomb EXCEPT ![c] = [state |-> "Expiring", gen |-> handle[c].gen,
                                         op |-> o, claim |-> claim]]
         /\ flights' = flights \cup {[ctx |-> c, gen |-> handle[c].gen, op |-> o,
                                      claim |-> claim]}
    /\ UNCHANGED retry

\* The steps that do not settle or retry a cleanup.
Shape ==
    \/ Quiet
    \/ \E c \in Ctx : Inserts(c) \/ Takes(c)

\* Minting a turn on a live handle touches no tombstone.
LEMMA MintShape ==
    ASSUME TypeOK, GovRunning, NEW c \in Ctx, NEW h \in HandleRecord, NEW t,
           h.gov = handle[c].gov, live(c), MintTurn(c, h, t), UNCHANGED <<tomb, retry, flights>>
    PROVE  Quiet /\ GovRunning'
  BY DEF MintTurn, Quiet, live, TypeOK, HandleRecord, GovRunning

\* take_expiry_claim_locked swaps a live handle for a tombstone and its flight.
LEMMA TakeShape ==
    ASSUME TypeOK, GovRunning, NEW c \in Ctx, NEW o \in Nat, NEW t, live(c),
           take_expiry_claim_locked(c, o, t)
    PROVE  Takes(c) /\ GovRunning'
<1>1. Takes(c)
  BY DEF take_expiry_claim_locked, TakeClaim, Takes, TypeOK
<1>2. GovRunning'
  BY <1>1 DEF Takes, GovRunning, TypeOK, NoHandle
<1> QED BY <1>1, <1>2

\* The first lock hold of a call has one of the shapes.
LEMMA ShapeCallStart ==
    ASSUME TypeOK, GovRunning, NEW p \in Caller, NEW c \in Ctx,
           \/ \E r \in Request : CheckoutLock1(p, c, r) \/ ClaimLock1(p, c, r)
           \/ \E force \in BOOLEAN : Clear(p, c, force)
           \/ Compact(p, c)
    PROVE  Shape /\ GovRunning'
<1>1. ASSUME NEW r \in Request, CheckoutLock1(p, c, r) \/ ClaimLock1(p, c, r)
      PROVE  Quiet /\ GovRunning'
  BY <1>1 DEF CheckoutLock1, ClaimLock1, Quiet, GovRunning, live, tables
<1>2. ASSUME NEW force \in BOOLEAN, Clear(p, c, force)
      PROVE  Quiet /\ GovRunning'
  <2>1. /\ handle'[c].gov = "none" /\ live(c)
        /\ \A d \in Ctx \ {c} : handle'[d] = handle[d]
    BY <1>2 DEF Clear, live, TypeOK, HandleRecord
  <2> QED BY <1>2, <2>1 DEF Clear, Quiet, GovRunning, live
<1>3. CASE Compact(p, c)
  BY <1>3 DEF Compact, Compactable, Quiet, GovRunning, live, TypeOK, HandleRecord, Shape
<1> QED BY <1>1, <1>2, <1>3 DEF Shape

\* The later lock holds of a call have one of the shapes: a fresh handle is only inserted
\* where lock #2 saw no tombstone, and a settlement never resurrects a handle.
LEMMA ShapeCallStep ==
    ASSUME TypeOK, GovRunning, NEW p \in Caller, CallStep(p) \/ DropCall(p)
    PROVE  Shape /\ GovRunning'
<1> DEFINE k == call[p]  c == call[p].ctx  h == handle[call[p].ctx]
<1>a. k \in CallRecord /\ c \in Ctx /\ h \in HandleRecord /\ h.aborts \subseteq Op
  BY DEF TypeOK, CallRecord, HandleRecord
<1>1. CASE ResolveFails(p) \/ CheckoutRefused(p) \/ CancelOld(p) \/ ReleasedOld(p) \/ DropCall(p)
  BY <1>1 DEF ResolveFails, CheckoutRefused, CancelOld, ReleasedOld, DropCall, tables,
              Shape, Quiet, GovRunning, live
<1>2. CASE CheckoutExpiresArmed(p)
  <2>1. PICK o \in ArmedOps(h) : take_expiry_claim_locked(c, o, turn)
    BY <1>2 DEF CheckoutExpiresArmed
  <2>2. o \in Nat
    BY <2>1, <1>a DEF ArmedOps, Op
  <2>3. live(c)
    BY <1>2 DEF CheckoutExpiresArmed
  <2> QED BY <1>a, <2>1, <2>2, <2>3, TakeShape DEF Shape
<1>3. CASE CheckoutReuse(p)
  BY <1>3, <1>a, MintShape DEF CheckoutReuse, Shape
<1>4. CASE CheckoutReconcile(p)
  BY <1>4, <1>a, ZenonT(60) DEF CheckoutReconcile, Lock2Refuses, Shape, Quiet, GovRunning, live, TypeOK, HandleRecord
<1>5. CASE CheckoutFresh(p)
  <2>1. Inserts(c)
    BY <1>5, <1>a DEF CheckoutFresh, Lock2Refuses, Inserts, live, TypeOK
  <2>2. GovRunning'
    BY <1>5, <1>a DEF CheckoutFresh, GovRunning, TypeOK, NoHandle
  <2> QED BY <1>a, <2>1, <2>2 DEF Shape
<1>6. ASSUME NEW kind, RemoveAfterRelease(p, kind)
      PROVE  Shape /\ GovRunning'
  BY <1>6, <1>a DEF RemoveAfterRelease, Shape, Quiet, GovRunning, live, NoHandle, TypeOK
<1>7. CASE CheckoutTeardown(p) \/ ClearTeardown(p) \/ CompactTeardown(p)
  BY <1>6, <1>7 DEF CheckoutTeardown, ClearTeardown, CompactTeardown
<1>8. CASE ClaimLock2(p)
  <2>1. CASE live(c) \/ tomb[c].state # "None"
    BY <1>8, <2>1 DEF ClaimLock2, Shape, Quiet, GovRunning, live
  <2>2. CASE ~(live(c) \/ tomb[c].state # "None")
    <3> DEFINE nh == [NoHandle EXCEPT !.id = nextId, !.fp = k.fp]
    <3>1. GovernedClaim(c, nh, k.fp, TRUE)
      BY <1>8, <2>2 DEF ClaimLock2
    <3>2. Inserts(c)
      BY <1>8, <1>a, <2>2, <3>1 DEF ClaimLock2, GovernedClaim, Inserts, live, TypeOK
    <3>3. GovRunning'
      BY <1>a, <3>1 DEF GovernedClaim, GovRunning, TypeOK, NoHandle
    <3> QED BY <1>a, <3>2, <3>3 DEF Shape
  <2> QED BY <2>1, <2>2
<1>9. ASSUME NEW ok \in BOOLEAN, ReconcileSettle(p, ok)
       PROVE  Quiet /\ GovRunning'
  <2>1. CASE still_ours(k, "Reconciling") /\ ok /\ ~h.expire
    <3>1. MintTurn(c, [h EXCEPT !.fp = k.fp], turn) /\ UNCHANGED <<tomb, retry, flights>>
      BY <1>9, <2>1 DEF ReconcileSettle
    <3>2. [h EXCEPT !.fp = k.fp] \in HandleRecord /\ [h EXCEPT !.fp = k.fp].gov = h.gov /\ live(c)
      BY <1>a, <2>1 DEF HandleRecord, CallRecord, live, still_ours
    <3> QED BY <3>1, <3>2, <1>a, MintShape
  <2>2. CASE still_ours(k, "Reconciling") /\ ~(ok /\ ~h.expire)
    <3>1. /\ handle' = [handle EXCEPT ![c].state = "Expiring", ![c].aborts = {}]
          /\ UNCHANGED <<tomb, retry, flights>>
      BY <1>9, <2>2 DEF ReconcileSettle
    <3> QED BY <3>1, <2>2, <1>a DEF TypeOK, HandleRecord, Quiet, GovRunning, live, still_ours
  <2>3. CASE ~still_ours(k, "Reconciling")
    BY <1>9, <2>3 DEF ReconcileSettle, Quiet, GovRunning, live
  <2> QED BY <2>1, <2>2, <2>3
<1>10. ASSUME NEW ok \in BOOLEAN, ConfigureSettle(p, ok)
       PROVE  Quiet /\ GovRunning'
  <2> DEFINE ours == still_ours(k, "Configuring") /\ h.op = k.op
  <2>1. CASE ours /\ h.expire
    <3>1. handle' = [handle EXCEPT ![c].state = "Expiring"] /\ UNCHANGED <<tomb, retry, flights>>
      BY <1>10, <2>1 DEF ConfigureSettle
    <3> QED BY <3>1, <2>1, <1>a DEF TypeOK, HandleRecord, Quiet, GovRunning, live, still_ours
  <2>2. CASE ours /\ ~h.expire /\ ok
    <3>1. MintTurn(c, h, turn) /\ UNCHANGED <<tomb, retry, flights>>
      BY <1>10, <2>2 DEF ConfigureSettle
    <3>2. live(c)
      BY <2>2 DEF still_ours, live
    <3> QED BY <3>1, <3>2, <1>a, MintShape
  <2>3. CASE ours /\ ~h.expire /\ ~ok
    BY <1>10, <2>3, <1>a DEF ConfigureSettle, TypeOK, NoHandle, Quiet, GovRunning, live
  <2>4. CASE ~ours
    BY <1>10, <2>4 DEF ConfigureSettle, Quiet, GovRunning, live
  <2> QED BY <2>1, <2>2, <2>3, <2>4
<1>11. ASSUME NEW ok \in BOOLEAN, NEW kind \in {"clear", "compact"},
              NEW s \in {"Resetting", "Compacting"}, RenewSettle(p, ok, kind, s)
       PROVE  Quiet /\ GovRunning'
  <2>1. CASE still_ours(k, s) /\ Commits(ok, h)
    <3> DEFINE seed == IF kind = "compact" THEN k.gen ELSE NoSeed
               injects == IF kind = "compact" THEN h.injects ELSE FALSE
               nh == [h EXCEPT !.gen = k.gen, !.op = NoOp, !.aborts = {}, !.state = "Idle",
                               !.seed = seed, !.injects = injects]
    <3>1. handle' = [handle EXCEPT ![c] = nh] /\ UNCHANGED <<tomb, retry, flights>>
      BY <1>11, <2>1 DEF RenewSettle
    <3>2. live(c) /\ h.gov = "none"
      BY <2>1, <1>a DEF still_ours, live, GovRunning
    <3>3. nh.gov = h.gov
      <4> HIDE DEF seed, injects
      <4> QED BY <1>a DEF HandleRecord
    <3> HIDE DEF nh
    <3> QED BY <1>a, <3>1, <3>2, <3>3 DEF Quiet, GovRunning, live, TypeOK
  <2>2. CASE ~(still_ours(k, s) /\ Commits(ok, h))
    BY <1>11, <2>2 DEF RenewSettle, Quiet, GovRunning, live
  <2> QED BY <2>1, <2>2
<1>12. ASSUME NEW ok \in BOOLEAN, ClearSettle(p, ok) \/ CompactSettle(p, ok)
       PROVE  Quiet /\ GovRunning'
  BY <1>11, <1>12 DEF ClearSettle, CompactSettle
<1>13. ASSUME NEW ok \in BOOLEAN, Summarized(p, ok)
       PROVE  Quiet /\ GovRunning'
  <2>1. CASE UNCHANGED handle
    BY <1>13, <2>1 DEF Summarized, Quiet, GovRunning, live
  <2>2. CASE ~UNCHANGED handle
    <3>1. h.state = "Compacting" /\ handle' = [handle EXCEPT ![c].state = "Expiring"]
      BY <1>13, <2>2 DEF Summarized, still_ours
    <3> QED BY <1>13, <3>1, <1>a DEF Summarized, TypeOK, HandleRecord, Quiet, GovRunning, live
  <2> QED BY <2>1, <2>2
<1> QED
  BY <1>1, <1>2, <1>3, <1>4, <1>5, <1>7, <1>8, <1>9, <1>10, <1>12, <1>13
     DEF CallStep, Shape

\* The completion guard and the governed claims have one of the shapes.
LEMMA ShapeTurnStep ==
    ASSUME TypeOK, GovRunning, NEW o \in Op,
           \/ TurnPoll(o) \/ TurnComplete(o) \/ GovernedStep(o)
           \/ \E a \in {"finish", "expire"} : TurnExit(o, a)
    PROVE  Shape /\ GovRunning'
<1> DEFINE t == turn[o]  c == turn[o].ctx  h == handle[turn[o].ctx]
<1>a. t \in TurnRecord /\ c \in Ctx /\ h \in HandleRecord /\ o \in Nat
  <2>1. t \in TurnRecord /\ c \in Ctx /\ h \in HandleRecord
    BY DEF TypeOK, HandleRecord, TurnRecord
  <2>2. o \in Nat
    BY DEF Op
  <2> QED BY <2>1, <2>2
<1>b. ASSUME UNCHANGED <<handle, tomb, retry, flights>>
      PROVE  Shape /\ GovRunning'
  BY <1>b DEF Shape, Quiet, GovRunning, live
<1>c. ASSUME live(c), take_expiry_claim_locked(c, o, done(o))
      PROVE  Shape /\ GovRunning'
  BY <1>a, <1>c, TakeShape DEF Shape
<1>1. CASE TurnPoll(o) \/ Admit(o) \/ Rollback(o) \/ ApplyLock1(o)
  BY <1>1, <1>b DEF TurnPoll, Admit, Rollback, ApplyLock1, tables
<1>2. ASSUME NEW a \in {"finish", "expire"}, TurnExit(o, a)
      PROVE  Shape /\ GovRunning'
  BY <1>2, <1>b DEF TurnExit, tables
<1>3. CASE finish_owned_turn(o)
  <2> DEFINE current == live(c) /\ h.gen = t.gen
             owner == current /\ h.op = o
             ready == owner /\ h.gov = "ready"
             gov == gov_after_finish(h, ready)
             idle == owner /\ gov = "none" /\ h.state = "Running"
             s == IF idle THEN "Idle" ELSE h.state
             n == IF idle THEN NoOp ELSE h.op
             nh == [h EXCEPT !.gov = gov, !.aborts = h.aborts \ {o}, !.state = s, !.op = n]
  <2>1. CASE ready /\ h.expire
    BY <1>3, <2>1, <1>c DEF finish_owned_turn
  <2>2. CASE ~(ready /\ h.expire)
    <3>1. /\ handle' = [handle EXCEPT ![c] = IF current THEN nh ELSE h]
          /\ UNCHANGED <<tomb, retry, flights>>
      BY <1>3, <2>2 DEF finish_owned_turn
    <3>2. current => live(c) /\ (gov # "none" => s = "Running")
      BY <1>a DEF gov_after_finish, GovRunning
    <3>3. nh.gov = gov /\ nh.state = s
      <4> HIDE DEF gov, s, n
      <4> QED BY <1>a DEF HandleRecord
    <3> HIDE DEF nh, gov, s, current
    <3> QED BY <1>a, <3>1, <3>2, <3>3 DEF Shape, Quiet, GovRunning, live, TypeOK
  <2> QED BY <2>1, <2>2
<1>4. ASSUME NEW e, handle' = [handle EXCEPT ![c].expire = e], UNCHANGED <<tomb, retry, flights>>
      PROVE  Shape /\ GovRunning'
  BY <1>a, <1>4 DEF Shape, Quiet, GovRunning, live, TypeOK, HandleRecord
<1>5. CASE begin_expire_current(o)
  <2>1. CASE live(c) /\ take_expiry_claim_locked(c, o, done(o))
    BY <2>1, <1>c
  <2>2. CASE ~(live(c) /\ take_expiry_claim_locked(c, o, done(o)))
    <3>1. \E e \in BOOLEAN : handle' = [handle EXCEPT ![c].expire = e] /\ UNCHANGED <<tomb, retry, flights>>
      BY <1>5, <2>2, <1>a DEF begin_expire_current
    <3> QED BY <3>1, <1>4
  <2> QED BY <2>1, <2>2
<1>6. ASSUME NEW ok \in BOOLEAN, ApplyLock2(o, ok)
      PROVE  Shape /\ GovRunning'
  <2>1. CASE ok /\ Applicable(o)
    <3> DEFINE nh == [h EXCEPT !.fp = t.fp, !.gov = "ready", !.aborts = h.aborts \cup {o},
                               !.seed = NoSeed, !.injects = FALSE]
    <3>1. handle' = [handle EXCEPT ![c] = nh] /\ UNCHANGED <<tomb, retry, flights>>
      BY <1>6, <2>1 DEF ApplyLock2
    <3>2. h.state = "Running"
      BY <1>a, <2>1 DEF Applicable, owns, GovRunning
    <3>3. nh.state = h.state
      BY <1>a DEF HandleRecord
    <3> HIDE DEF nh
    <3> QED BY <1>a, <3>1, <3>2, <3>3 DEF Shape, Quiet, GovRunning, live, TypeOK
  <2>2. CASE ~(ok /\ Applicable(o))
    BY <1>6, <2>2, <1>b DEF ApplyLock2
  <2> QED BY <2>1, <2>2
<1>7. CASE GovernedSettle(o)
  <2> DEFINE nh == [h EXCEPT !.state = "Idle", !.op = NoOp, !.gov = "none"]
  <2>1. CASE ~owns(o)
    BY <1>7, <2>1, <1>a, <1>b DEF GovernedSettle, TypeOK
  <2>2. CASE owns(o)
    <3>1. live(c)
      BY <2>2, <1>a DEF owns, GovRunning, live
    <3>2. CASE take_expiry_claim_locked(c, o, done(o))
      BY <3>1, <3>2, <1>c
    <3>3. CASE ~take_expiry_claim_locked(c, o, done(o))
      <4>1. nh.gov = "none"
        BY <1>a DEF HandleRecord
      <4>2. /\ \E x \in {NoHandle, nh} : handle' = [handle EXCEPT ![c] = x]
            /\ UNCHANGED <<tomb, retry, flights>>
        BY <1>7, <2>2, <3>3 DEF GovernedSettle
      <4> HIDE DEF nh
      <4> QED BY <1>a, <3>1, <4>1, <4>2 DEF Shape, Quiet, GovRunning, live, TypeOK, NoHandle
    <3> QED BY <3>2, <3>3
  <2> QED BY <2>1, <2>2
<1>8. CASE FirstPoll(o)
  <2>1. /\ \/ \E e \in BOOLEAN : handle' = [handle EXCEPT ![c].expire = e]
           \/ owns(o) /\ handle' = [handle EXCEPT ![c].gov = "none"]
        /\ UNCHANGED <<tomb, retry, flights>>
    BY <1>8, <1>a DEF FirstPoll, HandleRecord
  <2>2. CASE owns(o) /\ handle' = [handle EXCEPT ![c].gov = "none"]
    BY <2>1, <2>2, <1>a DEF Shape, Quiet, GovRunning, live, TypeOK, HandleRecord
  <2> QED BY <1>4, <2>1, <2>2
<1> QED BY <1>1, <1>2, <1>3, <1>5, <1>6, <1>7, <1>8 DEF TurnComplete, GovernedStep

\* The operations of one lock hold, a cleanup retry excepted, have one of the shapes.
LEMMA ShapeTableCall ==
    ASSUME TypeOK, GovRunning, NEW c \in Ctx, TableCall(c), ~RetryCleanup(c)
    PROVE  Shape /\ GovRunning'
<1> DEFINE h == handle[c]
<1>a. h \in HandleRecord /\ h.op \in Nat /\ h.aborts \subseteq Op
  BY DEF TypeOK, HandleRecord
<1>b. ASSUME NEW o \in Nat, live(c), take_expiry_claim_locked(c, o, turn)
      PROVE  Shape /\ GovRunning'
  BY <1>b, TakeShape DEF Shape
<1>c. ASSUME NEW e, handle' = [handle EXCEPT ![c].expire = e], UNCHANGED <<tomb, retry, flights>>
      PROVE  Shape /\ GovRunning'
  BY <1>a, <1>c DEF Shape, Quiet, GovRunning, live, TypeOK, HandleRecord
<1>1. CASE ExpireArmedIdle(c)
  <2>1. PICK o \in ArmedOps(h) : take_expiry_claim_locked(c, o, turn)
    BY <1>1 DEF ExpireArmedIdle
  <2>2. o \in Nat /\ live(c)
    BY <1>1, <2>1, <1>a DEF ArmedOps, Op, ExpireArmedIdle, live
  <2> QED BY <1>b, <2>1, <2>2
<1>2. CASE CheckoutExisting(c)
  BY <1>2, <1>a, MintShape DEF CheckoutExisting, Shape, live
<1>3. CASE \/ ReleaseGoverned(c) \/ CancelGoverned(c) \/ ClearGoverned(c)
           \/ ReleaseDeferred(c) \/ CancelDeferred(c) \/ ClearConfiguring(c)
  <2>1. /\ \E e : handle' = [handle EXCEPT ![c].expire = e]
        /\ UNCHANGED <<tomb, retry, flights>>
    BY <1>3 DEF ReleaseGoverned, CancelGoverned, ClearGoverned, ReleaseDeferred, CancelDeferred,
                ClearConfiguring, AbortGoverned, DeferExpiry
  <2> QED BY <1>c, <2>1
<1>4. CASE Release(c) \/ Reap(c)
  BY <1>4, <1>a, <1>b DEF Release, Reap, live
<1>5. CASE Cancel(c)
  BY <1>5, <1>a DEF Cancel, Shape, Quiet, GovRunning, live, TypeOK, HandleRecord
<1>6. CASE Inject(c) \/ Retire(c)
  <2>1. CASE Inject(c)
    BY <2>1, <1>a DEF Inject, Shape, Quiet, GovRunning, live, TypeOK, HandleRecord
  <2>2. CASE Retire(c)
    BY <2>2, <1>a DEF Retire, Shape, Quiet, GovRunning, live, TypeOK, HandleRecord
  <2> QED BY <1>6, <2>1, <2>2
<1>7. ASSUME NEW r \in Request \cup {NoFingerprint}, claim_governed_locked(c, r)
      PROVE  Shape /\ GovRunning'
  <2>1. /\ GovernedClaim(c, h, Intended(h.fp, r), FALSE) /\ UNCHANGED <<tomb, retry, flights>>
        /\ live(c)
    BY <1>7 DEF claim_governed_locked, live
  <2> QED BY <1>a, <2>1 DEF GovernedClaim, Shape, Quiet, GovRunning, live, TypeOK, HandleRecord
<1> QED BY <1>1, <1>2, <1>3, <1>4, <1>5, <1>6, <1>7 DEF TableCall

\* The settlement of a cancel flight has one of the shapes.
LEMMA ShapeCancelSettle ==
    ASSUME TypeOK, GovRunning, NEW x \in cancels, NEW ok \in BOOLEAN, CancelSettle(x, ok)
    PROVE  Shape /\ GovRunning'
<1> DEFINE c == x.ctx  h == handle[x.ctx]
<1>1. c \in Ctx /\ h \in HandleRecord /\ h.op \in Nat /\ x.claim \in Nat
  BY DEF TypeOK, CancelRecord, HandleRecord
<1>2. CASE TakeClaim(c, h.op, x.claim, turn) /\ live(c)
  <2>1. Takes(c)
    BY <1>1, <1>2 DEF TakeClaim, Takes
  <2> QED BY <1>1, <2>1 DEF Takes, Shape, GovRunning, TypeOK, NoHandle
<1>3. CASE ~(TakeClaim(c, h.op, x.claim, turn) /\ live(c))
  <2>1. /\ \/ UNCHANGED handle
           \/ /\ h.state = "Cancelling"
              /\ handle' = [handle EXCEPT ![c].state = "Idle", ![c].op = NoOp]
        /\ UNCHANGED <<tomb, retry, flights>>
    BY <1>3 DEF CancelSettle, tables, live
  <2> QED BY <1>1, <2>1, SMTT(40) DEF Shape, Quiet, GovRunning, live, TypeOK, HandleRecord
<1> QED BY <1>2, <1>3

\* The inductive invariant.
TableInv == TypeOK /\ GovRunning /\ TableExclusive /\ TombstoneOwned

\* A step that touches no tombstone and adds no handle keeps the tables sound.
LEMMA TableQuiet ==
    ASSUME TableInv, Quiet
    PROVE  TableExclusive' /\ TombstoneOwned'
<1>1. TableExclusive'
  BY DEF TableInv, Quiet, TableExclusive, live
<1>2. TombstoneOwned'
  BY DEF TableInv, Quiet, TombstoneOwned
<1> QED BY <1>1, <1>2

\* Inserting a handle where there is no tombstone keeps the tables sound.
LEMMA TableInserts ==
    ASSUME TableInv, NEW c \in Ctx, Inserts(c)
    PROVE  TableExclusive' /\ TombstoneOwned'
<1>1. TableExclusive'
  BY DEF TableInv, Inserts, TableExclusive, live
<1>2. TombstoneOwned'
  BY DEF TableInv, Inserts, TombstoneOwned
<1> QED BY <1>1, <1>2

\* Swapping a handle for a tombstone and its flight keeps the tables sound.
LEMMA TableTakes ==
    ASSUME TableInv, NEW c \in Ctx, Takes(c)
    PROVE  TableExclusive' /\ TombstoneOwned'
<1>1. PICK o \in Nat, claim \in Nat :
         /\ tomb' = [tomb EXCEPT ![c] = [state |-> "Expiring", gen |-> handle[c].gen,
                                         op |-> o, claim |-> claim]]
         /\ flights' = flights \cup {[ctx |-> c, gen |-> handle[c].gen, op |-> o,
                                      claim |-> claim]}
  BY DEF Takes
<1> DEFINE f == [ctx |-> c, gen |-> handle[c].gen, op |-> o, claim |-> claim]
<1>2. tomb[c].state = "None" /\ ~retry[c] /\ \A g \in flights : g.ctx # c
  BY DEF TableInv, Takes, TableExclusive, TombstoneOwned
<1>3. TableExclusive'
  BY <1>1, <1>2 DEF TableInv, Takes, TableExclusive, live, NoHandle, TypeOK
<1>4. \A d \in Ctx : tomb'[d].state = "Expiring" => \E g \in flights' : g.ctx = d
  <2>1. f \in flights' /\ f.ctx = c
    BY <1>1
  <2>2. \A d \in Ctx \ {c} : tomb'[d] = tomb[d]
    BY <1>1 DEF TableInv, TypeOK
  <2> HIDE DEF f
  <2> QED BY <1>1, <2>1, <2>2 DEF TableInv, TombstoneOwned
<1>5. \A g \in flights' : /\ tomb'[g.ctx].state = "Expiring"
                          /\ tomb'[g.ctx].gen = g.gen /\ tomb'[g.ctx].op = g.op
                          /\ tomb'[g.ctx].claim = g.claim
  BY <1>1, <1>2 DEF TableInv, TombstoneOwned, TypeOK
<1>6. \A g, i \in flights' : g.ctx = i.ctx => g = i
  BY <1>1, <1>2 DEF TableInv, TombstoneOwned
<1> QED BY <1>3, <1>4, <1>5, <1>6 DEF TombstoneOwned

\* CleanupClaimSettlement::settle finds its own tombstone and keeps the tables sound.
LEMMA TableCleanupSettle ==
    ASSUME TableInv, NEW f \in flights, NEW ok \in BOOLEAN, CleanupSettle(f, ok)
    PROVE  TableInv'
<1> DEFINE c == f.ctx
<1>1. c \in Ctx /\ f \in FlightRecord
  BY DEF TableInv, TypeOK, FlightRecord
<1>2. /\ tomb[c].state = "Expiring" /\ tomb[c].gen = f.gen
      /\ tomb[c].op = f.op /\ tomb[c].claim = f.claim
  BY DEF TableInv, TombstoneOwned
<1>3. /\ tomb' = [tomb EXCEPT ![c] = IF ok THEN NoTomb ELSE [@ EXCEPT !.state = "CleanupFailed"]]
      /\ retry' = [retry EXCEPT ![c] = ~ok]
      /\ flights' = flights \ {f} /\ UNCHANGED handle
  BY <1>1, <1>2 DEF CleanupSettle
<1>4. ~live(c)
  BY <1>1, <1>2 DEF TableInv, TableExclusive
<1>5. /\ tomb'[c].state = IF ok THEN "None" ELSE "CleanupFailed"
      /\ \A d \in Ctx \ {c} : tomb'[d] = tomb[d]
  BY <1>1, <1>3 DEF TableInv, TypeOK, TombRecord, NoTomb
<1>6. TableExclusive'
  BY <1>1, <1>3, <1>4, <1>5 DEF TableInv, TableExclusive, TypeOK, live
<1>7. \A g \in flights' : g.ctx \in Ctx \ {c}
  BY <1>3 DEF TableInv, TombstoneOwned, TypeOK, FlightRecord
<1>8. TombstoneOwned'
  BY <1>1, <1>3, <1>5, <1>7 DEF TableInv, TombstoneOwned
<1>9. TypeOK'
  BY TypeFlightStep DEF FlightStep, TableInv
<1> QED BY <1>3, <1>6, <1>8, <1>9 DEF TableInv, GovRunning

\* A release that retries a failed cleanup keeps the tables sound.
LEMMA TableRetryCleanup ==
    ASSUME TableInv, NEW c \in Ctx, RetryCleanup(c)
    PROVE  TableInv'
<1> DEFINE f == [ctx |-> c, gen |-> tomb[c].gen, op |-> tomb[c].op, claim |-> nextClaim]
<1>1. /\ tomb[c].state = "CleanupFailed" /\ retry[c] /\ UNCHANGED handle
      /\ retry' = [retry EXCEPT ![c] = FALSE]
      /\ tomb' = [tomb EXCEPT ![c].state = "Expiring", ![c].claim = nextClaim]
      /\ flights' = flights \cup {f}
  BY DEF RetryCleanup
<1>2. ~live(c) /\ \A g \in flights : g.ctx # c
  BY <1>1 DEF TableInv, TableExclusive, TombstoneOwned
<1>3. /\ tomb'[c].state = "Expiring" /\ tomb'[c].claim = nextClaim
      /\ tomb'[c].gen = tomb[c].gen /\ tomb'[c].op = tomb[c].op
      /\ \A d \in Ctx \ {c} : tomb'[d] = tomb[d]
  BY <1>1 DEF TableInv, TypeOK, TombRecord
<1>4. TableExclusive'
  BY <1>1, <1>2, <1>3 DEF TableInv, TableExclusive, TypeOK, live
<1>5. \A d \in Ctx : tomb'[d].state = "Expiring" => \E g \in flights' : g.ctx = d
  <2>1. f \in flights' /\ f.ctx = c
    BY <1>1
  <2> HIDE DEF f
  <2> QED BY <1>1, <1>3, <2>1 DEF TableInv, TombstoneOwned
<1>6. \A g \in flights' : /\ tomb'[g.ctx].state = "Expiring"
                          /\ tomb'[g.ctx].gen = g.gen /\ tomb'[g.ctx].op = g.op
                          /\ tomb'[g.ctx].claim = g.claim
  BY <1>1, <1>2, <1>3 DEF TableInv, TombstoneOwned, TypeOK, FlightRecord
<1>7. \A g, i \in flights' : g.ctx = i.ctx => g = i
  BY <1>1, <1>2 DEF TableInv, TombstoneOwned
<1>8. TypeOK'
  BY TypeTableCall DEF TableInv, TableCall
<1> QED BY <1>1, <1>4, <1>5, <1>6, <1>7, <1>8 DEF TableInv, TombstoneOwned, GovRunning

\* Every step of the manager keeps the inductive invariant.
LEMMA TableStep ==
    ASSUME TableInv, [Next]_vars
    PROVE  TableInv'
<1>1. ASSUME Shape, GovRunning'
      PROVE  TableInv'
  <2>1. TypeOK'
    BY TypeStep DEF TableInv
  <2> QED BY <1>1, <2>1, TableQuiet, TableInserts, TableTakes DEF Shape, TableInv
<1>2. TypeOK /\ GovRunning
  BY DEF TableInv
<1>3. CASE UNCHANGED vars
  BY <1>2, <1>3, <1>1 DEF vars, Shape, Quiet, GovRunning, live
<1>4. ASSUME NEW p \in Caller, NEW c \in Ctx,
             \/ \E r \in Request : CheckoutLock1(p, c, r) \/ ClaimLock1(p, c, r)
             \/ \E force \in BOOLEAN : Clear(p, c, force)
             \/ Compact(p, c)
      PROVE  TableInv'
  BY <1>1, <1>2, <1>4, ShapeCallStart
<1>5. ASSUME NEW p \in Caller, CallStep(p) \/ DropCall(p)
      PROVE  TableInv'
  BY <1>1, <1>2, <1>5, ShapeCallStep
<1>6. ASSUME NEW c \in Ctx, TableCall(c)
      PROVE  TableInv'
  BY <1>1, <1>2, <1>6, ShapeTableCall, TableRetryCleanup
<1>7. ASSUME NEW o \in Op,
             \/ TurnPoll(o) \/ TurnComplete(o) \/ GovernedStep(o)
             \/ \E a \in {"finish", "expire"} : TurnExit(o, a)
      PROVE  TableInv'
  BY <1>1, <1>2, <1>7, ShapeTurnStep
<1>8. CASE FlightStep
  BY <1>1, <1>2, <1>8, ShapeCancelSettle, TableCleanupSettle DEF FlightStep
<1> QED BY <1>3, <1>4, <1>5, <1>6, <1>7, <1>8 DEF Next

\* The inductive invariant holds of an empty manager.
LEMMA TableInit == Init => TableInv
<1> SUFFICES ASSUME Init PROVE TableInv
  OBVIOUS
<1>1. GovRunning
  BY DEF Init, GovRunning, NoHandle
<1>2. TableExclusive
  BY DEF Init, TableExclusive, NoHandle, NoTomb, live
<1>3. TombstoneOwned
  BY DEF Init, TombstoneOwned, NoTomb
<1> QED BY <1>1, <1>2, <1>3, TypeInit DEF TableInv

\* In every reachable state a context is in one of SessionTable's maps only, a retry capability
\* is kept exactly for a failed cleanup, and every expiring tombstone has the one cleanup flight
\* that carries its generation, operation and claim id.
THEOREM TablesSound == Spec => [](TableExclusive /\ TombstoneOwned)
<1>1. TableInv => TableExclusive /\ TombstoneOwned
  BY DEF TableInv
<1> QED BY <1>1, TableInit, TableStep, PTL DEF Spec

\* The half of it about cleanup flights: a settlement is never ignored as stale.
THEOREM FlightsExact == Spec => []TombstoneOwned
  BY TablesSound, PTL

-----------------------------------------------------------------------------
(* Claims *)

\* No claim starts, moves or ends on its handle, except that calls may return.
Bystander ==
    /\ UNCHANGED cancels
    /\ \A c \in Ctx : handle[c].state \in ClaimedStates =>
          handle'[c].id = handle[c].id /\ handle'[c].state = handle[c].state
    /\ \A q \in Caller : Claiming(q)' => call'[q] = call[q]

\* Only call p and the handle of c change.
OthersKeep(p, c) ==
    /\ UNCHANGED cancels
    /\ \A d \in Ctx \ {c} : handle'[d] = handle[d]
    /\ \A q \in Caller \ {p} : call'[q] = call[q]

\* Call k has claimed handle h.
Holds(k, h) == h.id = k.id /\ h.state \in ClaimStates(k)

\* Call p claims the handle of c, which nobody had claimed.
Claims(p, c) ==
    /\ handle[c].state \notin ClaimedStates
    /\ call'[p].ctx = c /\ Holds(call'[p], handle'[c])
    /\ OthersKeep(p, c)

\* A claiming call goes on with its claim or ends it.
Proceeds(p) ==
    /\ Claiming(p)
    /\ OthersKeep(p, call[p].ctx)
    /\ Claiming(p)' => call'[p].ctx = call[p].ctx /\ Holds(call'[p], handle'[call[p].ctx])

\* A cancel flight claims the handle of c, which nobody had claimed.
CancelStarts(c) ==
    /\ handle[c].state \notin ClaimedStates
    /\ UNCHANGED call
    /\ \A d \in Ctx \ {c} : handle'[d] = handle[d]
    /\ handle'[c].state = "Cancelling"
    /\ \E x : x.ctx = c /\ x.id = handle'[c].id /\ cancels' = cancels \cup {x}

\* A cancel flight settles its handle.
CancelEnds(x) ==
    /\ UNCHANGED call
    /\ \A d \in Ctx \ {x.ctx} : handle'[d] = handle[d]
    /\ cancels' = cancels \ {x}

\* What any step does to the claims.
ClaimShape ==
    \/ Bystander
    \/ \E p \in Caller, c \in Ctx : Claims(p, c)
    \/ \E p \in Caller : Proceeds(p)
    \/ \E c \in Ctx : CancelStarts(c)
    \/ \E x \in cancels : CancelEnds(x)

\* The inductive invariant.
ClaimInv == TableInv /\ ClaimExact

\* A claiming call holds its handle in a claimed state, and never in a cancel flight's.
LEMMA ClaimStatesClaimed ==
    ASSUME NEW k
    PROVE  ClaimStates(k) \subseteq ClaimedStates \ {"Cancelling"}
  BY DEF ClaimStates, ClaimedStates

\* Every shape of step keeps the claims exact.
LEMMA ClaimShapeKeeps ==
    ASSUME TypeOK, TypeOK', ClaimExact, ClaimShape
    PROVE  ClaimExact'
<1> USE ClaimStatesClaimed
<1>a. \A p \in Caller : call[p].ctx \in Ctx /\ call'[p].ctx \in Ctx
  BY DEF TypeOK, CallRecord
<1>b. \A x \in cancels : x.ctx \in Ctx
  BY DEF TypeOK, CancelRecord
<1>c. "Cancelling" \in ClaimedStates
  BY DEF ClaimedStates
<1>1. CASE Bystander
  <2>1. \A p \in Caller : Claiming(p)' => Claiming(p) /\ call'[p] = call[p]
    BY <1>1 DEF Bystander, Claiming
  <2>2. \A p \in Caller : Claiming(p)' => Holds(call'[p], handle'[call'[p].ctx])
    BY <1>1, <1>a, <2>1 DEF Bystander, ClaimExact, Holds
  <2>3. \A x \in cancels' : handle'[x.ctx].id = x.id /\ handle'[x.ctx].state = "Cancelling"
    BY <1>1, <1>b, <1>c DEF Bystander, ClaimExact
  <2>4. \A p, q \in Caller : Claiming(p)' /\ Claiming(q)' /\ p # q => call'[p].ctx # call'[q].ctx
    BY <2>1 DEF ClaimExact
  <2>5. \A x, y \in cancels' : x.ctx = y.ctx => x = y
    BY <1>1 DEF Bystander, ClaimExact
  <2> QED BY <2>2, <2>3, <2>4, <2>5 DEF ClaimExact, Holds
<1>2. ASSUME NEW p \in Caller, NEW c \in Ctx, Claims(p, c)
      PROVE  ClaimExact'
  <2>1. \A q \in Caller \ {p} : /\ Claiming(q)' => Claiming(q) /\ call[q].ctx # c
                                /\ call'[q] = call[q]
    BY <1>2 DEF Claims, OthersKeep, Claiming, ClaimExact
  <2>2. \A x \in cancels : x.ctx # c
    BY <1>2, <1>c DEF Claims, ClaimExact
  <2>3. \A q \in Caller : Claiming(q)' => Holds(call'[q], handle'[call'[q].ctx])
    BY <1>2, <1>a, <2>1 DEF Claims, OthersKeep, ClaimExact, Holds
  <2>4. \A x \in cancels' : handle'[x.ctx].id = x.id /\ handle'[x.ctx].state = "Cancelling"
    BY <1>2, <1>b, <2>2 DEF Claims, OthersKeep, ClaimExact
  <2>5. \A q, r \in Caller : Claiming(q)' /\ Claiming(r)' /\ q # r => call'[q].ctx # call'[r].ctx
    BY <1>2, <2>1 DEF Claims, ClaimExact
  <2>6. \A x, y \in cancels' : x.ctx = y.ctx => x = y
    BY <1>2 DEF Claims, OthersKeep, ClaimExact
  <2> QED BY <2>3, <2>4, <2>5, <2>6 DEF ClaimExact, Holds
<1>3. ASSUME NEW p \in Caller, Proceeds(p)
      PROVE  ClaimExact'
  <2> DEFINE c == call[p].ctx
  <2>1. \A q \in Caller \ {p} : /\ Claiming(q)' => Claiming(q) /\ call[q].ctx # c
                                /\ call'[q] = call[q]
    BY <1>3 DEF Proceeds, OthersKeep, Claiming, ClaimExact
  <2>2. \A x \in cancels : x.ctx # c
    BY <1>3 DEF Proceeds, ClaimExact
  <2>3. \A q \in Caller : Claiming(q)' => Holds(call'[q], handle'[call'[q].ctx])
    BY <1>3, <1>a, <2>1 DEF Proceeds, OthersKeep, ClaimExact, Holds
  <2>4. \A x \in cancels' : handle'[x.ctx].id = x.id /\ handle'[x.ctx].state = "Cancelling"
    BY <1>3, <1>b, <2>2 DEF Proceeds, OthersKeep, ClaimExact
  <2>5. \A q, r \in Caller : Claiming(q)' /\ Claiming(r)' /\ q # r => call'[q].ctx # call'[r].ctx
    BY <1>3, <2>1 DEF Proceeds, ClaimExact
  <2>6. \A x, y \in cancels' : x.ctx = y.ctx => x = y
    BY <1>3 DEF Proceeds, OthersKeep, ClaimExact
  <2> QED BY <2>3, <2>4, <2>5, <2>6 DEF ClaimExact, Holds
<1>4. ASSUME NEW c \in Ctx, CancelStarts(c)
      PROVE  ClaimExact'
  <2>1. PICK x : x.ctx = c /\ x.id = handle'[c].id /\ cancels' = cancels \cup {x}
    BY <1>4 DEF CancelStarts
  <2>2. /\ \A q \in Caller : /\ Claiming(q)' <=> Claiming(q)
                             /\ call'[q] = call[q]
                             /\ Claiming(q) => call[q].ctx # c
        /\ \A y \in cancels : y.ctx # c
    BY <1>4, <1>c DEF CancelStarts, ClaimExact, Claiming
  <2>3. \A q \in Caller : Claiming(q)' => Holds(call'[q], handle'[call'[q].ctx])
    BY <1>4, <1>a, <2>2 DEF CancelStarts, ClaimExact, Holds
  <2>4. \A y \in cancels' : handle'[y.ctx].id = y.id /\ handle'[y.ctx].state = "Cancelling"
    BY <1>4, <1>b, <2>1, <2>2 DEF CancelStarts, ClaimExact
  <2>5. \A q, r \in Caller : Claiming(q)' /\ Claiming(r)' /\ q # r => call'[q].ctx # call'[r].ctx
    BY <2>2 DEF ClaimExact
  <2>6. \A y, z \in cancels' : y.ctx = z.ctx => y = z
    BY <2>1, <2>2 DEF ClaimExact
  <2> QED BY <2>3, <2>4, <2>5, <2>6 DEF ClaimExact, Holds
<1>5. ASSUME NEW x \in cancels, CancelEnds(x)
      PROVE  ClaimExact'
  <2>2. /\ \A q \in Caller : /\ Claiming(q)' <=> Claiming(q)
                             /\ call'[q] = call[q]
                             /\ Claiming(q) => call[q].ctx # x.ctx
        /\ \A y \in cancels' : y.ctx # x.ctx
    BY <1>5 DEF CancelEnds, ClaimExact, Claiming
  <2>3. \A q \in Caller : Claiming(q)' => Holds(call'[q], handle'[call'[q].ctx])
    BY <1>5, <1>a, <2>2 DEF CancelEnds, ClaimExact, Holds
  <2>4. \A y \in cancels' : handle'[y.ctx].id = y.id /\ handle'[y.ctx].state = "Cancelling"
    BY <1>5, <1>b, <2>2 DEF CancelEnds, ClaimExact
  <2>5. \A q, r \in Caller : Claiming(q)' /\ Claiming(r)' /\ q # r => call'[q].ctx # call'[r].ctx
    BY <2>2 DEF ClaimExact
  <2>6. \A y, z \in cancels' : y.ctx = z.ctx => y = z
    BY <1>5 DEF CancelEnds, ClaimExact
  <2> QED BY <2>3, <2>4, <2>5, <2>6 DEF ClaimExact, Holds
<1> QED BY <1>1, <1>2, <1>3, <1>4, <1>5 DEF ClaimShape

\* Every call is unchanged or holds no claim.
CallsKeep == \A q \in Caller : call'[q].pc \in {"ready", "resolve"} \/ call'[q] = call[q]

\* A call that returns, or is dropped, leaves the other calls alone.
LEMMA ReturnKeeps ==
    ASSUME TypeOK, NEW p \in Caller, Return(p)
    PROVE  CallsKeep
  BY DEF Return, CallsKeep, NoCall, TypeOK

\* A step that keeps the id and the state of claimed handles is a bystander.
LEMMA BystanderCases ==
    ASSUME TypeOK, UNCHANGED cancels,
           NEW c \in Ctx,
           \/ handle[c].state \notin ClaimedStates
           \/ handle'[c] = handle[c]
           \/ handle'[c].id = handle[c].id /\ handle'[c].state = handle[c].state,
           \A d \in Ctx \ {c} : handle'[d] = handle[d],
           CallsKeep
    PROVE  Bystander
<1>1. \A d \in Ctx : handle[d].state \in ClaimedStates =>
          handle'[d].id = handle[d].id /\ handle'[d].state = handle[d].state
  OBVIOUS
<1>2. \A q \in Caller : Claiming(q)' => call'[q] = call[q]
  BY DEF CallsKeep, Claiming
<1> QED BY <1>1, <1>2 DEF Bystander

\* Expiring a handle nobody has claimed is a bystander.
LEMMA TakesBystander ==
    ASSUME TypeOK, UNCHANGED cancels, NEW c \in Ctx, handle[c].state \notin ClaimedStates,
           NEW o, NEW t, take_expiry_claim_locked(c, o, t),
           CallsKeep
    PROVE  Bystander
<1>1. \A d \in Ctx \ {c} : handle'[d] = handle[d]
  BY DEF take_expiry_claim_locked, TakeClaim, TypeOK
<1> QED BY <1>1 DEF Bystander, CallsKeep, Claiming

\* Running a handle nobody has claimed is a bystander.
LEMMA MintsBystander ==
    ASSUME TypeOK, UNCHANGED cancels, NEW c \in Ctx, handle[c].state \notin ClaimedStates,
           NEW h, NEW t, MintTurn(c, h, t),
           CallsKeep
    PROVE  Bystander
<1>1. \A d \in Ctx \ {c} : handle'[d] = handle[d]
  BY DEF MintTurn, TypeOK
<1> QED BY <1>1 DEF Bystander, CallsKeep, Claiming

\* The first lock hold of a call claims an unclaimed handle, or nothing.
LEMMA ClaimCallStart ==
    ASSUME TypeOK, NEW p \in Caller, NEW c \in Ctx,
           \/ \E r \in Request : CheckoutLock1(p, c, r) \/ ClaimLock1(p, c, r)
           \/ \E force \in BOOLEAN : Clear(p, c, force)
           \/ Compact(p, c)
    PROVE  ClaimShape
<1>a. handle[c] \in HandleRecord /\ NoCall \in CallRecord
  BY EmptyRecords DEF TypeOK
<1>1. ASSUME NEW r \in Request, CheckoutLock1(p, c, r) \/ ClaimLock1(p, c, r)
      PROVE  Bystander
  <2>1. CallsKeep
    <3>1. CASE CheckoutLock1(p, c, r)
      BY <3>1, <1>a DEF CheckoutLock1, CallsKeep, TypeOK, CallRecord
    <3>2. CASE ClaimLock1(p, c, r)
      BY <3>2, <1>a DEF ClaimLock1, CallsKeep, TypeOK, CallRecord
    <3> QED BY <1>1, <3>1, <3>2
  <2>2. UNCHANGED <<handle, cancels>>
    BY <1>1 DEF CheckoutLock1, ClaimLock1, tables
  <2> QED BY <2>1, <2>2, BystanderCases
<1>2. ASSUME NEW force \in BOOLEAN, Clear(p, c, force)
      PROVE  Claims(p, c)
  <2>1. handle[c].state \notin ClaimedStates /\ UNCHANGED cancels
    BY <1>2 DEF Clear, ClaimedStates
  <2>2. handle'[c].id = handle[c].id /\ handle'[c].state = "Resetting"
        /\ \A d \in Ctx \ {c} : handle'[d] = handle[d]
    BY <1>2, <1>a DEF Clear, TypeOK, HandleRecord
  <2>3. call'[p].kind = "clear" /\ call'[p].ctx = c /\ call'[p].id = handle[c].id
        /\ \A q \in Caller \ {p} : call'[q] = call[q]
    BY <1>2, <1>a DEF Clear, TypeOK, CallRecord
  <2> QED BY <2>1, <2>2, <2>3 DEF Claims, OthersKeep, Holds, ClaimStates
<1>3. CASE Compact(p, c)
  <2>1. handle[c].state \notin ClaimedStates /\ UNCHANGED cancels
    BY <1>3 DEF Compact, Compactable, ClaimedStates
  <2>2. handle'[c].id = handle[c].id /\ handle'[c].state = "Compacting"
        /\ \A d \in Ctx \ {c} : handle'[d] = handle[d]
    BY <1>3, <1>a DEF Compact, TypeOK, HandleRecord
  <2>3. call'[p].kind = "compact" /\ call'[p].pc = "summarize"
        /\ call'[p].ctx = c /\ call'[p].id = handle[c].id
        /\ \A q \in Caller \ {p} : call'[q] = call[q]
    BY <1>3, <1>a DEF Compact, TypeOK, CallRecord
  <2>4. Claims(p, c)
    BY <2>1, <2>2, <2>3 DEF Claims, OthersKeep, Holds, ClaimStates
  <2> QED BY <2>4 DEF ClaimShape
<1> QED BY <1>1, <1>2, <1>3 DEF ClaimShape

\* The later lock holds of checkout, clear and compact claim an unclaimed handle, or proceed
\* on the handle their call claimed.
LEMMA ClaimCallStep ==
    ASSUME TypeOK, ClaimExact, NEW p \in Caller, CallStep(p) \/ DropCall(p)
    PROVE  ClaimShape
<1> DEFINE k == call[p]  c == call[p].ctx  h == handle[call[p].ctx]
<1>a. k \in CallRecord /\ c \in Ctx /\ h \in HandleRecord /\ h.aborts \subseteq Op
  BY DEF TypeOK, CallRecord, HandleRecord
<1>b. ASSUME Return(p)
      PROVE  ~Claiming(p)' /\ CallsKeep /\ \A q \in Caller \ {p} : call'[q] = call[q]
  BY <1>b, ReturnKeeps DEF Return, Claiming, NoCall, TypeOK
<1>c. ASSUME Claiming(p), Return(p), UNCHANGED cancels,
             \A d \in Ctx \ {c} : handle'[d] = handle[d]
      PROVE  Proceeds(p)
  BY <1>b, <1>c DEF Proceeds, OthersKeep
<1>d. ASSUME Claiming(p), UNCHANGED cancels,
             \A d \in Ctx \ {c} : handle'[d] = handle[d],
             \A q \in Caller \ {p} : call'[q] = call[q],
             call'[p].ctx = c, call'[p].id = k.id,
             handle'[c].id = h.id, handle'[c].state \in ClaimStates(call'[p])
      PROVE  Proceeds(p)
  BY <1>d DEF Proceeds, OthersKeep, Holds, ClaimExact
<1>e. Claiming(p) => h.id = k.id /\ h.state \in ClaimStates(k)
  BY DEF ClaimExact
<1>1. CASE ResolveFails(p) \/ CheckoutRefused(p) \/ DropCall(p)
  <2>1. Return(p) /\ UNCHANGED <<handle, cancels>>
    BY <1>1 DEF ResolveFails, CheckoutRefused, DropCall, tables
  <2> QED BY <1>a, <1>b, <2>1, BystanderCases DEF ClaimShape
<1>2. CASE CancelOld(p)
  <2>1. /\ call'[p].kind = "clear" /\ call'[p].ctx = c /\ call'[p].id = k.id
        /\ \A q \in Caller \ {p} : call'[q] = call[q]
    BY <1>2, <1>a DEF CancelOld, TypeOK, CallRecord
  <2>2. Claiming(p) /\ h.state \in ClaimStates(call'[p]) /\ UNCHANGED <<handle, cancels>>
    BY <1>2, <1>e, <2>1 DEF CancelOld, Claiming, ClaimStates, tables
  <2> QED BY <1>d, <2>1, <2>2 DEF ClaimShape
<1>3. CASE ReleasedOld(p)
  <2>1. /\ call'[p].kind = k.kind /\ call'[p].ctx = c /\ call'[p].id = k.id
        /\ call'[p].pc = "configure"
        /\ \A q \in Caller \ {p} : call'[q] = call[q]
    BY <1>3, <1>a DEF ReleasedOld, TypeOK, CallRecord
  <2>2. Claiming(p) /\ h.state \in ClaimStates(call'[p]) /\ UNCHANGED <<handle, cancels>>
    BY <1>3, <1>e, <2>1 DEF ReleasedOld, Claiming, ClaimStates, tables
  <2> QED BY <1>d, <2>1, <2>2 DEF ClaimShape
<1>4. CASE CheckoutExpiresArmed(p)
  <2>1. PICK o \in ArmedOps(h) : take_expiry_claim_locked(c, o, turn)
    BY <1>4 DEF CheckoutExpiresArmed
  <2>2. h.state \notin ClaimedStates /\ Return(p) /\ UNCHANGED cancels
    BY <1>4 DEF CheckoutExpiresArmed, Lock2Refuses, ClaimedStates
  <2> QED BY <1>a, <1>b, <2>1, <2>2, TakesBystander DEF ClaimShape
<1>5. CASE CheckoutReuse(p)
  <2>1. h.state \notin ClaimedStates /\ Return(p) /\ UNCHANGED cancels
    BY <1>5 DEF CheckoutReuse, Lock2Refuses, ClaimedStates
  <2>2. MintTurn(c, h, reserve_successor(turn, h.aborts))
    BY <1>5 DEF CheckoutReuse
  <2> QED BY <1>a, <1>b, <2>1, <2>2, MintsBystander DEF ClaimShape
<1>6. CASE CheckoutReconcile(p)
  <2>1. h.state \notin ClaimedStates /\ UNCHANGED cancels
    BY <1>6 DEF CheckoutReconcile, Lock2Refuses, ClaimedStates
  <2>2. /\ handle'[c].id = h.id /\ handle'[c].state = "Reconciling"
        /\ \A d \in Ctx \ {c} : handle'[d] = handle[d]
    BY <1>6, <1>a DEF CheckoutReconcile, TypeOK, HandleRecord
  <2>3. /\ call'[p].kind = "checkout" /\ call'[p].ctx = c /\ call'[p].id = h.id
        /\ call'[p].pc = "reconcile"
        /\ \A q \in Caller \ {p} : call'[q] = call[q]
    BY <1>6, <1>a DEF CheckoutReconcile, TypeOK, CallRecord
  <2>4. Claims(p, c)
    BY <2>1, <2>2, <2>3 DEF Claims, OthersKeep, Holds, ClaimStates
  <2> QED BY <1>a, <2>4 DEF ClaimShape
<1>7. CASE CheckoutFresh(p)
  <2>1. h.state \notin ClaimedStates /\ UNCHANGED cancels
    BY <1>7 DEF CheckoutFresh, live, ClaimedStates
  <2>2. /\ handle'[c].id = nextId /\ handle'[c].state = "Configuring"
        /\ \A d \in Ctx \ {c} : handle'[d] = handle[d]
    BY <1>7, <1>a DEF CheckoutFresh, TypeOK, NoHandle
  <2>3. /\ call'[p].kind = "checkout" /\ call'[p].ctx = c /\ call'[p].id = nextId
        /\ call'[p].pc = "configure"
        /\ \A q \in Caller \ {p} : call'[q] = call[q]
    BY <1>7, <1>a DEF CheckoutFresh, TypeOK, CallRecord
  <2>4. Claims(p, c)
    BY <2>1, <2>2, <2>3 DEF Claims, OthersKeep, Holds, ClaimStates
  <2> QED BY <1>a, <2>4 DEF ClaimShape
<1>8. ASSUME NEW kind, RemoveAfterRelease(p, kind)
      PROVE  Proceeds(p)
  <2>1. Claiming(p) /\ Return(p) /\ UNCHANGED cancels /\ \A d \in Ctx \ {c} : handle'[d] = handle[d]
    BY <1>8, <1>a DEF RemoveAfterRelease, Claiming, TypeOK
  <2> QED BY <1>c, <2>1
<1>9. CASE CheckoutTeardown(p) \/ ClearTeardown(p) \/ CompactTeardown(p)
  BY <1>8, <1>9 DEF CheckoutTeardown, ClearTeardown, CompactTeardown, ClaimShape
<1>10. CASE ClaimLock2(p)
  <2>1. /\ Return(p) /\ UNCHANGED cancels
        /\ h.state \notin ClaimedStates \/ handle'[c] = h
        /\ \A d \in Ctx \ {c} : handle'[d] = handle[d]
    BY <1>10, <1>a DEF ClaimLock2, GovernedClaim, live, TypeOK, ClaimedStates
  <2>2. Bystander
    BY <1>a, <1>b, <2>1 DEF Bystander, CallsKeep, Claiming
  <2> QED BY <2>2 DEF ClaimShape
<1>11. ASSUME NEW ok \in BOOLEAN, ReconcileSettle(p, ok)
       PROVE  Proceeds(p)
  <2>0. Claiming(p) /\ UNCHANGED cancels
    BY <1>11 DEF ReconcileSettle, Claiming
  <2>1. CASE still_ours(k, "Reconciling") /\ ok /\ ~h.expire
    <3>1. MintTurn(c, [h EXCEPT !.fp = k.fp], turn) /\ Return(p)
      BY <1>11, <2>1 DEF ReconcileSettle
    <3>2. \A d \in Ctx \ {c} : handle'[d] = handle[d]
      BY <3>1, <1>a DEF MintTurn, TypeOK
    <3> QED BY <1>c, <2>0, <3>1, <3>2
  <2>2. CASE still_ours(k, "Reconciling") /\ ~(ok /\ ~h.expire)
    <3>1. /\ handle' = [handle EXCEPT ![c].state = "Expiring", ![c].aborts = {}]
          /\ call' = [call EXCEPT ![p].pc = "teardown", ![p].ok = TRUE]
          /\ k.kind = "checkout"
      BY <1>11, <2>2 DEF ReconcileSettle
    <3>2. /\ handle'[c].id = h.id /\ handle'[c].state = "Expiring"
          /\ \A d \in Ctx \ {c} : handle'[d] = handle[d]
      BY <3>1, <1>a DEF TypeOK, HandleRecord
    <3>3. /\ call'[p].kind = "checkout" /\ call'[p].ctx = c /\ call'[p].id = k.id
          /\ call'[p].pc = "teardown"
          /\ \A q \in Caller \ {p} : call'[q] = call[q]
      BY <3>1, <1>a DEF TypeOK, CallRecord
    <3>4. handle'[c].state \in ClaimStates(call'[p])
      BY <3>2, <3>3 DEF ClaimStates
    <3> QED BY <1>d, <2>0, <3>2, <3>3, <3>4
  <2>3. CASE ~still_ours(k, "Reconciling")
    BY <1>11, <2>0, <2>3, <1>c DEF ReconcileSettle
  <2> QED BY <2>1, <2>2, <2>3
<1>12. ASSUME NEW ok \in BOOLEAN, ConfigureSettle(p, ok)
       PROVE  Proceeds(p)
  <2> DEFINE ours == still_ours(k, "Configuring") /\ h.op = k.op
  <2>0. Claiming(p) /\ UNCHANGED cancels
    BY <1>12 DEF ConfigureSettle, Claiming
  <2>1. CASE ours /\ h.expire
    <3>1. /\ handle' = [handle EXCEPT ![c].state = "Expiring"]
          /\ call' = [call EXCEPT ![p].pc = "teardown", ![p].ok = ok]
          /\ k.kind = "checkout"
      BY <1>12, <2>1 DEF ConfigureSettle
    <3>2. /\ handle'[c].id = h.id /\ handle'[c].state = "Expiring"
          /\ \A d \in Ctx \ {c} : handle'[d] = handle[d]
      BY <3>1, <1>a DEF TypeOK, HandleRecord
    <3>3. /\ call'[p].kind = "checkout" /\ call'[p].ctx = c /\ call'[p].id = k.id
          /\ call'[p].pc = "teardown"
          /\ \A q \in Caller \ {p} : call'[q] = call[q]
      BY <3>1, <1>a DEF TypeOK, CallRecord
    <3>4. handle'[c].state \in ClaimStates(call'[p])
      BY <3>2, <3>3 DEF ClaimStates
    <3> QED BY <1>d, <2>0, <3>2, <3>3, <3>4
  <2>2. CASE ours /\ ~h.expire /\ ok
    <3>1. MintTurn(c, h, turn) /\ Return(p)
      BY <1>12, <2>2 DEF ConfigureSettle
    <3>2. \A d \in Ctx \ {c} : handle'[d] = handle[d]
      BY <3>1, <1>a DEF MintTurn, TypeOK
    <3> QED BY <1>c, <2>0, <3>1, <3>2
  <2>3. CASE ours /\ ~h.expire /\ ~ok
    <3>1. Return(p) /\ handle' = [handle EXCEPT ![c] = NoHandle]
      BY <1>12, <2>3 DEF ConfigureSettle
    <3> QED BY <1>a, <1>c, <2>0, <3>1 DEF TypeOK
  <2>4. CASE ~ours
    BY <1>12, <2>0, <2>4, <1>c DEF ConfigureSettle
  <2> QED BY <2>1, <2>2, <2>3, <2>4
<1>13. ASSUME NEW ok \in BOOLEAN, NEW kind \in {"clear", "compact"},
              NEW s \in {"Resetting", "Compacting"}, RenewSettle(p, ok, kind, s)
       PROVE  Proceeds(p)
  <2>0. Claiming(p) /\ UNCHANGED cancels /\ k.kind \in {"clear", "compact"}
    BY <1>13 DEF RenewSettle, Claiming
  <2>1. CASE ~(still_ours(k, s) /\ ~Commits(ok, h))
    <3>1. Return(p) /\ \A d \in Ctx \ {c} : handle'[d] = handle[d]
      BY <1>13, <2>1, <1>a DEF RenewSettle, TypeOK
    <3> QED BY <1>c, <2>0, <3>1
  <2>2. CASE still_ours(k, s) /\ ~Commits(ok, h)
    <3>1. UNCHANGED handle /\ call' = [call EXCEPT ![p].pc = "teardown", ![p].ok = ok]
      BY <1>13, <2>2 DEF RenewSettle
    <3>2. /\ call'[p].kind = k.kind /\ call'[p].ctx = c /\ call'[p].id = k.id
          /\ call'[p].pc = "teardown"
          /\ \A q \in Caller \ {p} : call'[q] = call[q]
      BY <3>1, <1>a DEF TypeOK, CallRecord
    <3>3. handle'[c].state \in ClaimStates(call'[p])
      BY <2>0, <3>1, <3>2, <1>e DEF ClaimStates
    <3> QED BY <1>d, <2>0, <3>1, <3>2, <3>3
  <2> QED BY <2>1, <2>2
<1>14. ASSUME NEW ok \in BOOLEAN, ClearSettle(p, ok) \/ CompactSettle(p, ok)
       PROVE  ClaimShape
  BY <1>13, <1>14 DEF ClearSettle, CompactSettle, ClaimShape
<1>15. ASSUME NEW ok \in BOOLEAN, Summarized(p, ok)
       PROVE  Proceeds(p)
  <2>0. Claiming(p) /\ UNCHANGED cancels /\ k.kind = "compact" /\ k.pc = "summarize"
    BY <1>15 DEF Summarized, Claiming
  <2>1. CASE ok
    <3>1. call' = [call EXCEPT ![p].pc = "release_old"] /\ UNCHANGED handle
      BY <1>15, <2>1 DEF Summarized
    <3>2. /\ call'[p].kind = "compact" /\ call'[p].ctx = c /\ call'[p].id = k.id
          /\ call'[p].pc = "release_old"
          /\ \A q \in Caller \ {p} : call'[q] = call[q]
      BY <2>0, <3>1, <1>a DEF TypeOK, CallRecord
    <3>3. handle'[c].state \in ClaimStates(call'[p])
      BY <2>0, <3>1, <3>2, <1>e DEF ClaimStates
    <3> QED BY <1>d, <2>0, <3>1, <3>2, <3>3
  <2>2. CASE ~ok /\ still_ours(k, "Compacting")
    <3>1. /\ handle' = [handle EXCEPT ![c].state = "Expiring"]
          /\ call' = [call EXCEPT ![p].pc = "teardown", ![p].ok = TRUE]
      BY <1>15, <2>2 DEF Summarized
    <3>2. /\ handle'[c].id = h.id /\ handle'[c].state = "Expiring"
          /\ \A d \in Ctx \ {c} : handle'[d] = handle[d]
      BY <3>1, <1>a DEF TypeOK, HandleRecord
    <3>3. /\ call'[p].kind = "compact" /\ call'[p].ctx = c /\ call'[p].id = k.id
          /\ call'[p].pc = "teardown"
          /\ \A q \in Caller \ {p} : call'[q] = call[q]
      BY <2>0, <3>1, <1>a DEF TypeOK, CallRecord
    <3>4. handle'[c].state \in ClaimStates(call'[p])
      BY <3>2, <3>3 DEF ClaimStates
    <3> QED BY <1>d, <2>0, <3>2, <3>3, <3>4
  <2>3. CASE ~ok /\ ~still_ours(k, "Compacting")
    BY <1>15, <2>0, <2>3, <1>c DEF Summarized
  <2> QED BY <2>1, <2>2, <2>3
<1> QED
  BY <1>1, <1>2, <1>3, <1>4, <1>5, <1>6, <1>7, <1>9, <1>10, <1>11, <1>12, <1>14, <1>15
     DEF CallStep, ClaimShape

\* An assignment to one handle that keeps a claimed handle's id and state is a bystander.
LEMMA HandleBystander ==
    ASSUME TypeOK, UNCHANGED <<cancels, call>>, NEW c \in Ctx, NEW nh,
           handle' = [handle EXCEPT ![c] = nh],
           handle[c].state \in ClaimedStates => nh.id = handle[c].id /\ nh.state = handle[c].state
    PROVE  Bystander
<1>1. handle'[c] = nh /\ \A d \in Ctx \ {c} : handle'[d] = handle[d]
  BY DEF TypeOK
<1> QED BY <1>1 DEF Bystander, Claiming

\* The completion guard and the governed claims never touch a claimed handle.
LEMMA ClaimTurnStep ==
    ASSUME TypeOK, GovRunning, NEW o \in Op,
           \/ TurnPoll(o) \/ TurnComplete(o) \/ GovernedStep(o)
           \/ \E a \in {"finish", "expire"} : TurnExit(o, a)
    PROVE  Bystander
<1> DEFINE t == turn[o]  c == turn[o].ctx  h == handle[turn[o].ctx]
<1>a. t \in TurnRecord /\ c \in Ctx /\ h \in HandleRecord
  BY DEF TypeOK, HandleRecord, TurnRecord
<1>b. ASSUME UNCHANGED <<handle, cancels, call>>
      PROVE  Bystander
  BY <1>b DEF Bystander, Claiming
<1>c. ASSUME h.state \notin ClaimedStates, UNCHANGED <<cancels, call>>,
             take_expiry_claim_locked(c, o, done(o))
      PROVE  Bystander
  BY <1>a, <1>c, TakesBystander DEF CallsKeep
<1>d. ASSUME NEW e, handle' = [handle EXCEPT ![c].expire = e], UNCHANGED <<cancels, call>>
      PROVE  Bystander
  BY <1>a, <1>d DEF Bystander, Claiming, TypeOK, HandleRecord
<1>e. h.gov # "none" => h.state \notin ClaimedStates
  BY <1>a DEF GovRunning, ClaimedStates
<1>1. CASE TurnPoll(o) \/ Admit(o) \/ Rollback(o) \/ ApplyLock1(o)
  BY <1>1, <1>b DEF TurnPoll, Admit, Rollback, ApplyLock1, tables
<1>2. ASSUME NEW a \in {"finish", "expire"}, TurnExit(o, a)
      PROVE  Bystander
  BY <1>2, <1>b DEF TurnExit, tables
<1>3. CASE finish_owned_turn(o)
  <2> DEFINE current == live(c) /\ h.gen = t.gen
             owner == current /\ h.op = o
             ready == owner /\ h.gov = "ready"
             gov == gov_after_finish(h, ready)
             idle == owner /\ gov = "none" /\ h.state = "Running"
             s == IF idle THEN "Idle" ELSE h.state
             n == IF idle THEN NoOp ELSE h.op
             nh == [h EXCEPT !.gov = gov, !.aborts = h.aborts \ {o}, !.state = s, !.op = n]
  <2>0. UNCHANGED <<cancels, call>>
    BY <1>3 DEF finish_owned_turn
  <2>1. CASE ready /\ h.expire
    BY <1>3, <2>0, <2>1, <1>c, <1>e DEF finish_owned_turn
  <2>2. CASE ~(ready /\ h.expire)
    <3>1. handle' = [handle EXCEPT ![c] = IF current THEN nh ELSE h]
      BY <1>3, <2>2 DEF finish_owned_turn
    <3>2. h.state \in ClaimedStates => s = h.state
      BY DEF ClaimedStates
    <3>3. nh.id = h.id /\ nh.state = s
      <4> HIDE DEF gov, s, n
      <4> QED BY <1>a DEF HandleRecord
    <3> HIDE DEF nh, s, current
    <3> QED BY <1>a, <2>0, <3>1, <3>2, <3>3, HandleBystander
  <2> QED BY <2>1, <2>2
<1>4. CASE begin_expire_current(o)
  <2>0. UNCHANGED <<cancels, call>>
    BY <1>4 DEF begin_expire_current
  <2>1. CASE h.state \notin ClaimedStates /\ take_expiry_claim_locked(c, o, done(o))
    BY <2>0, <2>1, <1>c
  <2>2. CASE ~(h.state \notin ClaimedStates /\ take_expiry_claim_locked(c, o, done(o)))
    <3>1. \E e \in BOOLEAN : handle' = [handle EXCEPT ![c].expire = e]
      BY <1>4, <2>2, <1>a DEF begin_expire_current, ClaimedStates
    <3> QED BY <2>0, <3>1, <1>d
  <2> QED BY <2>1, <2>2
<1>5. ASSUME NEW ok \in BOOLEAN, ApplyLock2(o, ok)
      PROVE  Bystander
  <2>0. UNCHANGED <<cancels, call>>
    BY <1>5 DEF ApplyLock2
  <2>1. CASE ok /\ Applicable(o)
    <3>1. h.state \notin ClaimedStates
      BY <1>e, <2>1 DEF Applicable, owns
    <3>2. \A d \in Ctx \ {c} : handle'[d] = handle[d]
      BY <1>5, <2>1, <1>a DEF ApplyLock2, TypeOK
    <3> QED BY <2>0, <3>1, <3>2 DEF Bystander, Claiming
  <2>2. CASE ~(ok /\ Applicable(o))
    BY <1>5, <2>0, <2>2, <1>b DEF ApplyLock2
  <2> QED BY <2>1, <2>2
<1>6. CASE GovernedSettle(o)
  <2>0. UNCHANGED <<cancels, call>>
    BY <1>6 DEF GovernedSettle
  <2>1. CASE ~owns(o)
    <3>1. UNCHANGED handle
      BY <1>6, <2>1, <1>a DEF GovernedSettle, TypeOK
    <3> QED BY <1>b, <2>0, <3>1
  <2>2. CASE owns(o)
    <3>1. h.state \notin ClaimedStates
      BY <1>e, <2>2 DEF owns
    <3>2. \A d \in Ctx \ {c} : handle'[d] = handle[d]
      BY <1>6, <1>a DEF GovernedSettle, take_expiry_claim_locked, TakeClaim, TypeOK
    <3> QED BY <2>0, <3>1, <3>2 DEF Bystander, Claiming
  <2> QED BY <2>1, <2>2
<1>7. CASE FirstPoll(o)
  <2>1. /\ \/ \E e \in BOOLEAN : handle' = [handle EXCEPT ![c].expire = e]
           \/ owns(o) /\ handle' = [handle EXCEPT ![c].gov = "none"]
        /\ UNCHANGED <<cancels, call>>
    BY <1>7, <1>a DEF FirstPoll, HandleRecord
  <2>2. CASE owns(o) /\ handle' = [handle EXCEPT ![c].gov = "none"]
    BY <2>1, <2>2, <1>a DEF Bystander, Claiming, TypeOK, HandleRecord
  <2> QED BY <1>d, <2>1, <2>2
<1> QED BY <1>1, <1>2, <1>3, <1>4, <1>5, <1>6, <1>7 DEF TurnComplete, GovernedStep

\* The operations of one lock hold defer to a claim, or start a cancel flight on an unclaimed
\* handle.
LEMMA ClaimTableCall ==
    ASSUME TypeOK, NEW c \in Ctx, TableCall(c)
    PROVE  ClaimShape
<1> DEFINE h == handle[c]
<1>a. h \in HandleRecord
  BY DEF TypeOK
<1>b. ASSUME NEW o, h.state \notin ClaimedStates, UNCHANGED <<cancels, call>>,
             take_expiry_claim_locked(c, o, turn)
      PROVE  Bystander
  BY <1>b, TakesBystander DEF CallsKeep
<1>c. ASSUME NEW e, handle' = [handle EXCEPT ![c].expire = e], UNCHANGED <<cancels, call>>
      PROVE  Bystander
  BY <1>a, <1>c DEF Bystander, Claiming, TypeOK, HandleRecord
<1>1. CASE ExpireArmedIdle(c)
  <2>1. /\ \E o \in ArmedOps(h) : take_expiry_claim_locked(c, o, turn)
        /\ h.state \notin ClaimedStates /\ UNCHANGED <<cancels, call>>
    BY <1>1 DEF ExpireArmedIdle, ClaimedStates
  <2> QED BY <1>b, <2>1 DEF ClaimShape
<1>2. CASE CheckoutExisting(c)
  <2>1. /\ MintTurn(c, h, reserve_successor(turn, h.aborts))
        /\ h.state \notin ClaimedStates /\ UNCHANGED <<cancels, call>>
    BY <1>2 DEF CheckoutExisting, ClaimedStates
  <2> QED BY <2>1, MintsBystander DEF ClaimShape, CallsKeep
<1>3. CASE \/ ReleaseGoverned(c) \/ CancelGoverned(c) \/ ClearGoverned(c)
           \/ ReleaseDeferred(c) \/ CancelDeferred(c) \/ ClearConfiguring(c)
  <2>1. /\ \E e : handle' = [handle EXCEPT ![c].expire = e]
        /\ UNCHANGED <<cancels, call>>
    BY <1>3 DEF ReleaseGoverned, CancelGoverned, ClearGoverned, ReleaseDeferred, CancelDeferred,
                ClearConfiguring, AbortGoverned, DeferExpiry
  <2> QED BY <1>c, <2>1 DEF ClaimShape
<1>4. CASE Release(c) \/ Reap(c)
  <2>1. /\ take_expiry_claim_locked(c, h.op, turn)
        /\ h.state \notin ClaimedStates /\ UNCHANGED <<cancels, call>>
    BY <1>4 DEF Release, Reap, is_claimed, ClaimedStates
  <2> QED BY <1>b, <2>1 DEF ClaimShape
<1>5. CASE Cancel(c)
  <2>1. /\ h.state \notin ClaimedStates /\ UNCHANGED call
        /\ handle'[c].state = "Cancelling" /\ handle'[c].id = h.id
        /\ \A d \in Ctx \ {c} : handle'[d] = handle[d]
    BY <1>5, <1>a DEF Cancel, TypeOK, HandleRecord, ClaimedStates
  <2> DEFINE x == [ctx |-> c, gen |-> h.gen, id |-> h.id, claim |-> nextClaim]
  <2>2. x.ctx = c /\ x.id = h.id /\ cancels' = cancels \cup {x}
    BY <1>5 DEF Cancel
  <2> HIDE DEF x
  <2>3. CancelStarts(c)
    BY <2>1, <2>2 DEF CancelStarts
  <2> QED BY <2>3 DEF ClaimShape
<1>6. CASE Inject(c) \/ Retire(c)
  <2>1. /\ handle'[c].state = h.state /\ handle'[c].id = h.id
        /\ \A d \in Ctx \ {c} : handle'[d] = handle[d]
    <3>1. CASE Inject(c)
      BY <3>1, <1>a DEF Inject, TypeOK, HandleRecord
    <3>2. CASE Retire(c)
      BY <3>2, <1>a DEF Retire, TypeOK, HandleRecord
    <3> QED BY <1>6, <3>1, <3>2
  <2>2. UNCHANGED <<cancels, call>>
    BY <1>6 DEF Inject, Retire
  <2> QED BY <2>1, <2>2 DEF Bystander, Claiming, ClaimShape
<1>7. ASSUME NEW r \in Request \cup {NoFingerprint}, claim_governed_locked(c, r)
      PROVE  Bystander
  <2>1. /\ h.state \notin ClaimedStates /\ UNCHANGED <<cancels, call>>
        /\ \A d \in Ctx \ {c} : handle'[d] = handle[d]
    BY <1>7 DEF claim_governed_locked, GovernedClaim, ClaimedStates, TypeOK
  <2> QED BY <2>1 DEF Bystander, Claiming
<1>8. CASE RetryCleanup(c)
  BY <1>8 DEF RetryCleanup, Bystander, Claiming, ClaimShape
<1> QED BY <1>1, <1>2, <1>3, <1>4, <1>5, <1>6, <1>7, <1>8 DEF TableCall, ClaimShape

\* A cancel flight ends its own claim; a cleanup flight touches no handle.
LEMMA ClaimFlightStep ==
    ASSUME TypeOK, FlightStep
    PROVE  ClaimShape
<1>1. ASSUME NEW f \in flights, NEW ok \in BOOLEAN, CleanupSettle(f, ok)
      PROVE  Bystander
  BY <1>1 DEF CleanupSettle, Bystander, Claiming
<1>2. ASSUME NEW x \in cancels, NEW ok \in BOOLEAN, CancelSettle(x, ok)
      PROVE  CancelEnds(x)
  <2>1. x.ctx \in Ctx
    BY DEF TypeOK, CancelRecord
  <2>2. \A d \in Ctx \ {x.ctx} : handle'[d] = handle[d]
    BY <1>2, <2>1 DEF CancelSettle, TakeClaim, TypeOK, tables
  <2> QED BY <1>2, <2>2 DEF CancelSettle, CancelEnds
<1> QED BY <1>1, <1>2 DEF FlightStep, ClaimShape

\* Every step of the manager keeps the inductive invariant.
LEMMA ClaimStep ==
    ASSUME ClaimInv, [Next]_vars
    PROVE  ClaimInv'
<1>1. TypeOK /\ GovRunning /\ ClaimExact /\ TableInv
  BY DEF ClaimInv, TableInv
<1>2. TableInv' /\ TypeOK'
  BY <1>1, TableStep DEF TableInv
<1>4. CASE Next
  <2>1. ASSUME NEW p \in Caller, NEW c \in Ctx,
               \/ \E r \in Request : CheckoutLock1(p, c, r) \/ ClaimLock1(p, c, r)
               \/ \E force \in BOOLEAN : Clear(p, c, force)
               \/ Compact(p, c)
        PROVE  ClaimShape
    BY <1>1, <2>1, ClaimCallStart
  <2>2. ASSUME NEW p \in Caller, CallStep(p) \/ DropCall(p)
        PROVE  ClaimShape
    BY <1>1, <2>2, ClaimCallStep
  <2>3. ASSUME NEW c \in Ctx, TableCall(c)
        PROVE  ClaimShape
    BY <1>1, <2>3, ClaimTableCall
  <2>4. ASSUME NEW o \in Op,
               \/ TurnPoll(o) \/ TurnComplete(o) \/ GovernedStep(o)
               \/ \E a \in {"finish", "expire"} : TurnExit(o, a)
        PROVE  ClaimShape
    BY <1>1, <2>4, ClaimTurnStep DEF ClaimShape
  <2>5. ASSUME FlightStep
        PROVE  ClaimShape
    BY <1>1, <2>5, ClaimFlightStep
  <2>6. ClaimShape
    BY <1>4, <2>1, <2>2, <2>3, <2>4, <2>5 DEF Next
  <2> QED BY <1>1, <1>2, <2>6, ClaimShapeKeeps DEF ClaimInv
<1>5. UNCHANGED vars => ClaimInv'
  BY <1>1, <1>2 DEF vars, ClaimInv, ClaimExact, Claiming
<1> QED BY <1>4, <1>5

\* The inductive invariant holds of an empty manager.
LEMMA ClaimInit == Init => ClaimInv
<1> SUFFICES ASSUME Init PROVE ClaimInv
  OBVIOUS
<1>1. ClaimExact
  BY DEF Init, ClaimExact, Claiming, NoCall
<1> QED BY <1>1, TableInit DEF ClaimInv

\* In every reachable state a call that claimed a handle, and a cancel flight, still find that
\* very handle in the state they claimed it in, and no two of them claim one context: the "still
\* ours" checks of checkout_turn, reset_session and compact_session after their awaits never fail.
THEOREM ClaimsExact == Spec => []ClaimExact
<1>1. ClaimInv => ClaimExact
  BY DEF ClaimInv
<1> QED BY <1>1, ClaimInit, ClaimStep, PTL DEF Spec

=============================================================================
