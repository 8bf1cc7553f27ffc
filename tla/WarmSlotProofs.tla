--------------------------- MODULE WarmSlotProofs ---------------------------
(***************************************************************************)
(* Every handle that is not free has its owner, a queued summary is not    *)
(* lost, and the manager implements the abstract SessionSlot, for any      *)
(* contexts, callers and bounds.                                           *)
(*                                                                         *)
(* Owners: a claiming call remembers the operation and the generation of   *)
(* its handle (KeyFit), and unless futures are dropped every claimed       *)
(* handle has such a call or a cancel flight (Tended).  A step is nobody's *)
(* claim (Aside), moves the claim of one call (ByCall) or of one cancel    *)
(* flight (ByCancel).                                                      *)
(*                                                                         *)
(* Slots: a step edits one handle in a context without a tombstone         *)
(* (Edits), swaps a handle for a tombstone (Takes) or moves a tombstone    *)
(* (Cleans).  SlotMove is what an edit may do to the slot, SeedMove what   *)
(* it may do to the summary waiting on the handle.                         *)
(***************************************************************************)
EXTENDS WarmLifeProofs

(* Owners *)

\* What a claiming call k remembers of its handle h besides its id.
KeyFit(k, h) ==
    /\ k.kind = "checkout" /\ k.pc = "configure" => k.op = h.op
    /\ k.kind \in {"clear", "compact"} =>
          /\ k.pc \in {"cancel_old", "release_old", "summarize"} => k.gen = h.gen
          /\ k.pc = "configure" => k.gen = h.gen + 1
KeysFit == \A p \in Caller : Claiming(p) => KeyFit(call[p], handle[call[p].ctx])

\* Every claimed handle has its owner, unless futures are dropped.
Tended(c) == \/ \E p \in Caller : Claiming(p) /\ call[p].ctx = c
             \/ \E x \in cancels : x.ctx = c
\* The inductive invariant about owners.
OwnInv ==
    /\ KeysFit
    /\ Droppable = {} => \A c \in Ctx : handle[c].state \in ClaimedStates => Tended(c)

\* A step on the handle of c that is nobody's claim: a claimed handle keeps its operation and
\* its generation, none becomes claimed, and calls return only before their claim.
Aside(c) ==
    /\ \A d \in Ctx \ {c} : handle'[d] = handle[d]
    /\ UNCHANGED cancels
    /\ handle[c].state \in ClaimedStates =>
          handle'[c].gen = handle[c].gen /\ handle'[c].op = handle[c].op
    /\ handle'[c].state \in ClaimedStates => handle[c].state \in ClaimedStates
    /\ \A q \in Caller : /\ Claiming(q)' => call'[q] = call[q]
                         /\ Claiming(q) /\ Droppable = {} => call'[q] = call[q]

\* Call p takes, moves or settles its claim on c.
ByCall(p, c) ==
    /\ \A d \in Ctx \ {c} : handle'[d] = handle[d]
    /\ \A q \in Caller \ {p} : call'[q] = call[q]
    /\ UNCHANGED cancels
    /\ IF Claiming(p) THEN call[p].ctx = c ELSE handle[c].state \notin ClaimedStates
    /\ IF Claiming(p)' THEN call'[p].ctx = c /\ KeyFit(call'[p], handle'[c])
                       ELSE handle'[c].state \notin ClaimedStates

\* A cancel flight takes or settles its claim on c.
ByCancel(c) ==
    /\ \A d \in Ctx \ {c} : handle'[d] = handle[d]
    /\ UNCHANGED call
    /\ handle[c].state \notin ClaimedStates \ {"Cancelling"}
    /\ \A x \in cancels : x.ctx # c => x \in cancels'
    /\ handle'[c].state \in ClaimedStates => \E x \in cancels' : x.ctx = c

\* Every step is one of these.
OwnShape ==
    \/ \E c \in Ctx : Aside(c) \/ ByCancel(c)
    \/ \E p \in Caller, c \in Ctx : ByCall(p, c)

\* Every shape of step keeps the claims owned.
LEMMA OwnShapeKeeps ==
    ASSUME TypeOK, TypeOK', ClaimExact, OwnInv, OwnShape
    PROVE  OwnInv'
<1>a. \A p \in Caller : call[p].ctx \in Ctx /\ call'[p].ctx \in Ctx
  BY DEF TypeOK, CallRecord
<1>b. \A p \in Caller : Claiming(p) => handle[call[p].ctx].state \in ClaimedStates \ {"Cancelling"}
  BY ClaimStatesClaimed DEF ClaimExact
<1>1. ASSUME NEW c \in Ctx, Aside(c)
      PROVE  OwnInv'
  <2>1. ASSUME NEW q \in Caller, Claiming(q)'
        PROVE  KeyFit(call'[q], handle'[call'[q].ctx])
    <3>1. call'[q] = call[q] /\ Claiming(q)
      BY <1>1, <2>1 DEF Aside, Claiming
    <3>2. KeyFit(call[q], handle[call[q].ctx])
      BY <3>1 DEF OwnInv, KeysFit
    <3>3. handle'[call[q].ctx].gen = handle[call[q].ctx].gen
          /\ handle'[call[q].ctx].op = handle[call[q].ctx].op
      BY <1>1, <1>a, <1>b, <3>1 DEF Aside
    <3> QED BY <3>1, <3>2, <3>3 DEF KeyFit
  <2>2. ASSUME NEW d \in Ctx, Droppable = {}, handle'[d].state \in ClaimedStates
        PROVE  Tended(d)'
    <3>1. handle[d].state \in ClaimedStates
      BY <1>1, <2>2 DEF Aside
    <3>2. Tended(d)
      BY <2>2, <3>1 DEF OwnInv
    <3> QED BY <1>1, <2>2, <3>2 DEF Aside, Tended, Claiming
  <2> QED BY <2>1, <2>2 DEF OwnInv, KeysFit
<1>2. ASSUME NEW p \in Caller, NEW c \in Ctx, ByCall(p, c)
      PROVE  OwnInv'
  <2>0. \A q \in Caller \ {p} : /\ call'[q] = call[q]
                                /\ Claiming(q)' <=> Claiming(q)
                                /\ Claiming(q) => call[q].ctx # c
    BY <1>2, <1>b DEF ByCall, Claiming, ClaimExact
  <2>1. ASSUME NEW q \in Caller, Claiming(q)'
        PROVE  KeyFit(call'[q], handle'[call'[q].ctx])
    <3>1. CASE q = p
      BY <1>2, <2>1, <3>1 DEF ByCall
    <3>2. CASE q # p
      <4>1. call'[q] = call[q] /\ Claiming(q) /\ handle'[call[q].ctx] = handle[call[q].ctx]
        BY <1>2, <1>a, <2>0, <2>1, <3>2 DEF ByCall
      <4> QED BY <4>1 DEF OwnInv, KeysFit
    <3> QED BY <3>1, <3>2
  <2>2. ASSUME NEW d \in Ctx, Droppable = {}, handle'[d].state \in ClaimedStates
        PROVE  Tended(d)'
    <3>1. CASE d = c
      <4>1. Claiming(p)' /\ call'[p].ctx = d
        BY <1>2, <2>2, <3>1 DEF ByCall
      <4> QED BY <4>1 DEF Tended
    <3>2. CASE d # c
      <4>1. Tended(d)
        BY <1>2, <2>2, <3>2 DEF ByCall, OwnInv
      <4>2. CASE \E x \in cancels : x.ctx = d
        BY <1>2, <4>2 DEF ByCall, Tended
      <4>3. ASSUME NEW q \in Caller, Claiming(q), call[q].ctx = d
            PROVE  Tended(d)'
        <5>1. q # p
          BY <1>2, <3>2, <4>3 DEF ByCall
        <5>2. Claiming(q)' /\ call'[q].ctx = d
          BY <2>0, <4>3, <5>1
        <5> QED BY <5>2 DEF Tended
      <4> QED BY <4>1, <4>2, <4>3 DEF Tended
    <3> QED BY <3>1, <3>2
  <2> QED BY <2>1, <2>2 DEF OwnInv, KeysFit
<1>3. ASSUME NEW c \in Ctx, ByCancel(c)
      PROVE  OwnInv'
  <2>0. \A q \in Caller : /\ call'[q] = call[q]
                          /\ Claiming(q)' <=> Claiming(q)
                          /\ Claiming(q) => call[q].ctx # c
    BY <1>3, <1>b DEF ByCancel, Claiming
  <2>1. ASSUME NEW q \in Caller, Claiming(q)'
        PROVE  KeyFit(call'[q], handle'[call'[q].ctx])
    <3>1. call'[q] = call[q] /\ Claiming(q) /\ handle'[call[q].ctx] = handle[call[q].ctx]
      BY <1>3, <1>a, <2>0, <2>1 DEF ByCancel
    <3> QED BY <3>1 DEF OwnInv, KeysFit
  <2>2. ASSUME NEW d \in Ctx, Droppable = {}, handle'[d].state \in ClaimedStates
        PROVE  Tended(d)'
    <3>1. CASE d = c
      BY <1>3, <2>2, <3>1 DEF ByCancel, Tended
    <3>2. CASE d # c
      <4>1. Tended(d)
        BY <1>3, <2>2, <3>2 DEF ByCancel, OwnInv
      <4> QED BY <1>3, <2>0, <3>2, <4>1 DEF ByCancel, Tended
    <3> QED BY <3>1, <3>2
  <2> QED BY <2>1, <2>2 DEF OwnInv, KeysFit
<1> QED BY <1>1, <1>2, <1>3 DEF OwnShape

\* Calls return, or go on without a claim.
CallsAside ==
    \A q \in Caller : /\ Claiming(q)' => call'[q] = call[q]
                      /\ Claiming(q) /\ Droppable = {} => call'[q] = call[q]

\* No call moves.
LEMMA CallsUnchanged ==
    ASSUME UNCHANGED call
    PROVE  CallsAside
  BY DEF CallsAside, Claiming

\* A call returns that has no claim, or whose future was dropped.
LEMMA CallsReturn ==
    ASSUME TypeOK, NEW p \in Caller, Return(p), ~Claiming(p) \/ Droppable # {}
    PROVE  CallsAside
  BY DEF CallsAside, Claiming, Return, NoCall, TypeOK

\* A step that neither finds nor leaves the handle of c claimed, or keeps what a claim needs.
LEMMA AsideCases ==
    ASSUME NEW c \in Ctx, \A d \in Ctx \ {c} : handle'[d] = handle[d], UNCHANGED cancels,
           CallsAside,
           \/ handle[c].state \notin ClaimedStates /\ handle'[c].state \notin ClaimedStates
           \/ /\ handle'[c].state = handle[c].state
              /\ handle'[c].gen = handle[c].gen /\ handle'[c].op = handle[c].op
    PROVE  OwnShape
  BY DEF Aside, CallsAside, OwnShape

\* A step that leaves every handle alone.
LEMMA AsideStill ==
    ASSUME UNCHANGED <<handle, cancels>>, CallsAside
    PROVE  OwnShape
<1>1. PICK c \in Ctx : TRUE
  BY ConstantsAssumption
<1> QED BY <1>1, AsideCases

\* An unclaimed handle leaves the table.
LEMMA AsideTakes ==
    ASSUME TypeOK, NEW c \in Ctx, NEW o, NEW n, NEW t, TakeClaim(c, o, n, t), UNCHANGED cancels,
           CallsAside, handle[c].state \notin ClaimedStates
    PROVE  OwnShape
<1>1. handle'[c] = NoHandle /\ \A d \in Ctx \ {c} : handle'[d] = handle[d]
  BY DEF TakeClaim, TypeOK
<1>2. NoHandle.state \notin ClaimedStates
  BY DEF NoHandle, ClaimedStates
<1> QED BY <1>1, <1>2, AsideCases

\* A turn is minted on an unclaimed handle.
LEMMA AsideMints ==
    ASSUME TypeOK, NEW c \in Ctx, NEW h \in HandleRecord, NEW t, MintTurn(c, h, t),
           UNCHANGED cancels, CallsAside, handle[c].state \notin ClaimedStates
    PROVE  OwnShape
<1>1. handle'[c].state = "Running" /\ \A d \in Ctx \ {c} : handle'[d] = handle[d]
  BY DEF MintTurn, TypeOK, HandleRecord
<1>2. "Running" \notin ClaimedStates
  BY DEF ClaimedStates
<1> QED BY <1>1, <1>2, AsideCases

\* The first lock hold of a call.
LEMMA OwnCallStart ==
    ASSUME TypeOK, NEW p \in Caller, NEW c \in Ctx,
           \/ \E r \in Request : CheckoutLock1(p, c, r) \/ ClaimLock1(p, c, r)
           \/ \E force \in BOOLEAN : Clear(p, c, force)
           \/ Compact(p, c)
    PROVE  OwnShape
<1>a. handle[c] \in HandleRecord /\ NoCall \in CallRecord
  BY EmptyRecords DEF TypeOK
<1>1. ASSUME NEW r \in Request, CheckoutLock1(p, c, r) \/ ClaimLock1(p, c, r)
      PROVE  OwnShape
  <2>1. \A q \in Caller \ {p} : call'[q] = call[q]
    BY <1>1 DEF CheckoutLock1, ClaimLock1, TypeOK
  <2>2. call[p].pc = "ready" /\ UNCHANGED <<handle, cancels>>
    BY <1>1 DEF CheckoutLock1, ClaimLock1, tables
  <2>3. call'[p].pc = "resolve"
    <3>1. CASE CheckoutLock1(p, c, r)
      BY <3>1, <1>a DEF CheckoutLock1, TypeOK, CallRecord
    <3>2. CASE ClaimLock1(p, c, r)
      BY <3>2, <1>a DEF ClaimLock1, TypeOK, CallRecord
    <3> QED BY <1>1, <3>1, <3>2
  <2>4. CallsAside
    BY <2>1, <2>2, <2>3 DEF CallsAside, Claiming
  <2> QED BY <2>2, <2>4, AsideStill
<1>2. ASSUME NEW force \in BOOLEAN, Clear(p, c, force)
      PROVE  OwnShape
  <2>1. handle[c].state \notin ClaimedStates /\ UNCHANGED cancels /\ call[p].pc = "ready"
    BY <1>2 DEF Clear, ClaimedStates
  <2>2. handle'[c].gen = handle[c].gen /\ \A d \in Ctx \ {c} : handle'[d] = handle[d]
    BY <1>2, <1>a DEF Clear, TypeOK, HandleRecord
  <2>3. /\ call'[p].kind = "clear" /\ call'[p].ctx = c /\ call'[p].gen = handle[c].gen
        /\ call'[p].pc \in {"cancel_old", "release_old"}
        /\ \A q \in Caller \ {p} : call'[q] = call[q]
    BY <1>2, <1>a DEF Clear, TypeOK, CallRecord
  <2>4. ByCall(p, c)
    BY <2>1, <2>2, <2>3 DEF ByCall, KeyFit, Claiming
  <2> QED BY <2>4 DEF OwnShape
<1>3. CASE Compact(p, c)
  <2>1. handle[c].state \notin ClaimedStates /\ UNCHANGED cancels /\ call[p].pc = "ready"
    BY <1>3 DEF Compact, Compactable, ClaimedStates
  <2>2. handle'[c].gen = handle[c].gen /\ \A d \in Ctx \ {c} : handle'[d] = handle[d]
    BY <1>3, <1>a DEF Compact, TypeOK, HandleRecord
  <2>3. /\ call'[p].kind = "compact" /\ call'[p].pc = "summarize"
        /\ call'[p].ctx = c /\ call'[p].gen = handle[c].gen
        /\ \A q \in Caller \ {p} : call'[q] = call[q]
    BY <1>3, <1>a DEF Compact, TypeOK, CallRecord
  <2>4. ByCall(p, c)
    BY <2>1, <2>2, <2>3 DEF ByCall, KeyFit, Claiming
  <2> QED BY <2>4 DEF OwnShape
<1> QED BY <1>1, <1>2, <1>3

\* The later lock holds of the calls, and a dropped future.
LEMMA OwnCallStep ==
    ASSUME TypeOK, ClaimExact, OwnInv, NEW p \in Caller, CallStep(p) \/ DropCall(p)
    PROVE  OwnShape
<1>c. PICK c \in Ctx : c = call[p].ctx
  BY DEF TypeOK, CallRecord
<1> DEFINE k == call[p]  h == handle[c]  g == handle'[c]  j == call'[p]
<1>a. k \in CallRecord /\ h \in HandleRecord /\ h.aborts \subseteq Op
  BY DEF TypeOK, CallRecord, HandleRecord
<1>e. Claiming(p) => h.id = k.id /\ h.state \in ClaimStates(k) /\ KeyFit(k, h)
  BY <1>c DEF ClaimExact, OwnInv, KeysFit
<1>r. ASSUME Return(p)
      PROVE  ~Claiming(p)' /\ \A q \in Caller \ {p} : call'[q] = call[q]
  BY <1>r DEF Return, Claiming, NoCall, TypeOK
\* A claiming call returns and leaves the handle unclaimed.
<1>s. ASSUME Claiming(p), Return(p), UNCHANGED cancels, g.state \notin ClaimedStates,
             \A d \in Ctx \ {c} : handle'[d] = handle[d]
      PROVE  OwnShape
  <2>1. ByCall(p, c)
    BY <1>c, <1>r, <1>s DEF ByCall
  <2> QED BY <2>1 DEF OwnShape
\* A call takes its claim or goes on with it.
<1>g. ASSUME h.state \notin ClaimedStates \/ Claiming(p), Claiming(p)', UNCHANGED cancels,
             \A d \in Ctx \ {c} : handle'[d] = handle[d],
             \A q \in Caller \ {p} : call'[q] = call[q],
             j.ctx = c, KeyFit(j, g)
      PROVE  OwnShape
  <2>1. ByCall(p, c)
    BY <1>c, <1>g DEF ByCall
  <2> QED BY <2>1 DEF OwnShape
<1>u. "Running" \notin ClaimedStates /\ "Idle" \notin ClaimedStates /\ "Absent" \notin ClaimedStates
  BY DEF ClaimedStates
<1>1. CASE ResolveFails(p) \/ CheckoutRefused(p) \/ DropCall(p)
  <2>1. Return(p) /\ UNCHANGED <<handle, cancels>>
    BY <1>1 DEF ResolveFails, CheckoutRefused, DropCall, tables
  <2>2. ~Claiming(p) \/ Droppable # {}
    BY <1>1 DEF ResolveFails, CheckoutRefused, DropCall, Claiming
  <2> QED BY <2>1, <2>2, CallsReturn, AsideStill
<1>2. CASE CancelOld(p) \/ ReleasedOld(p)
  <2>1. Claiming(p) /\ UNCHANGED <<handle, cancels>>
    BY <1>2 DEF CancelOld, ReleasedOld, Claiming, tables
  <2>2. h.gen \in Nat /\ k.gen \in Nat
    BY <1>a DEF HandleRecord, CallRecord
  <2>3. CASE CancelOld(p)
    <3>1. /\ k.kind = "clear" /\ k.pc = "cancel_old"
          /\ call' = [call EXCEPT ![p].pc = "release_old"]
      BY <2>3 DEF CancelOld
    <3>2. j.kind = "clear" /\ j.pc = "release_old" /\ j.gen = k.gen /\ j.ctx = k.ctx
          /\ \A q \in Caller \ {p} : call'[q] = call[q]
      BY <1>a, <3>1 DEF TypeOK, CallRecord
    <3>3. KeyFit(j, g) /\ Claiming(p)'
      BY <1>e, <2>1, <3>1, <3>2 DEF KeyFit, Claiming
    <3> QED BY <1>c, <1>g, <2>1, <3>2, <3>3
  <2>4. CASE ReleasedOld(p)
    <3>1. /\ k.kind \in {"clear", "compact"} /\ k.pc = "release_old"
          /\ call' = [call EXCEPT ![p].pc = "configure", ![p].gen = @ + 1]
      BY <2>4 DEF ReleasedOld
    <3>2. j.kind = k.kind /\ j.pc = "configure" /\ j.gen = k.gen + 1 /\ j.ctx = k.ctx
          /\ \A q \in Caller \ {p} : call'[q] = call[q]
      BY <1>a, <3>1 DEF TypeOK, CallRecord
    <3>3. KeyFit(j, g) /\ Claiming(p)'
      BY <1>e, <2>1, <3>1, <3>2 DEF KeyFit, Claiming
    <3> QED BY <1>c, <1>g, <2>1, <3>2, <3>3
  <2> QED BY <1>2, <2>3, <2>4
<1>3. CASE CheckoutExpiresArmed(p)
  <2>1. /\ \E o : TakeClaim(c, o, nextClaim, turn)
        /\ h.state \notin ClaimedStates /\ Return(p) /\ UNCHANGED cancels /\ ~Claiming(p)
    BY <1>3, <1>c DEF CheckoutExpiresArmed, Lock2Refuses, ClaimedStates,
                      take_expiry_claim_locked, Claiming
  <2> QED BY <2>1, CallsReturn, AsideTakes
<1>4. CASE CheckoutReuse(p)
  <2>1. /\ MintTurn(c, h, reserve_successor(turn, h.aborts))
        /\ h.state \notin ClaimedStates /\ Return(p) /\ UNCHANGED cancels /\ ~Claiming(p)
    BY <1>4, <1>c DEF CheckoutReuse, Lock2Refuses, ClaimedStates, Claiming
  <2> QED BY <1>a, <2>1, CallsReturn, AsideMints
<1>5. CASE CheckoutReconcile(p)
  <2>1. /\ h.state \notin ClaimedStates /\ UNCHANGED cancels /\ k.kind = "checkout"
        /\ \A d \in Ctx \ {c} : handle'[d] = handle[d]
        /\ call' = [call EXCEPT ![p].pc = "reconcile", ![p].id = h.id, ![p].gen = h.gen]
    BY <1>5, <1>c DEF CheckoutReconcile, Lock2Refuses, ClaimedStates, TypeOK
  <2>2. j.kind = "checkout" /\ j.pc = "reconcile" /\ j.ctx = k.ctx
        /\ \A q \in Caller \ {p} : call'[q] = call[q]
    BY <1>a, <2>1 DEF TypeOK, CallRecord
  <2>3. KeyFit(j, g) /\ Claiming(p)'
    BY <2>2 DEF KeyFit, Claiming
  <2> QED BY <1>c, <1>g, <2>1, <2>2, <2>3
<1>6. CASE CheckoutFresh(p)
  <2> DEFINE nh == [NoHandle EXCEPT !.id = nextId, !.state = "Configuring",
                                    !.fp = k.fp, !.op = nextOp]
  <2>1. /\ h.state \notin ClaimedStates /\ UNCHANGED cancels /\ k.kind = "checkout"
        /\ handle' = [handle EXCEPT ![c] = nh]
        /\ call' = [call EXCEPT ![p].pc = "configure", ![p].id = nextId, ![p].gen = 0,
                                ![p].op = nextOp]
    BY <1>6, <1>c DEF CheckoutFresh, live, ClaimedStates
  <2>2. j.kind = "checkout" /\ j.pc = "configure" /\ j.ctx = k.ctx /\ j.op = nextOp
        /\ \A q \in Caller \ {p} : call'[q] = call[q]
    BY <1>a, <2>1 DEF TypeOK, CallRecord
  <2>3. nh.op = nextOp
    BY DEF NoHandle
  <2> HIDE DEF nh
  <2>4. g.op = nextOp /\ \A d \in Ctx \ {c} : handle'[d] = handle[d]
    BY <2>1, <2>3 DEF TypeOK
  <2>5. KeyFit(j, g) /\ Claiming(p)'
    BY <2>2, <2>4 DEF KeyFit, Claiming
  <2> QED BY <1>c, <1>g, <2>1, <2>2, <2>4, <2>5
<1>7. ASSUME NEW ok \in BOOLEAN, ReconcileSettle(p, ok)
      PROVE  OwnShape
  <2>0. k.kind = "checkout" /\ k.pc = "reconcile" /\ Claiming(p) /\ UNCHANGED cancels
    BY <1>7 DEF ReconcileSettle, Claiming
  <2>1. still_ours(k, "Reconciling")
    BY <1>c, <1>e, <2>0 DEF still_ours, ClaimStates
  <2>2. CASE ok /\ ~h.expire
    <3> DEFINE nh == [h EXCEPT !.fp = k.fp]
    <3>1. MintTurn(c, nh, turn) /\ Return(p)
      BY <1>7, <1>c, <2>1, <2>2 DEF ReconcileSettle
    <3>2. nh \in HandleRecord
      BY <1>a DEF HandleRecord, CallRecord
    <3> HIDE DEF nh
    <3>3. g.state = "Running" /\ \A d \in Ctx \ {c} : handle'[d] = handle[d]
      BY <3>1, <3>2 DEF MintTurn, TypeOK, HandleRecord
    <3> QED BY <1>s, <1>u, <2>0, <3>1, <3>3
  <2>3. CASE ~(ok /\ ~h.expire)
    <3>1. /\ call' = [call EXCEPT ![p].pc = "teardown", ![p].ok = TRUE]
          /\ \A d \in Ctx \ {c} : handle'[d] = handle[d]
      BY <1>7, <1>c, <2>1, <2>3 DEF ReconcileSettle, TypeOK
    <3>2. j.kind = k.kind /\ j.pc = "teardown" /\ j.ctx = k.ctx
          /\ \A q \in Caller \ {p} : call'[q] = call[q]
      BY <1>a, <3>1 DEF TypeOK, CallRecord
    <3>3. KeyFit(j, g) /\ Claiming(p)'
      BY <3>2 DEF KeyFit, Claiming
    <3> QED BY <1>c, <1>g, <2>0, <3>1, <3>2, <3>3
  <2> QED BY <2>2, <2>3
<1>8. ASSUME NEW ok \in BOOLEAN, ConfigureSettle(p, ok)
      PROVE  OwnShape
  <2>0. k.kind = "checkout" /\ k.pc = "configure" /\ Claiming(p) /\ UNCHANGED cancels
    BY <1>8 DEF ConfigureSettle, Claiming
  <2>1. still_ours(k, "Configuring") /\ h.op = k.op
    BY <1>c, <1>e, <2>0 DEF still_ours, ClaimStates, KeyFit
  <2>2. CASE h.expire
    <3>1. /\ call' = [call EXCEPT ![p].pc = "teardown", ![p].ok = ok]
          /\ \A d \in Ctx \ {c} : handle'[d] = handle[d]
      BY <1>8, <1>c, <2>1, <2>2 DEF ConfigureSettle, TypeOK
    <3>2. j.kind = k.kind /\ j.pc = "teardown" /\ j.ctx = k.ctx
          /\ \A q \in Caller \ {p} : call'[q] = call[q]
      BY <1>a, <3>1 DEF TypeOK, CallRecord
    <3>3. KeyFit(j, g) /\ Claiming(p)'
      BY <3>2 DEF KeyFit, Claiming
    <3> QED BY <1>c, <1>g, <2>0, <3>1, <3>2, <3>3
  <2>3. CASE ~h.expire /\ ok
    <3>1. MintTurn(c, h, turn) /\ Return(p)
      BY <1>8, <1>c, <2>1, <2>3 DEF ConfigureSettle
    <3>2. g.state = "Running" /\ \A d \in Ctx \ {c} : handle'[d] = handle[d]
      BY <1>a, <3>1 DEF MintTurn, TypeOK, HandleRecord
    <3> QED BY <1>s, <1>u, <2>0, <3>1, <3>2
  <2>4. CASE ~h.expire /\ ~ok
    <3>1. handle' = [handle EXCEPT ![c] = NoHandle] /\ Return(p)
      BY <1>8, <1>c, <2>1, <2>4 DEF ConfigureSettle
    <3>2. g.state = "Absent" /\ \A d \in Ctx \ {c} : handle'[d] = handle[d]
      BY <3>1 DEF TypeOK, NoHandle
    <3> QED BY <1>s, <1>u, <2>0, <3>1, <3>2
  <2> QED BY <2>2, <2>3, <2>4
<1>9. CASE CheckoutTeardown(p) \/ ClearTeardown(p) \/ CompactTeardown(p)
  <2>1. /\ k.pc = "teardown" /\ handle' = [handle EXCEPT ![c] = NoHandle] /\ Return(p)
        /\ UNCHANGED cancels
    BY <1>9, <1>c DEF CheckoutTeardown, ClearTeardown, CompactTeardown, RemoveAfterRelease
  <2>2. g.state = "Absent" /\ (\A d \in Ctx \ {c} : handle'[d] = handle[d]) /\ Claiming(p)
    BY <2>1 DEF TypeOK, NoHandle, Claiming
  <2> QED BY <1>s, <1>u, <2>1, <2>2
<1>10. CASE ClaimLock2(p)
  <2>1. Return(p) /\ UNCHANGED cancels /\ ~Claiming(p)
    BY <1>10 DEF ClaimLock2, Claiming
  <2>2. CASE live(c) \/ tomb[c].state # "None"
    <3>1. UNCHANGED handle
      BY <1>10, <1>c, <2>2 DEF ClaimLock2
    <3> QED BY <2>1, <3>1, CallsReturn, AsideStill
  <2>3. CASE ~(live(c) \/ tomb[c].state # "None")
    <3> DEFINE nh == [NoHandle EXCEPT !.id = nextId, !.fp = k.fp]
               nh2 == [nh EXCEPT !.state = "Running", !.op = nextOp, !.gov = "claimed"]
    <3>2. handle' = [handle EXCEPT ![c] = nh2] /\ h.state \notin ClaimedStates
      BY <1>10, <1>c, <1>u, <2>3 DEF ClaimLock2, GovernedClaim, live
    <3>3. nh2.state = "Running"
      <4>1. nh \in HandleRecord
        BY <1>a, EmptyRecords DEF HandleRecord, CallRecord, TypeOK
      <4> HIDE DEF nh
      <4> QED BY <4>1 DEF HandleRecord
    <3> HIDE DEF nh2
    <3>1. /\ h.state \notin ClaimedStates /\ g.state = "Running"
          /\ \A d \in Ctx \ {c} : handle'[d] = handle[d]
      BY <3>2, <3>3 DEF TypeOK
    <3> QED BY <1>u, <2>1, <3>1, CallsReturn, AsideCases
  <2> QED BY <2>2, <2>3
<1>11. ASSUME NEW ok \in BOOLEAN, NEW kind \in {"clear", "compact"}, NEW state,
              state = IF kind = "clear" THEN "Resetting" ELSE "Compacting",
              RenewSettle(p, ok, kind, state)
       PROVE  OwnShape
  <2>0. k.kind = kind /\ k.pc = "configure" /\ Claiming(p) /\ UNCHANGED cancels
    BY <1>11 DEF RenewSettle, Claiming
  <2>1. still_ours(k, state)
    BY <1>c, <1>e, <1>11, <2>0 DEF still_ours, ClaimStates
  <2>2. CASE Commits(ok, h)
    <3>1. Return(p) /\ \A d \in Ctx \ {c} : handle'[d] = handle[d]
      BY <1>11, <1>c, <2>1, <2>2 DEF RenewSettle, TypeOK
    <3>2. g.state = "Idle"
      <4> DEFINE sd == IF kind = "compact" THEN k.gen ELSE NoSeed
                 inj == IF kind = "compact" THEN h.injects ELSE FALSE
                 nh == [h EXCEPT !.gen = k.gen, !.op = NoOp, !.aborts = {}, !.state = "Idle",
                                 !.seed = sd, !.injects = inj]
      <4>1. handle' = [handle EXCEPT ![c] = nh]
        BY <1>11, <1>c, <2>1, <2>2 DEF RenewSettle
      <4>2. nh.state = "Idle"
        <5> HIDE DEF sd, inj
        <5> QED BY <1>a DEF HandleRecord
      <4> HIDE DEF nh
      <4> QED BY <4>1, <4>2 DEF TypeOK
    <3> QED BY <1>s, <1>u, <2>0, <3>1, <3>2
  <2>3. CASE ~Commits(ok, h)
    <3>1. call' = [call EXCEPT ![p].pc = "teardown", ![p].ok = ok] /\ UNCHANGED handle
      BY <1>11, <1>c, <2>1, <2>3 DEF RenewSettle
    <3>2. j.kind = k.kind /\ j.pc = "teardown" /\ j.ctx = k.ctx
          /\ \A q \in Caller \ {p} : call'[q] = call[q]
      BY <1>a, <3>1 DEF TypeOK, CallRecord
    <3>3. KeyFit(j, g) /\ Claiming(p)'
      BY <3>2 DEF KeyFit, Claiming
    <3> QED BY <1>c, <1>g, <2>0, <3>1, <3>2, <3>3
  <2> QED BY <2>2, <2>3
<1>12. ASSUME NEW ok \in BOOLEAN, Summarized(p, ok)
       PROVE  OwnShape
  <2>0. k.kind = "compact" /\ k.pc = "summarize" /\ Claiming(p) /\ UNCHANGED cancels
    BY <1>12 DEF Summarized, Claiming
  <2>1. still_ours(k, "Compacting")
    BY <1>c, <1>e, <2>0 DEF still_ours, ClaimStates
  <2>2. CASE ok
    <3>1. call' = [call EXCEPT ![p].pc = "release_old"] /\ UNCHANGED handle
      BY <1>12, <2>2 DEF Summarized
    <3>2. j.kind = k.kind /\ j.pc = "release_old" /\ j.ctx = k.ctx /\ j.gen = k.gen
          /\ \A q \in Caller \ {p} : call'[q] = call[q]
      BY <1>a, <3>1 DEF TypeOK, CallRecord
    <3>3. KeyFit(j, g) /\ Claiming(p)'
      BY <1>e, <2>0, <3>1, <3>2 DEF KeyFit, Claiming
    <3> QED BY <1>c, <1>g, <2>0, <3>1, <3>2, <3>3
  <2>3. CASE ~ok
    <3>1. /\ call' = [call EXCEPT ![p].pc = "teardown", ![p].ok = TRUE]
          /\ \A d \in Ctx \ {c} : handle'[d] = handle[d]
      BY <1>12, <1>c, <2>1, <2>3 DEF Summarized, TypeOK
    <3>2. j.kind = k.kind /\ j.pc = "teardown" /\ j.ctx = k.ctx
          /\ \A q \in Caller \ {p} : call'[q] = call[q]
      BY <1>a, <3>1 DEF TypeOK, CallRecord
    <3>3. KeyFit(j, g) /\ Claiming(p)'
      BY <3>2 DEF KeyFit, Claiming
    <3> QED BY <1>c, <1>g, <2>0, <3>1, <3>2, <3>3
  <2> QED BY <2>2, <2>3
<1>13. ASSUME NEW ok \in BOOLEAN, ClearSettle(p, ok) \/ CompactSettle(p, ok)
       PROVE  OwnShape
  BY <1>11, <1>13 DEF ClearSettle, CompactSettle
<1> QED BY <1>1, <1>2, <1>3, <1>4, <1>5, <1>6, <1>7, <1>8, <1>9, <1>10, <1>12, <1>13 DEF CallStep

\* An assignment to the handle of c by somebody who claims nothing.
LEMMA HandleAside ==
    ASSUME TypeOK, UNCHANGED <<cancels, call>>, NEW c \in Ctx, NEW nh,
           handle' = [handle EXCEPT ![c] = nh],
           handle[c].state \in ClaimedStates => nh.gen = handle[c].gen /\ nh.op = handle[c].op,
           nh.state \in ClaimedStates => handle[c].state \in ClaimedStates
    PROVE  OwnShape
<1>1. handle'[c] = nh /\ \A d \in Ctx \ {c} : handle'[d] = handle[d]
  BY DEF TypeOK
<1>2. Aside(c)
  BY <1>1 DEF Aside, Claiming
<1> QED BY <1>2 DEF OwnShape

\* The completion guard and the governed claims neither take nor move a claim.
LEMMA OwnTurnStep ==
    ASSUME TypeOK, GovRunning, NEW o \in Op,
           \/ TurnPoll(o) \/ TurnComplete(o) \/ GovernedStep(o)
           \/ \E a \in {"finish", "expire"} : TurnExit(o, a)
    PROVE  OwnShape
<1>z. PICK c \in Ctx : c = turn[o].ctx
  BY DEF TypeOK, TurnRecord
<1> DEFINE t == turn[o]  h == handle[c]
<1>a. h \in HandleRecord /\ "Idle" \notin ClaimedStates /\ "Absent" \notin ClaimedStates
  BY DEF TypeOK, ClaimedStates
<1>b. ASSUME UNCHANGED <<handle, cancels, call>>
      PROVE  OwnShape
  BY <1>b, CallsUnchanged, AsideStill
<1>c. ASSUME h.state \notin ClaimedStates, UNCHANGED <<cancels, call>>,
             take_expiry_claim_locked(c, o, done(o))
      PROVE  OwnShape
  BY <1>c, CallsUnchanged, AsideTakes DEF take_expiry_claim_locked
<1>d. ASSUME NEW e, handle' = [handle EXCEPT ![c].expire = e], UNCHANGED <<cancels, call>>
      PROVE  OwnShape
  <2> DEFINE nh == [h EXCEPT !.expire = e]
  <2>1. nh.state = h.state /\ nh.gen = h.gen /\ nh.op = h.op
    BY <1>a DEF HandleRecord
  <2>2. handle' = [handle EXCEPT ![c] = nh]
    BY <1>d
  <2> HIDE DEF nh
  <2> QED BY <1>d, <2>1, <2>2, HandleAside
<1>e. h.gov # "none" => h.state \notin ClaimedStates
  BY DEF GovRunning, ClaimedStates
<1>1. CASE TurnPoll(o) \/ Admit(o) \/ Rollback(o) \/ ApplyLock1(o)
  BY <1>1, <1>b DEF TurnPoll, Admit, Rollback, ApplyLock1, tables
<1>2. ASSUME NEW a \in {"finish", "expire"}, TurnExit(o, a)
      PROVE  OwnShape
  BY <1>2, <1>b DEF TurnExit, tables
<1>3. CASE finish_owned_turn(o)
  <2> DEFINE current == live(c) /\ h.gen = t.gen
             owner == current /\ h.op = o
             ready == owner /\ h.gov = "ready"
             gov == gov_after_finish(h, ready)
             idle == owner /\ gov = "none" /\ h.state = "Running"
             s == IF idle THEN "Idle" ELSE h.state
             n == IF idle THEN NoOp ELSE h.op
             nh == [h EXCEPT !.gov = gov, !.aborts = h.aborts \ {o}, !.state = s, !.op = n]
  <2>0. UNCHANGED <<cancels, call>>
    BY <1>3 DEF finish_owned_turn
  <2>1. CASE ready /\ h.expire
    BY <1>3, <1>z, <2>0, <2>1, <1>c, <1>e DEF finish_owned_turn
  <2>2. CASE ~(ready /\ h.expire)
    <3>1. handle' = [handle EXCEPT ![c] = IF current THEN nh ELSE h]
      BY <1>3, <1>z, <2>2 DEF finish_owned_turn
    <3>2. /\ h.state \in ClaimedStates => s = h.state /\ n = h.op
          /\ s \in ClaimedStates => h.state \in ClaimedStates
      BY DEF ClaimedStates
    <3>3. nh.gen = h.gen /\ nh.state = s /\ nh.op = n
      <4> HIDE DEF gov, s, n
      <4> QED BY <1>a DEF HandleRecord
    <3> HIDE DEF nh, s, n, current
    <3> QED BY <2>0, <3>1, <3>2, <3>3, HandleAside
  <2> QED BY <2>1, <2>2
<1>4. CASE begin_expire_current(o)
  <2>0. UNCHANGED <<cancels, call>>
    BY <1>4 DEF begin_expire_current
  <2>1. CASE h.state \notin ClaimedStates /\ take_expiry_claim_locked(c, o, done(o))
    BY <2>0, <2>1, <1>c
  <2>2. CASE ~(h.state \notin ClaimedStates /\ take_expiry_claim_locked(c, o, done(o)))
    <3>1. \E e : handle' = [handle EXCEPT ![c].expire = e]
      BY <1>4, <1>z, <2>2 DEF begin_expire_current, ClaimedStates
    <3> QED BY <2>0, <3>1, <1>d
  <2> QED BY <2>1, <2>2
<1>5. ASSUME NEW ok \in BOOLEAN, ApplyLock2(o, ok)
      PROVE  OwnShape
  <2>0. UNCHANGED <<cancels, call>>
    BY <1>5 DEF ApplyLock2
  <2>1. CASE ok /\ Applicable(o)
    <3> DEFINE nh == [h EXCEPT !.fp = t.fp, !.gov = "ready", !.aborts = h.aborts \cup {o},
                               !.seed = NoSeed, !.injects = FALSE]
    <3>1. handle' = [handle EXCEPT ![c] = nh]
      BY <1>5, <1>z, <2>1 DEF ApplyLock2
    <3>2. nh.state = h.state /\ nh.gen = h.gen /\ nh.op = h.op
      BY <1>a DEF HandleRecord
    <3> HIDE DEF nh
    <3> QED BY <2>0, <3>1, <3>2, HandleAside
  <2>2. CASE ~(ok /\ Applicable(o))
    BY <1>5, <2>0, <2>2, <1>b DEF ApplyLock2
  <2> QED BY <2>1, <2>2
<1>6. CASE GovernedSettle(o)
  <2>0. UNCHANGED <<cancels, call>>
    BY <1>6 DEF GovernedSettle
  <2>1. CASE ~owns(o)
    <3>1. UNCHANGED handle
      BY <1>6, <1>z, <2>1 DEF GovernedSettle, TypeOK
    <3> QED BY <1>b, <2>0, <3>1
  <2>2. CASE owns(o)
    <3> DEFINE nh == [h EXCEPT !.state = "Idle", !.op = NoOp, !.gov = "none"]
    <3>1. h.state \notin ClaimedStates
      BY <1>e, <1>z, <2>2 DEF owns
    <3>2. \/ take_expiry_claim_locked(c, o, done(o))
          \/ handle' = [handle EXCEPT ![c] = NoHandle]
          \/ handle' = [handle EXCEPT ![c] = nh]
      BY <1>6, <1>z, <2>2 DEF GovernedSettle
    <3>3. nh.state = "Idle" /\ NoHandle.state = "Absent"
      BY <1>a DEF HandleRecord, NoHandle
    <3> HIDE DEF nh
    <3> QED BY <1>a, <1>c, <2>0, <3>1, <3>2, <3>3, HandleAside
  <2> QED BY <2>1, <2>2
<1>7. CASE FirstPoll(o)
  <2>0. UNCHANGED <<cancels, call>>
    BY <1>7 DEF FirstPoll
  <2> DEFINE nh == [h EXCEPT !.gov = "none"]
  <2>1. \/ \E e : handle' = [handle EXCEPT ![c].expire = e]
        \/ handle' = [handle EXCEPT ![c] = nh]
    BY <1>7, <1>z DEF FirstPoll
  <2>2. nh.state = h.state /\ nh.gen = h.gen /\ nh.op = h.op
    BY <1>a DEF HandleRecord
  <2> HIDE DEF nh
  <2> QED BY <1>d, <2>0, <2>1, <2>2, HandleAside
<1> QED BY <1>1, <1>2, <1>3, <1>4, <1>5, <1>6, <1>7 DEF TurnComplete, GovernedStep

\* The operations of one lock hold defer to a claim; SessionCancel starts its own.
LEMMA OwnTableCall ==
    ASSUME TypeOK, NEW c \in Ctx, TableCall(c)
    PROVE  OwnShape
<1> DEFINE h == handle[c]  g == handle'[c]
<1>a. h \in HandleRecord
  BY DEF TypeOK
<1>b. ASSUME NEW o, h.state \notin ClaimedStates, UNCHANGED <<cancels, call>>,
             take_expiry_claim_locked(c, o, turn)
      PROVE  OwnShape
  BY <1>b, CallsUnchanged, AsideTakes DEF take_expiry_claim_locked
<1>c. ASSUME g.state = h.state, g.gen = h.gen, g.op = h.op, UNCHANGED <<cancels, call>>,
             \A d \in Ctx \ {c} : handle'[d] = handle[d]
      PROVE  OwnShape
  BY <1>c, CallsUnchanged, AsideCases
<1>1. CASE ExpireArmedIdle(c)
  <2>1. /\ \E o \in ArmedOps(h) : take_expiry_claim_locked(c, o, turn)
        /\ h.state \notin ClaimedStates /\ UNCHANGED <<cancels, call>>
    BY <1>1 DEF ExpireArmedIdle, ClaimedStates
  <2> QED BY <1>b, <2>1
<1>2. CASE CheckoutExisting(c)
  <2>1. /\ MintTurn(c, h, reserve_successor(turn, h.aborts))
        /\ h.state \notin ClaimedStates /\ UNCHANGED <<cancels, call>>
    BY <1>2 DEF CheckoutExisting, ClaimedStates
  <2> QED BY <1>a, <2>1, CallsUnchanged, AsideMints
<1>3. CASE \/ ReleaseGoverned(c) \/ CancelGoverned(c) \/ ClearGoverned(c)
           \/ ReleaseDeferred(c) \/ CancelDeferred(c) \/ ClearConfiguring(c)
  <2>1. /\ \E e : handle' = [handle EXCEPT ![c].expire = e]
        /\ UNCHANGED <<cancels, call>>
    BY <1>3 DEF ReleaseGoverned, CancelGoverned, ClearGoverned, ReleaseDeferred, CancelDeferred,
                ClearConfiguring, AbortGoverned, DeferExpiry
  <2>2. g.state = h.state /\ g.gen = h.gen /\ g.op = h.op
        /\ \A d \in Ctx \ {c} : handle'[d] = handle[d]
    BY <1>a, <2>1 DEF TypeOK, HandleRecord
  <2> QED BY <1>c, <2>1, <2>2
<1>4. CASE Release(c) \/ Reap(c)
  <2>1. /\ take_expiry_claim_locked(c, h.op, turn)
        /\ h.state \notin ClaimedStates /\ UNCHANGED <<cancels, call>>
    BY <1>4 DEF Release, Reap, is_claimed, ClaimedStates
  <2> QED BY <1>b, <2>1
<1>5. CASE Cancel(c)
  <2> DEFINE x == [ctx |-> c, gen |-> h.gen, id |-> h.id, claim |-> nextClaim]
  <2>1. /\ h.state \notin ClaimedStates /\ UNCHANGED call
        /\ cancels' = cancels \cup {x} /\ x.ctx = c
        /\ \A d \in Ctx \ {c} : handle'[d] = handle[d]
    BY <1>5 DEF Cancel, TypeOK, ClaimedStates
  <2> HIDE DEF x
  <2>2. ByCancel(c)
    BY <2>1 DEF ByCancel
  <2> QED BY <2>2 DEF OwnShape
<1>6. CASE Inject(c) \/ Retire(c)
  <2>1. /\ g.state = h.state /\ g.gen = h.gen /\ g.op = h.op
        /\ \A d \in Ctx \ {c} : handle'[d] = handle[d]
    <3>1. CASE Inject(c)
      BY <3>1, <1>a DEF Inject, TypeOK, HandleRecord
    <3>2. CASE Retire(c)
      BY <3>2, <1>a DEF Retire, TypeOK, HandleRecord
    <3> QED BY <1>6, <3>1, <3>2
  <2>2. UNCHANGED <<cancels, call>>
    BY <1>6 DEF Inject, Retire
  <2> QED BY <1>c, <2>1, <2>2
<1>7. ASSUME NEW r \in Request \cup {NoFingerprint}, claim_governed_locked(c, r)
      PROVE  OwnShape
  <2> DEFINE nh == [h EXCEPT !.state = "Running", !.op = nextOp, !.gov = "claimed"]
  <2>1. /\ h.state \notin ClaimedStates /\ UNCHANGED <<cancels, call>>
        /\ handle' = [handle EXCEPT ![c] = nh]
    BY <1>7 DEF claim_governed_locked, GovernedClaim, ClaimedStates
  <2>2. nh.state = "Running" /\ "Running" \notin ClaimedStates
    BY <1>a DEF HandleRecord, ClaimedStates
  <2> HIDE DEF nh
  <2> QED BY <2>1, <2>2, HandleAside
<1>8. CASE RetryCleanup(c)
  BY <1>8, CallsUnchanged, AsideStill DEF RetryCleanup
<1> QED BY <1>1, <1>2, <1>3, <1>4, <1>5, <1>6, <1>7, <1>8 DEF TableCall

\* A cancel flight ends its own claim; a cleanup flight touches no handle.
LEMMA OwnFlightStep ==
    ASSUME TypeOK, ClaimExact, FlightStep
    PROVE  OwnShape
<1>1. ASSUME NEW f \in flights, NEW ok \in BOOLEAN, CleanupSettle(f, ok)
      PROVE  OwnShape
  BY <1>1, CallsUnchanged, AsideStill DEF CleanupSettle
<1>2. ASSUME NEW x \in cancels, NEW ok \in BOOLEAN, CancelSettle(x, ok)
      PROVE  OwnShape
  <2>c. PICK c \in Ctx : c = x.ctx
    BY DEF TypeOK, CancelRecord
  <2> DEFINE h == handle[c]  g == handle'[c]
  <2>1. h.id = x.id /\ h.state = "Cancelling" /\ h \in HandleRecord
    BY <2>c DEF ClaimExact, TypeOK
  <2>2. /\ cancels' = cancels \ {x} /\ UNCHANGED call
        /\ \/ handle' = [handle EXCEPT ![c].state = "Idle", ![c].op = NoOp]
           \/ handle' = [handle EXCEPT ![c] = NoHandle]
    BY <1>2, <2>c, <2>1 DEF CancelSettle, TakeClaim
  <2>3. g.state \in {"Idle", "Absent"} /\ \A d \in Ctx \ {c} : handle'[d] = handle[d]
    BY <2>1, <2>2 DEF TypeOK, HandleRecord, NoHandle
  <2>4. ByCancel(c)
    BY <2>c, <2>1, <2>2, <2>3 DEF ByCancel, ClaimedStates
  <2> QED BY <2>4 DEF OwnShape
<1> QED BY <1>1, <1>2 DEF FlightStep

\* Every step keeps the owners of the claims.
LEMMA OwnStep ==
    ASSUME ClaimInv, OwnInv, [Next]_vars
    PROVE  OwnInv'
<1>1. TypeOK /\ GovRunning /\ ClaimExact /\ TypeOK'
  BY TypeStep DEF ClaimInv, TableInv
<1>2. CASE UNCHANGED vars
  <2>1. OwnShape
    BY <1>2, CallsUnchanged, AsideStill DEF vars
  <2> QED BY <1>1, <2>1, OwnShapeKeeps
<1>3. ASSUME NEW p \in Caller, NEW c \in Ctx,
             \/ \E r \in Request : CheckoutLock1(p, c, r) \/ ClaimLock1(p, c, r)
             \/ \E force \in BOOLEAN : Clear(p, c, force)
             \/ Compact(p, c)
      PROVE  OwnShape
  BY <1>1, <1>3, OwnCallStart
<1>4. ASSUME NEW p \in Caller, CallStep(p) \/ DropCall(p)
      PROVE  OwnShape
  BY <1>1, <1>4, OwnCallStep
<1>5. ASSUME NEW c \in Ctx, TableCall(c)
      PROVE  OwnShape
  BY <1>1, <1>5, OwnTableCall
<1>6. ASSUME NEW o \in Op,
             \/ TurnPoll(o) \/ TurnComplete(o) \/ GovernedStep(o)
             \/ \E a \in {"finish", "expire"} : TurnExit(o, a)
      PROVE  OwnShape
  BY <1>1, <1>6, OwnTurnStep
<1>7. FlightStep => OwnShape
  BY <1>1, OwnFlightStep
<1>8. CASE Next
  <2>1. OwnShape
    BY <1>3, <1>4, <1>5, <1>6, <1>7, <1>8 DEF Next
  <2> QED BY <1>1, <2>1, OwnShapeKeeps
<1> QED BY <1>2, <1>8

\* An empty manager has nothing to own.
LEMMA OwnInit == Init => OwnInv
  BY DEF Init, OwnInv, KeysFit, Claiming, NoCall, NoHandle, ClaimedStates

\* All of it together, for every constant.
LEMMA OwnedInvariance == Spec => [](ClaimInv /\ LifeInv /\ OwnInv)
<1>1. Init => OwnInv
  BY OwnInit
<1>2. ClaimInv /\ LifeInv /\ OwnInv /\ [Next]_vars => OwnInv'
  BY OwnStep
<1> QED BY <1>1, <1>2, WarmInvariance, PTL DEF Spec

\* While no client drops its request future, every claimed handle has the call or the cancel flight
\* that will settle it, and every running one the guard or the governed claim of its turn: no
\* context is left refusing every later use.
THEOREM OwnersKnown ==
    ASSUME Droppable = {}
    PROVE  Spec => []HasOwner
<1>1. ClaimInv /\ LifeInv /\ OwnInv => HasOwner
  <2> SUFFICES ASSUME LifeInv, OwnInv PROVE HasOwner
    OBVIOUS
  <2>1. ClaimHasOwner
    BY DEF OwnInv, Tended, ClaimHasOwner, is_claimed
  <2>2. RunningHasOwner
    BY DEF LifeInv, HandlesFit, HandleFit, RunnerFit, Runs, RunningHasOwner
  <2> QED BY <2>1, <2>2 DEF HasOwner
<1> QED BY <1>1, OwnedInvariance, PTL

-----------------------------------------------------------------------------
(* Slots *)

\* A context without a tombstone keeps no generation of one.
TombsEmpty == \A c \in Ctx : tomb[c].state = "None" => tomb[c].gen = 0

\* What one lock hold may make of a handle h: a new one is owned, an idle one is not dropped
\* without a tombstone, an expiring one only goes away, and only a renewal that owns the handle
\* counts its generation up.
SlotMove(h, g) ==
    /\ h.state = "Absent" => g.state \notin {"Idle", "Expiring"}
    /\ h.state = "Idle" => g.state # "Absent"
    /\ h.state = "Expiring" => g.state \in {"Expiring", "Absent"}
    /\ \/ g.state = "Absent"
       \/ g.gen = h.gen
       \/ h.state \in {"Resetting", "Compacting"} /\ g.state = "Idle" /\ g.gen = h.gen + 1

\* The summary waiting on h goes with the handle, with a turn that takes it, or with a clear.
SeedMove(h, g) ==
    h.seed # NoSeed /\ g.seed # h.seed =>
        \/ g.state = "Absent"
        \/ g.state = "Running" /\ g.op \in g.aborts \ h.aborts
        \/ h.state = "Resetting" /\ g.gen = h.gen + 1

\* A step on the handle of c that leaves the tombstones alone.
Edits(c) ==
    /\ UNCHANGED tomb
    /\ \A d \in Ctx \ {c} : handle'[d] = handle[d]
    /\ SeedMove(handle[c], handle'[c])
    /\ \/ tomb[c].state = "None" /\ SlotMove(handle[c], handle'[c])
       \/ handle'[c].state = handle[c].state /\ handle'[c].gen = handle[c].gen

\* A step of a cleanup: on the tombstone of c, which is set, and not on the handles.
Cleans(c) ==
    /\ UNCHANGED handle
    /\ \A d \in Ctx \ {c} : tomb'[d] = tomb[d]
    /\ \/ tomb[c].state = "Expiring" /\ tomb'[c].state = "None" /\ tomb'[c].gen = 0
       \/ /\ <<tomb[c].state, tomb'[c].state>> \in {<<"Expiring", "CleanupFailed">>,
                                                    <<"CleanupFailed", "Expiring">>}
          /\ tomb'[c].gen = tomb[c].gen

\* Every step is one of these.
Visible ==
    \E c \in Ctx : Edits(c) \/ Cleans(c) \/ (Takes(c) /\ handle[c].state # "Expiring")

\* What the invariants tell of the slots.
SlotFacts ==
    /\ TypeOK /\ TableExclusive /\ TombsEmpty
    /\ \A c \in Ctx : VacantEmpty(handle[c])

\* Every visible step keeps the tombstones of free contexts empty.
LEMMA VisibleTombs ==
    ASSUME TypeOK, TombsEmpty, Visible
    PROVE  TombsEmpty'
<1>1. ASSUME NEW c \in Ctx, Edits(c) PROVE TombsEmpty'
  BY <1>1 DEF Edits, TombsEmpty
<1>2. ASSUME NEW c \in Ctx, Cleans(c) PROVE TombsEmpty'
  BY <1>2 DEF Cleans, TombsEmpty
<1>3. ASSUME NEW c \in Ctx, Takes(c) PROVE TombsEmpty'
  <2>1. tomb'[c].state = "Expiring" /\ \A d \in Ctx \ {c} : tomb'[d] = tomb[d]
    BY <1>3 DEF Takes, TypeOK
  <2> QED BY <2>1 DEF TombsEmpty
<1> QED BY <1>1, <1>2, <1>3 DEF Visible

\* Every visible step keeps a waiting summary.
LEMMA VisibleSummary ==
    ASSUME TypeOK, Visible, NEW c \in Ctx
    PROVE  SeedMove(handle[c], handle'[c])
<1>1. ASSUME NEW d \in Ctx, Takes(d) PROVE SeedMove(handle[c], handle'[c])
  BY <1>1 DEF Takes, TypeOK, SeedMove, NoHandle
<1> QED BY <1>1 DEF Visible, Edits, Cleans, SeedMove

\* Every visible step is one of the slot, or invisible there.
LEMMA VisibleSlot ==
    ASSUME SlotFacts, SlotFacts', Visible
    PROVE  [Slot!Next]_(Slot!slotVars)
<1> DEFINE s(d) == SlotState(handle[d], tomb[d])
           n(d) == handle[d].gen + tomb[d].gen
<1>a. /\ SlotView = [d \in Ctx |-> s(d)] /\ SlotView' = [d \in Ctx |-> s(d)']
      /\ GenView = [d \in Ctx |-> n(d)] /\ GenView' = [d \in Ctx |-> n(d)']
  BY DEF SlotView, GenView
<1>b. \A d \in Ctx : handle[d].gen \in Nat /\ tomb[d].gen \in Nat
  BY DEF SlotFacts, TypeOK, HandleRecord, TombRecord
<1>0. NoHandle.gen = 0 /\ NoHandle.state = "Absent"
  BY DEF NoHandle
\* A step that touches one context.
<1>c. ASSUME NEW c \in Ctx, \A d \in Ctx \ {c} : s(d)' = s(d) /\ n(d)' = n(d)
      PROVE  /\ SlotView' = [SlotView EXCEPT ![c] = s(c)']
             /\ GenView' = [GenView EXCEPT ![c] = n(c)']
             /\ s(c)' = s(c) => SlotView' = SlotView
             /\ n(c)' = n(c) => GenView' = GenView
  BY <1>a, <1>c
<1>1. ASSUME NEW c \in Ctx, Edits(c)
      PROVE  [Slot!Next]_(Slot!slotVars)
  <2> DEFINE h == handle[c]  g == handle'[c]
  <2>1. \A d \in Ctx \ {c} : s(d)' = s(d) /\ n(d)' = n(d)
    BY <1>1 DEF Edits
  <2>2. CASE g.state = h.state /\ g.gen = h.gen
    <3>1. s(c)' = s(c) /\ n(c)' = n(c)
      BY <1>1, <2>2 DEF Edits, SlotState
    <3> QED BY <1>c, <2>1, <3>1 DEF Slot!slotVars
  <2>3. CASE tomb[c].state = "None" /\ SlotMove(h, g)
    <3>1. /\ tomb[c].gen = 0 /\ tomb'[c] = tomb[c] /\ n(c) = h.gen /\ n(c)' = g.gen
          /\ h.state = "Absent" => h.gen = 0
          /\ g.state = "Absent" => g.gen = 0
      <4>1. tomb[c].gen = 0 /\ tomb'[c] = tomb[c] /\ h.gen \in Nat /\ g.gen \in Nat
        BY <1>1, <1>b, <2>3 DEF Edits, SlotFacts, TombsEmpty, TypeOK, HandleRecord
      <4>2. VacantEmpty(h) /\ VacantEmpty(g)
        BY DEF SlotFacts
      <4> QED BY <1>0, <4>1, <4>2 DEF VacantEmpty
    <3>2. /\ s(c) = IF h.state = "Expiring" THEN "closing" ELSE IF h.state = "Absent" THEN "vacant"
                    ELSE IF h.state = "Idle" THEN "idle" ELSE "owned"
          /\ s(c)' = IF g.state = "Expiring" THEN "closing" ELSE IF g.state = "Absent" THEN "vacant"
                     ELSE IF g.state = "Idle" THEN "idle" ELSE "owned"
      BY <2>3, <3>1 DEF SlotState
    <3> HIDE DEF s, n
    <3>3. SlotView[c] = s(c) /\ GenView[c] = n(c)
      BY <1>a
    <3>4. CASE s(c)' = "vacant"
      BY <1>c, <2>1, <2>3, <3>1, <3>2, <3>3, <3>4
         DEF SlotMove, Slot!Next, Slot!Abandon, Slot!Closed, Slot!Move, Slot!Forget, Slot!slotVars
    <3>5. CASE s(c)' # "vacant" /\ g.gen = h.gen
      BY <1>c, <2>1, <2>3, <3>1, <3>2, <3>3, <3>5
         DEF SlotMove, Slot!Next, Slot!Open, Slot!Acquire, Slot!Yield, Slot!Expire, Slot!Move,
             Slot!SameGen, Slot!slotVars
    <3>6. CASE h.state \in {"Resetting", "Compacting"} /\ g.state = "Idle" /\ g.gen = h.gen + 1
      BY <1>c, <2>1, <2>3, <3>1, <3>2, <3>3, <3>6 DEF Slot!Next, Slot!Renew, Slot!Move
    <3> QED BY <2>3, <3>2, <3>4, <3>5, <3>6 DEF SlotMove
  <2> QED BY <1>1, <2>2, <2>3 DEF Edits
<1>2. ASSUME NEW c \in Ctx, Cleans(c)
      PROVE  [Slot!Next]_(Slot!slotVars)
  <2>1. \A d \in Ctx \ {c} : s(d)' = s(d) /\ n(d)' = n(d)
    BY <1>2 DEF Cleans
  <2>2. handle[c].state = "Absent" /\ handle[c].gen = 0 /\ handle'[c] = handle[c]
    BY <1>2, <1>0 DEF Cleans, SlotFacts, TableExclusive, VacantEmpty, live
  <2>3. /\ n(c) = tomb[c].gen /\ n(c)' = tomb'[c].gen
        /\ s(c) = IF tomb[c].state = "Expiring" THEN "closing" ELSE "failed"
        /\ s(c)' = IF tomb'[c].state = "Expiring" THEN "closing"
                   ELSE IF tomb'[c].state = "None" THEN "vacant" ELSE "failed"
    BY <1>2, <1>b, <2>2 DEF Cleans, SlotState, SlotFacts, TypeOK, TombRecord
  <2> HIDE DEF s, n
  <2>4. SlotView[c] = s(c) /\ GenView[c] = n(c)
    BY <1>a
  <2> QED BY <1>2, <1>c, <2>1, <2>3, <2>4
          DEF Cleans, Slot!Next, Slot!Closed, Slot!Fail, Slot!Retry, Slot!Move, Slot!Forget,
              Slot!SameGen
<1>3. ASSUME NEW c \in Ctx, Takes(c), handle[c].state # "Expiring"
      PROVE  [Slot!Next]_(Slot!slotVars)
  <2>1. /\ live(c) /\ handle'[c] = NoHandle /\ tomb'[c].state = "Expiring"
        /\ tomb'[c].gen = handle[c].gen
        /\ \A d \in Ctx \ {c} : handle'[d] = handle[d] /\ tomb'[d] = tomb[d]
    BY <1>3 DEF Takes, SlotFacts, TypeOK
  <2>2. \A d \in Ctx \ {c} : s(d)' = s(d) /\ n(d)' = n(d)
    BY <2>1
  <2>3. tomb[c].state = "None" /\ tomb[c].gen = 0
    BY <2>1 DEF SlotFacts, TableExclusive, TombsEmpty
  <2>4. n(c)' = n(c)
    BY <1>b, <1>0, <2>1, <2>3
  <2>5. s(c) \in {"idle", "owned"} /\ s(c)' = "closing"
    BY <1>3, <2>1, <2>3 DEF SlotState, live
  <2> HIDE DEF s, n
  <2>6. SlotView[c] = s(c)
    BY <1>a
  <2> QED BY <1>c, <2>2, <2>4, <2>5, <2>6 DEF Slot!Next, Slot!Expire, Slot!Move, Slot!SameGen
<1> QED BY <1>1, <1>2, <1>3 DEF Visible

\* A step that touches neither handles nor tombstones.
LEMMA EditStill ==
    ASSUME UNCHANGED <<handle, tomb>>
    PROVE  Visible
<1>1. PICK c \in Ctx : TRUE
  BY ConstantsAssumption
<1> QED BY <1>1 DEF Visible, Edits, SeedMove

\* A step that keeps the state, the generation and the summary of the handle.
LEMMA EditSame ==
    ASSUME NEW c \in Ctx, UNCHANGED tomb, \A d \in Ctx \ {c} : handle'[d] = handle[d],
           handle'[c].state = handle[c].state, handle'[c].gen = handle[c].gen,
           handle'[c].seed = handle[c].seed
    PROVE  Visible
  BY DEF Visible, Edits, SeedMove

\* A step that moves the handle of a context without a tombstone.
LEMMA EditMove ==
    ASSUME NEW c \in Ctx, UNCHANGED tomb, \A d \in Ctx \ {c} : handle'[d] = handle[d],
           tomb[c].state = "None" \/ (live(c) /\ TableExclusive),
           SlotMove(handle[c], handle'[c]), SeedMove(handle[c], handle'[c])
    PROVE  Visible
  BY DEF Visible, Edits, TableExclusive

\* The states a minted turn, a claim and a teardown may find, as moves of the slot.
LEMMA MoveCases ==
    ASSUME NEW h, NEW g,
           \/ /\ h.state \notin {"Absent", "Expiring"} /\ g.state # "Absent" /\ g.gen = h.gen
              /\ g.seed = h.seed \/ (g.state = "Running" /\ g.op \in g.aborts \ h.aborts)
           \/ h.state # "Idle" /\ g = NoHandle
           \/ /\ h = NoHandle /\ g.state \notin {"Idle", "Expiring"} /\ g.gen = 0
    PROVE  SlotMove(h, g) /\ SeedMove(h, g)
<1>1. NoHandle.state = "Absent" /\ NoHandle.gen = 0 /\ NoHandle.seed = NoSeed
  BY DEF NoHandle
<1>2. CASE h.state # "Idle" /\ g = NoHandle
  BY <1>1, <1>2 DEF SlotMove, SeedMove
<1>3. CASE h = NoHandle /\ g.state \notin {"Idle", "Expiring"} /\ g.gen = 0
  BY <1>1, <1>3 DEF SlotMove, SeedMove
<1>4. CASE /\ h.state \notin {"Absent", "Expiring"} /\ g.state # "Absent" /\ g.gen = h.gen
           /\ g.seed = h.seed \/ (g.state = "Running" /\ g.op \in g.aborts \ h.aborts)
  BY <1>4 DEF SlotMove, SeedMove
<1> QED BY <1>2, <1>3, <1>4

\* Minting a turn hands the waiting summary to it.
LEMMA EditMints ==
    ASSUME TypeOK, TableExclusive, LifeInv, NEW c \in Ctx, NEW h \in HandleRecord, NEW t,
           MintTurn(c, h, t), h.gen = handle[c].gen, h.aborts = handle[c].aborts,
           handle[c].state \notin {"Absent", "Expiring"}, UNCHANGED tomb
    PROVE  Visible
<1>1. /\ handle'[c].state = "Running" /\ handle'[c].gen = handle[c].gen
      /\ handle'[c].op = nextOp /\ handle'[c].aborts = handle[c].aborts \cup {nextOp}
      /\ \A d \in Ctx \ {c} : handle'[d] = handle[d]
  BY DEF MintTurn, TypeOK, HandleRecord
<1>2. nextOp \notin handle[c].aborts
  <2>1. \A x \in handle[c].aborts : x < nextOp
    BY DEF LifeInv, HandlesFit, HandleFit, Minted
  <2> QED BY <2>1 DEF TypeOK
<1>3. SlotMove(handle[c], handle'[c]) /\ SeedMove(handle[c], handle'[c])
  BY <1>1, <1>2, MoveCases
<1> QED BY <1>1, <1>3, EditMove DEF live

\* Taking a handle that is not being torn down swaps it for a tombstone.
LEMMA EditTakes ==
    ASSUME TypeOK, NEW c \in Ctx, NEW o \in Nat, NEW n \in Nat, NEW t, TakeClaim(c, o, n, t),
           handle[c].state \notin {"Absent", "Expiring"}
    PROVE  Visible
<1>1. Takes(c)
  BY DEF TakeClaim, Takes, live
<1> QED BY <1>1 DEF Visible

\* The first lock hold of a call.
LEMMA SeenCallStart ==
    ASSUME TypeOK, TableExclusive, NEW p \in Caller, NEW c \in Ctx,
           \/ \E r \in Request : CheckoutLock1(p, c, r) \/ ClaimLock1(p, c, r)
           \/ \E force \in BOOLEAN : Clear(p, c, force)
           \/ Compact(p, c)
    PROVE  Visible
<1> DEFINE h == handle[c]  g == handle'[c]
<1>a. h \in HandleRecord
  BY DEF TypeOK
<1>m. ASSUME h.state \in {"Idle", "Running"}, g.state \in ClaimedStates, g.gen = h.gen,
             g.seed = h.seed, UNCHANGED tomb, \A d \in Ctx \ {c} : handle'[d] = handle[d]
      PROVE  Visible
  <2>1. SlotMove(h, g) /\ SeedMove(h, g)
    BY <1>m, MoveCases DEF ClaimedStates
  <2> QED BY <1>m, <2>1, EditMove DEF live
<1>1. ASSUME NEW r \in Request, CheckoutLock1(p, c, r) \/ ClaimLock1(p, c, r)
      PROVE  Visible
  BY <1>1, EditStill DEF CheckoutLock1, ClaimLock1, tables
<1>2. ASSUME NEW force \in BOOLEAN, Clear(p, c, force)
      PROVE  Visible
  <2>1. h.state \in {"Idle", "Running"} /\ UNCHANGED tomb
    BY <1>2 DEF Clear
  <2>2. g.state = "Resetting" /\ g.gen = h.gen /\ g.seed = h.seed
        /\ \A d \in Ctx \ {c} : handle'[d] = handle[d]
    BY <1>2, <1>a DEF Clear, TypeOK, HandleRecord
  <2> QED BY <1>m, <2>1, <2>2 DEF ClaimedStates
<1>3. CASE Compact(p, c)
  <2>1. h.state \in {"Idle", "Running"} /\ UNCHANGED tomb
    BY <1>3 DEF Compact, Compactable
  <2>2. g.state = "Compacting" /\ g.gen = h.gen /\ g.seed = h.seed
        /\ \A d \in Ctx \ {c} : handle'[d] = handle[d]
    BY <1>3, <1>a DEF Compact, TypeOK, HandleRecord
  <2> QED BY <1>m, <2>1, <2>2 DEF ClaimedStates
<1> QED BY <1>1, <1>2, <1>3

\* The later lock holds of the calls, and a dropped future.
LEMMA SeenCallStep ==
    ASSUME TypeOK, TableExclusive, ClaimExact, LifeInv, OwnInv, NEW p \in Caller,
           CallStep(p) \/ DropCall(p)
    PROVE  Visible
<1>c. PICK c \in Ctx : c = call[p].ctx
  BY DEF TypeOK, CallRecord
<1> DEFINE k == call[p]  h == handle[c]  g == handle'[c]
<1>a. k \in CallRecord /\ h \in HandleRecord /\ nextOp \in Nat /\ nextClaim \in Nat
  BY DEF TypeOK
<1>b. VacantEmpty(h) /\ NoSummary(h)
  BY DEF LifeInv, HandlesFit, HandleFit
<1>e. Claiming(p) => h.id = k.id /\ h.state \in ClaimStates(k) /\ KeyFit(k, h)
  BY <1>c DEF ClaimExact, OwnInv, KeysFit
<1>f. Claiming(p) => h.state \in ClaimedStates
  BY <1>e, ClaimStatesClaimed
<1>0. NoHandle.state = "Absent" /\ NoHandle.gen = 0
  BY DEF NoHandle
\* The claimed handle is given up, or goes on to its teardown.
<1>g. ASSUME h.state \in ClaimedStates, handle' = [handle EXCEPT ![c] = NoHandle], UNCHANGED tomb
      PROVE  Visible
  <2>1. g = NoHandle /\ \A d \in Ctx \ {c} : handle'[d] = handle[d]
    BY <1>g DEF TypeOK
  <2>2. SlotMove(h, g) /\ SeedMove(h, g)
    BY <1>g, <2>1, MoveCases DEF ClaimedStates
  <2> QED BY <1>g, <2>1, <2>2, EditMove DEF live, ClaimedStates
<1>h. ASSUME h.state \notin {"Absent", "Expiring"}, g.state \in ClaimedStates, g.gen = h.gen,
             g.seed = h.seed, UNCHANGED tomb, \A d \in Ctx \ {c} : handle'[d] = handle[d]
      PROVE  Visible
  <2>1. SlotMove(h, g) /\ SeedMove(h, g)
    BY <1>h, MoveCases DEF ClaimedStates
  <2> QED BY <1>h, <2>1, EditMove DEF live
<1>1. CASE \/ ResolveFails(p) \/ CheckoutRefused(p) \/ DropCall(p) \/ CancelOld(p)
           \/ ReleasedOld(p)
  BY <1>1, EditStill DEF ResolveFails, CheckoutRefused, DropCall, CancelOld, ReleasedOld, tables
<1>2. CASE CheckoutExpiresArmed(p)
  <2>1. h.state = "Idle" /\ \E o \in ArmedOps(h) : TakeClaim(c, o, nextClaim, turn)
    BY <1>2, <1>c DEF CheckoutExpiresArmed, Lock2Refuses, take_expiry_claim_locked
  <2>2. ArmedOps(h) \subseteq Nat
    BY <1>a DEF ArmedOps, HandleRecord, Op
  <2> QED BY <1>a, <2>1, <2>2, EditTakes
<1>3. CASE CheckoutReuse(p)
  <2>1. /\ h.state = "Idle" /\ MintTurn(c, h, reserve_successor(turn, h.aborts)) /\ UNCHANGED tomb
    BY <1>3, <1>c DEF CheckoutReuse, Lock2Refuses
  <2> QED BY <1>a, <2>1, EditMints
<1>4. CASE CheckoutReconcile(p)
  <2>1. /\ h.state = "Idle" /\ UNCHANGED tomb
        /\ handle' = [handle EXCEPT ![c].state = "Reconciling", ![c].expire = FALSE]
    BY <1>4, <1>c DEF CheckoutReconcile, Lock2Refuses
  <2>2. g.state = "Reconciling" /\ g.gen = h.gen /\ g.seed = h.seed
        /\ \A d \in Ctx \ {c} : handle'[d] = handle[d]
    BY <1>a, <2>1 DEF TypeOK, HandleRecord
  <2> QED BY <1>h, <2>1, <2>2 DEF ClaimedStates
<1>5. CASE CheckoutFresh(p)
  <2> DEFINE nh == [NoHandle EXCEPT !.id = nextId, !.state = "Configuring",
                                    !.fp = k.fp, !.op = nextOp]
  <2>1. /\ tomb[c].state = "None" /\ UNCHANGED tomb /\ h.state = "Absent"
        /\ handle' = [handle EXCEPT ![c] = nh]
    BY <1>5, <1>c DEF CheckoutFresh, Lock2Refuses, live
  <2>2. nh.state = "Configuring" /\ nh.gen = 0
    BY DEF NoHandle
  <2> HIDE DEF nh
  <2>3. g = nh /\ \A d \in Ctx \ {c} : handle'[d] = handle[d]
    BY <2>1 DEF TypeOK
  <2>4. SlotMove(h, g) /\ SeedMove(h, g)
    BY <1>b, <2>1, <2>2, <2>3, MoveCases DEF VacantEmpty
  <2> QED BY <2>1, <2>3, <2>4, EditMove
<1>6. ASSUME NEW ok \in BOOLEAN, ReconcileSettle(p, ok)
      PROVE  Visible
  <2>0. k.kind = "checkout" /\ k.pc = "reconcile" /\ Claiming(p) /\ UNCHANGED tomb
    BY <1>6 DEF ReconcileSettle, Claiming
  <2>1. still_ours(k, "Reconciling") /\ h.state = "Reconciling"
    BY <1>c, <1>e, <2>0 DEF still_ours, ClaimStates
  <2>2. CASE ok /\ ~h.expire
    <3> DEFINE nh == [h EXCEPT !.fp = k.fp]
    <3>1. MintTurn(c, nh, turn)
      BY <1>6, <1>c, <2>1, <2>2 DEF ReconcileSettle
    <3>2. nh \in HandleRecord /\ nh.gen = h.gen /\ nh.aborts = h.aborts
      BY <1>a DEF HandleRecord, CallRecord
    <3> HIDE DEF nh
    <3> QED BY <2>0, <2>1, <3>1, <3>2, EditMints
  <2>3. CASE ~(ok /\ ~h.expire)
    <3>1. handle' = [handle EXCEPT ![c].state = "Expiring", ![c].aborts = {}]
      BY <1>6, <1>c, <2>1, <2>3 DEF ReconcileSettle
    <3>2. g.state = "Expiring" /\ g.gen = h.gen /\ g.seed = h.seed
          /\ \A d \in Ctx \ {c} : handle'[d] = handle[d]
      BY <1>a, <3>1 DEF TypeOK, HandleRecord
    <3> QED BY <1>h, <2>0, <2>1, <3>2 DEF ClaimedStates
  <2> QED BY <2>2, <2>3
<1>7. ASSUME NEW ok \in BOOLEAN, ConfigureSettle(p, ok)
      PROVE  Visible
  <2>0. k.kind = "checkout" /\ k.pc = "configure" /\ Claiming(p) /\ UNCHANGED tomb
    BY <1>7 DEF ConfigureSettle, Claiming
  <2>1. still_ours(k, "Configuring") /\ h.op = k.op /\ h.state = "Configuring"
    BY <1>c, <1>e, <2>0 DEF still_ours, ClaimStates, KeyFit
  <2>2. CASE h.expire
    <3>1. handle' = [handle EXCEPT ![c].state = "Expiring"]
      BY <1>7, <1>c, <2>1, <2>2 DEF ConfigureSettle
    <3>2. g.state = "Expiring" /\ g.gen = h.gen /\ g.seed = h.seed
          /\ \A d \in Ctx \ {c} : handle'[d] = handle[d]
      BY <1>a, <3>1 DEF TypeOK, HandleRecord
    <3> QED BY <1>h, <2>0, <2>1, <3>2 DEF ClaimedStates
  <2>3. CASE ~h.expire /\ ok
    <3>1. MintTurn(c, h, turn)
      BY <1>7, <1>c, <2>1, <2>3 DEF ConfigureSettle
    <3> QED BY <1>a, <2>0, <2>1, <3>1, EditMints
  <2>4. CASE ~h.expire /\ ~ok
    <3>1. handle' = [handle EXCEPT ![c] = NoHandle]
      BY <1>7, <1>c, <2>1, <2>4 DEF ConfigureSettle
    <3> QED BY <1>f, <1>g, <2>0, <3>1
  <2> QED BY <2>2, <2>3, <2>4
<1>8. CASE CheckoutTeardown(p) \/ ClearTeardown(p) \/ CompactTeardown(p)
  <2>1. Claiming(p) /\ handle' = [handle EXCEPT ![c] = NoHandle] /\ UNCHANGED tomb
    BY <1>8, <1>c DEF CheckoutTeardown, ClearTeardown, CompactTeardown, RemoveAfterRelease,
                      Claiming
  <2> QED BY <1>f, <1>g, <2>1
<1>9. CASE ClaimLock2(p)
  <2>1. CASE live(c) \/ tomb[c].state # "None"
    BY <1>9, <1>c, <2>1, EditStill DEF ClaimLock2
  <2>2. CASE ~(live(c) \/ tomb[c].state # "None")
    <3> DEFINE nh == [NoHandle EXCEPT !.id = nextId, !.fp = k.fp]
               nh2 == [nh EXCEPT !.state = "Running", !.op = nextOp, !.gov = "claimed"]
    <3>1. handle' = [handle EXCEPT ![c] = nh2] /\ UNCHANGED tomb
      BY <1>9, <1>c, <2>2 DEF ClaimLock2, GovernedClaim
    <3>2. nh2.state = "Running" /\ nh2.gen = 0
      <4>1. nh \in HandleRecord /\ nh.gen = 0
        BY <1>a, EmptyRecords DEF HandleRecord, CallRecord, TypeOK, NoHandle
      <4> HIDE DEF nh
      <4> QED BY <4>1 DEF HandleRecord
    <3> HIDE DEF nh2
    <3>3. g = nh2 /\ \A d \in Ctx \ {c} : handle'[d] = handle[d]
      BY <3>1 DEF TypeOK
    <3>4. SlotMove(h, g) /\ SeedMove(h, g)
      BY <1>b, <2>2, <3>2, <3>3, MoveCases DEF VacantEmpty, live
    <3> QED BY <2>2, <3>1, <3>3, <3>4, EditMove
  <2> QED BY <2>1, <2>2
<1>10. ASSUME NEW ok \in BOOLEAN, NEW kind \in {"clear", "compact"}, NEW state,
              state = IF kind = "clear" THEN "Resetting" ELSE "Compacting",
              RenewSettle(p, ok, kind, state)
       PROVE  Visible
  <2>0. k.kind = kind /\ k.pc = "configure" /\ Claiming(p) /\ UNCHANGED tomb
    BY <1>10 DEF RenewSettle, Claiming
  <2>1. still_ours(k, state) /\ h.state = state /\ k.gen = h.gen + 1
    BY <1>c, <1>e, <1>10, <2>0 DEF still_ours, ClaimStates, KeyFit
  <2>2. CASE Commits(ok, h)
    <3> DEFINE sd == IF kind = "compact" THEN k.gen ELSE NoSeed
               inj == IF kind = "compact" THEN h.injects ELSE FALSE
               nh == [h EXCEPT !.gen = k.gen, !.op = NoOp, !.aborts = {}, !.state = "Idle",
                               !.seed = sd, !.injects = inj]
    <3>1. handle' = [handle EXCEPT ![c] = nh]
      BY <1>10, <1>c, <2>1, <2>2 DEF RenewSettle
    <3>2. nh.state = "Idle" /\ nh.gen = h.gen + 1
      <4> HIDE DEF sd, inj
      <4> QED BY <1>a, <2>1 DEF HandleRecord
    <3> HIDE DEF nh
    <3>3. g = nh /\ \A d \in Ctx \ {c} : handle'[d] = handle[d]
      BY <3>1 DEF TypeOK
    <3>4. SlotMove(h, g) /\ SeedMove(h, g)
      BY <1>b, <1>10, <2>1, <3>2, <3>3 DEF SlotMove, SeedMove, NoSummary
    <3> QED BY <1>10, <2>0, <2>1, <3>3, <3>4, EditMove DEF live
  <2>3. CASE ~Commits(ok, h)
    <3>1. UNCHANGED handle
      BY <1>10, <1>c, <2>1, <2>3 DEF RenewSettle
    <3> QED BY <2>0, <3>1, EditStill
  <2> QED BY <2>2, <2>3
<1>11. ASSUME NEW ok \in BOOLEAN, Summarized(p, ok)
       PROVE  Visible
  <2>0. k.kind = "compact" /\ k.pc = "summarize" /\ Claiming(p) /\ UNCHANGED tomb
    BY <1>11 DEF Summarized, Claiming
  <2>1. still_ours(k, "Compacting") /\ h.state = "Compacting"
    BY <1>c, <1>e, <2>0 DEF still_ours, ClaimStates
  <2>2. CASE ok
    BY <1>11, <2>0, <2>2, EditStill DEF Summarized
  <2>3. CASE ~ok
    <3>1. handle' = [handle EXCEPT ![c].state = "Expiring"]
      BY <1>11, <1>c, <2>1, <2>3 DEF Summarized
    <3>2. g.state = "Expiring" /\ g.gen = h.gen /\ g.seed = h.seed
          /\ \A d \in Ctx \ {c} : handle'[d] = handle[d]
      BY <1>a, <3>1 DEF TypeOK, HandleRecord
    <3> QED BY <1>h, <2>0, <2>1, <3>2 DEF ClaimedStates
  <2> QED BY <2>2, <2>3
<1>12. ASSUME NEW ok \in BOOLEAN, ClearSettle(p, ok) \/ CompactSettle(p, ok)
       PROVE  Visible
  BY <1>10, <1>12 DEF ClearSettle, CompactSettle
<1> QED BY <1>1, <1>2, <1>3, <1>4, <1>5, <1>6, <1>7, <1>8, <1>9, <1>11, <1>12 DEF CallStep

\* The completion guard and the governed claims.
LEMMA SeenTurnStep ==
    ASSUME TypeOK, GovRunning, TableExclusive, LifeInv, NEW o \in Op,
           \/ TurnPoll(o) \/ TurnComplete(o) \/ GovernedStep(o)
           \/ \E a \in {"finish", "expire"} : TurnExit(o, a)
    PROVE  Visible
<1>z. PICK c \in Ctx : c = turn[o].ctx
  BY DEF TypeOK, TurnRecord
<1> DEFINE t == turn[o]  h == handle[c]  g == handle'[c]
<1>a. h \in HandleRecord /\ o \in Nat /\ nextClaim \in Nat
  BY DEF TypeOK, Op
<1>c. ASSUME h.state \in {"Running", "Idle"}, take_expiry_claim_locked(c, o, done(o))
      PROVE  Visible
  BY <1>a, <1>c, EditTakes DEF take_expiry_claim_locked
<1>d. ASSUME NEW e, handle' = [handle EXCEPT ![c].expire = e], UNCHANGED tomb
      PROVE  Visible
  <2>1. g.state = h.state /\ g.gen = h.gen /\ g.seed = h.seed
        /\ \A d \in Ctx \ {c} : handle'[d] = handle[d]
    BY <1>a, <1>d DEF TypeOK, HandleRecord
  <2> QED BY <1>d, <2>1, EditSame
<1>e. h.gov # "none" => h.state = "Running"
  BY DEF GovRunning
<1>m. ASSUME h.state = "Running", SlotMove(h, g), SeedMove(h, g), UNCHANGED tomb,
             \A d \in Ctx \ {c} : handle'[d] = handle[d]
      PROVE  Visible
  BY <1>m, EditMove DEF live
<1>1. CASE TurnPoll(o) \/ Admit(o) \/ Rollback(o) \/ ApplyLock1(o)
  BY <1>1, EditStill DEF TurnPoll, Admit, Rollback, ApplyLock1, tables
<1>2. ASSUME NEW a \in {"finish", "expire"}, TurnExit(o, a)
      PROVE  Visible
  BY <1>2, EditStill DEF TurnExit, tables
<1>3. CASE finish_owned_turn(o)
  <2> DEFINE current == live(c) /\ h.gen = t.gen
             owner == current /\ h.op = o
             ready == owner /\ h.gov = "ready"
             gov == gov_after_finish(h, ready)
             idle == owner /\ gov = "none" /\ h.state = "Running"
             s == IF idle THEN "Idle" ELSE h.state
             n == IF idle THEN NoOp ELSE h.op
             nh == [h EXCEPT !.gov = gov, !.aborts = h.aborts \ {o}, !.state = s, !.op = n]
  <2>1. CASE ready /\ h.expire
    BY <1>3, <1>z, <2>1, <1>c, <1>e DEF finish_owned_turn
  <2>2. CASE ~(ready /\ h.expire)
    <3>1. handle' = [handle EXCEPT ![c] = IF current THEN nh ELSE h] /\ UNCHANGED tomb
      BY <1>3, <1>z, <2>2 DEF finish_owned_turn
    <3>2. nh.gen = h.gen /\ nh.state = s /\ nh.seed = h.seed
      <4> HIDE DEF gov, s, n
      <4> QED BY <1>a DEF HandleRecord
    <3>3. s = h.state \/ (h.state = "Running" /\ s = "Idle")
      OBVIOUS
    <3> HIDE DEF nh, s, current
    <3>4. /\ g.gen = h.gen /\ g.seed = h.seed
          /\ g.state = h.state \/ (h.state = "Running" /\ g.state = "Idle")
          /\ \A d \in Ctx \ {c} : handle'[d] = handle[d]
      BY <3>1, <3>2, <3>3 DEF TypeOK
    <3>5. CASE g.state = h.state
      BY <3>1, <3>4, <3>5, EditSame
    <3>6. CASE h.state = "Running" /\ g.state = "Idle"
      <4>1. SlotMove(h, g) /\ SeedMove(h, g)
        BY <3>4, <3>6, MoveCases
      <4> QED BY <1>m, <3>1, <3>4, <3>6, <4>1
    <3> QED BY <3>4, <3>5, <3>6
  <2> QED BY <2>1, <2>2
<1>4. CASE begin_expire_current(o)
  <2>1. CASE h.state \in {"Running", "Idle"} /\ take_expiry_claim_locked(c, o, done(o))
    BY <2>1, <1>c
  <2>2. CASE ~(h.state \in {"Running", "Idle"} /\ take_expiry_claim_locked(c, o, done(o)))
    <3>1. UNCHANGED tomb /\ \E e : handle' = [handle EXCEPT ![c].expire = e]
      BY <1>4, <1>z, <2>2 DEF begin_expire_current
    <3> QED BY <3>1, <1>d
  <2> QED BY <2>1, <2>2
<1>5. ASSUME NEW ok \in BOOLEAN, ApplyLock2(o, ok)
      PROVE  Visible
  <2>1. CASE ok /\ Applicable(o)
    <3> DEFINE nh == [h EXCEPT !.fp = t.fp, !.gov = "ready", !.aborts = h.aborts \cup {o},
                               !.seed = NoSeed, !.injects = FALSE]
    <3>1. handle' = [handle EXCEPT ![c] = nh] /\ UNCHANGED tomb /\ t.stage = "applying"
      BY <1>5, <1>z, <2>1 DEF ApplyLock2
    <3>2. /\ nh.state = h.state /\ nh.gen = h.gen /\ nh.op = h.op
          /\ nh.aborts = h.aborts \cup {o}
      BY <1>a DEF HandleRecord
    <3> HIDE DEF nh
    <3>3. g = nh /\ \A d \in Ctx \ {c} : handle'[d] = handle[d]
      BY <3>1 DEF TypeOK
    <3>4. h.state = "Running" /\ h.op = o
      BY <1>e, <1>z, <2>1 DEF Applicable, owns
    <3>5. o \notin h.aborts
      BY <1>z, <3>1 DEF LifeInv, TurnsFit, TurnFit, ClaimFit, GovernedStages
    <3>6. SlotMove(h, g) /\ SeedMove(h, g)
      BY <3>2, <3>3, <3>4, <3>5, MoveCases
    <3> QED BY <1>m, <3>1, <3>3, <3>4, <3>6
  <2>2. CASE ~(ok /\ Applicable(o))
    BY <1>5, <2>2, EditStill DEF ApplyLock2
  <2> QED BY <2>1, <2>2
<1>6. CASE GovernedSettle(o)
  <2>1. CASE ~owns(o)
    <3>1. UNCHANGED <<handle, tomb>>
      BY <1>6, <1>z, <2>1 DEF GovernedSettle, TypeOK
    <3> QED BY <3>1, EditStill
  <2>2. CASE owns(o)
    <3> DEFINE nh == [h EXCEPT !.state = "Idle", !.op = NoOp, !.gov = "none"]
    <3>1. h.state = "Running"
      BY <1>e, <1>z, <2>2 DEF owns
    <3>2. \/ take_expiry_claim_locked(c, o, done(o))
          \/ handle' = [handle EXCEPT ![c] = NoHandle] /\ UNCHANGED tomb
          \/ handle' = [handle EXCEPT ![c] = nh] /\ UNCHANGED tomb
      BY <1>6, <1>z, <2>2 DEF GovernedSettle
    <3>3. nh.state = "Idle" /\ nh.gen = h.gen /\ nh.seed = h.seed
      BY <1>a DEF HandleRecord
    <3> HIDE DEF nh
    <3>4. ASSUME NEW v, v = NoHandle \/ v = nh, handle' = [handle EXCEPT ![c] = v], UNCHANGED tomb
          PROVE  Visible
      <4>1. g = v /\ \A d \in Ctx \ {c} : handle'[d] = handle[d]
        BY <3>4 DEF TypeOK
      <4>2. SlotMove(h, g) /\ SeedMove(h, g)
        BY <3>1, <3>3, <3>4, <4>1, MoveCases
      <4> QED BY <1>m, <3>1, <3>4, <4>1, <4>2
    <3> QED BY <1>c, <3>1, <3>2, <3>4
  <2> QED BY <2>1, <2>2
<1>7. CASE FirstPoll(o)
  <2>1. \/ \E e : handle' = [handle EXCEPT ![c].expire = e]
        \/ handle' = [handle EXCEPT ![c].gov = "none"]
    BY <1>7, <1>z DEF FirstPoll
  <2>2. UNCHANGED tomb
    BY <1>7 DEF FirstPoll
  <2>3. CASE handle' = [handle EXCEPT ![c].gov = "none"]
    <3>1. g.state = h.state /\ g.gen = h.gen /\ g.seed = h.seed
          /\ \A d \in Ctx \ {c} : handle'[d] = handle[d]
      BY <1>a, <2>3 DEF TypeOK, HandleRecord
    <3> QED BY <2>2, <3>1, EditSame
  <2> QED BY <1>d, <2>1, <2>2, <2>3
<1> QED BY <1>1, <1>2, <1>3, <1>4, <1>5, <1>6, <1>7 DEF TurnComplete, GovernedStep

\* The operations of one lock hold.
LEMMA SeenTableCall ==
    ASSUME TypeOK, TableExclusive, LifeInv, NEW c \in Ctx, TableCall(c)
    PROVE  Visible
<1> DEFINE h == handle[c]  g == handle'[c]
<1>a. h \in HandleRecord /\ nextClaim \in Nat /\ h.op \in Nat /\ ArmedOps(h) \subseteq Nat
  BY DEF TypeOK, HandleRecord, ArmedOps, Op
<1>b. ASSUME NEW o \in Nat, h.state \notin {"Absent", "Expiring"},
             take_expiry_claim_locked(c, o, turn)
      PROVE  Visible
  BY <1>a, <1>b, EditTakes DEF take_expiry_claim_locked
<1>m. ASSUME h.state \in {"Running", "Idle"}, g.state \in {"Running", "Cancelling"},
             g.gen = h.gen, g.seed = h.seed, UNCHANGED tomb,
             \A d \in Ctx \ {c} : handle'[d] = handle[d]
      PROVE  Visible
  <2>1. SlotMove(h, g) /\ SeedMove(h, g)
    BY <1>m, MoveCases
  <2> QED BY <1>m, <2>1, EditMove DEF live
<1>1. CASE ExpireArmedIdle(c)
  <2>1. h.state = "Idle" /\ \E o \in ArmedOps(h) : take_expiry_claim_locked(c, o, turn)
    BY <1>1 DEF ExpireArmedIdle
  <2> QED BY <1>a, <1>b, <2>1
<1>2. CASE CheckoutExisting(c)
  <2>1. h.state = "Idle" /\ MintTurn(c, h, reserve_successor(turn, h.aborts)) /\ UNCHANGED tomb
    BY <1>2 DEF CheckoutExisting
  <2> QED BY <1>a, <2>1, EditMints
<1>3. CASE \/ ReleaseGoverned(c) \/ CancelGoverned(c) \/ ClearGoverned(c)
           \/ ReleaseDeferred(c) \/ CancelDeferred(c) \/ ClearConfiguring(c)
  <2>1. (\E e : handle' = [handle EXCEPT ![c].expire = e]) /\ UNCHANGED tomb
    BY <1>3 DEF ReleaseGoverned, CancelGoverned, ClearGoverned, ReleaseDeferred, CancelDeferred,
                ClearConfiguring, AbortGoverned, DeferExpiry
  <2>2. g.state = h.state /\ g.gen = h.gen /\ g.seed = h.seed
        /\ \A d \in Ctx \ {c} : handle'[d] = handle[d]
    BY <1>a, <2>1 DEF TypeOK, HandleRecord
  <2> QED BY <2>1, <2>2, EditSame
<1>4. CASE Release(c) \/ Reap(c)
  <2>1. take_expiry_claim_locked(c, h.op, turn) /\ h.state \notin {"Absent", "Expiring"}
    BY <1>4 DEF Release, Reap, is_claimed, ClaimedStates, live
  <2> QED BY <1>a, <1>b, <2>1
<1>5. CASE Cancel(c)
  <2>1. g.state = "Cancelling" /\ g.gen = h.gen /\ g.seed = h.seed
        /\ \A d \in Ctx \ {c} : handle'[d] = handle[d]
    BY <1>5, <1>a DEF Cancel, TypeOK, HandleRecord
  <2>2. h.state = "Running" /\ UNCHANGED tomb
    BY <1>5 DEF Cancel
  <2> QED BY <1>m, <2>1, <2>2
<1>6. CASE Inject(c) \/ Retire(c)
  <2>1. g.state = h.state /\ g.gen = h.gen /\ g.seed = h.seed
        /\ \A d \in Ctx \ {c} : handle'[d] = handle[d]
    <3>1. CASE Inject(c)
      BY <3>1, <1>a DEF Inject, TypeOK, HandleRecord
    <3>2. CASE Retire(c)
      BY <3>2, <1>a DEF Retire, TypeOK, HandleRecord
    <3> QED BY <1>6, <3>1, <3>2
  <2>2. UNCHANGED tomb
    BY <1>6 DEF Inject, Retire
  <2> QED BY <2>1, <2>2, EditSame
<1>7. ASSUME NEW r \in Request \cup {NoFingerprint}, claim_governed_locked(c, r)
      PROVE  Visible
  <2> DEFINE nh == [h EXCEPT !.state = "Running", !.op = nextOp, !.gov = "claimed"]
  <2>1. h.state = "Idle" /\ UNCHANGED tomb /\ handle' = [handle EXCEPT ![c] = nh]
    BY <1>7 DEF claim_governed_locked, GovernedClaim
  <2>2. nh.state = "Running" /\ nh.gen = h.gen /\ nh.seed = h.seed
    BY <1>a DEF HandleRecord
  <2> HIDE DEF nh
  <2>3. g = nh /\ \A d \in Ctx \ {c} : handle'[d] = handle[d]
    BY <2>1 DEF TypeOK
  <2> QED BY <1>m, <2>1, <2>2, <2>3
<1>8. CASE RetryCleanup(c)
  <2>1. tomb[c].state = "CleanupFailed" /\ UNCHANGED handle
    BY <1>8 DEF RetryCleanup
  <2>2. /\ tomb'[c].state = "Expiring" /\ tomb'[c].gen = tomb[c].gen
        /\ \A d \in Ctx \ {c} : tomb'[d] = tomb[d]
    BY <1>8 DEF RetryCleanup, TypeOK, TombRecord
  <2> QED BY <2>1, <2>2 DEF Visible, Cleans
<1> QED BY <1>1, <1>2, <1>3, <1>4, <1>5, <1>6, <1>7, <1>8 DEF TableCall

\* The settlement of cleanup and cancel flights.
LEMMA SeenFlightStep ==
    ASSUME TypeOK, TableExclusive, TombstoneOwned, ClaimExact, FlightStep
    PROVE  Visible
<1>1. ASSUME NEW f \in flights, NEW ok \in BOOLEAN, CleanupSettle(f, ok)
      PROVE  Visible
  <2>c. PICK c \in Ctx : c = f.ctx
    BY DEF TypeOK, FlightRecord
  <2>1. /\ tomb[c].state = "Expiring" /\ tomb[c].gen = f.gen
        /\ tomb[c].op = f.op /\ tomb[c].claim = f.claim
    BY <2>c DEF TombstoneOwned
  <2>2. /\ tomb' = [tomb EXCEPT ![c] = IF ok THEN NoTomb ELSE [@ EXCEPT !.state = "CleanupFailed"]]
        /\ UNCHANGED handle
    BY <1>1, <2>c, <2>1 DEF CleanupSettle
  <2>3. /\ ok => tomb'[c].state = "None" /\ tomb'[c].gen = 0
        /\ ~ok => tomb'[c].state = "CleanupFailed" /\ tomb'[c].gen = tomb[c].gen
        /\ \A d \in Ctx \ {c} : tomb'[d] = tomb[d]
    BY <2>2 DEF TypeOK, TombRecord, NoTomb
  <2> QED BY <2>1, <2>2, <2>3 DEF Visible, Cleans
<1>2. ASSUME NEW x \in cancels, NEW ok \in BOOLEAN, CancelSettle(x, ok)
      PROVE  Visible
  <2>c. PICK c \in Ctx : c = x.ctx
    BY DEF TypeOK, CancelRecord
  <2> DEFINE h == handle[c]  g == handle'[c]
  <2>1. /\ h.id = x.id /\ h.state = "Cancelling" /\ h \in HandleRecord
        /\ h.op \in Nat /\ x.claim \in Nat
    BY <2>c DEF ClaimExact, TypeOK, HandleRecord, CancelRecord
  <2>2. CASE ok /\ ~deferred_onto_cancel(h)
    <3>1. handle' = [handle EXCEPT ![c].state = "Idle", ![c].op = NoOp] /\ UNCHANGED tomb
      BY <1>2, <2>c, <2>1, <2>2 DEF CancelSettle
    <3>2. g.state = "Idle" /\ g.gen = h.gen /\ g.seed = h.seed
          /\ \A d \in Ctx \ {c} : handle'[d] = handle[d]
      BY <2>1, <3>1 DEF TypeOK, HandleRecord
    <3>3. SlotMove(h, g) /\ SeedMove(h, g)
      BY <2>1, <3>2, MoveCases
    <3> QED BY <2>1, <3>1, <3>2, <3>3, EditMove DEF live
  <2>3. CASE ~(ok /\ ~deferred_onto_cancel(h))
    <3>1. TakeClaim(c, h.op, x.claim, turn)
      BY <1>2, <2>c, <2>1, <2>3 DEF CancelSettle
    <3> QED BY <2>1, <3>1, EditTakes
  <2> QED BY <2>2, <2>3
<1> QED BY <1>1, <1>2 DEF FlightStep

\* Every step of the manager is visible as a slot step or not at all.
LEMMA SeenStep ==
    ASSUME ClaimInv, LifeInv, OwnInv, [Next]_vars
    PROVE  Visible
<1>1. TypeOK /\ GovRunning /\ ClaimExact /\ TableExclusive /\ TombstoneOwned
  BY DEF ClaimInv, TableInv
<1>2. CASE UNCHANGED vars
  BY <1>2, EditStill DEF vars
<1>3. ASSUME NEW p \in Caller, NEW c \in Ctx,
             \/ \E r \in Request : CheckoutLock1(p, c, r) \/ ClaimLock1(p, c, r)
             \/ \E force \in BOOLEAN : Clear(p, c, force)
             \/ Compact(p, c)
      PROVE  Visible
  BY <1>1, <1>3, SeenCallStart
<1>4. ASSUME NEW p \in Caller, CallStep(p) \/ DropCall(p)
      PROVE  Visible
  BY <1>1, <1>4, SeenCallStep
<1>5. ASSUME NEW c \in Ctx, TableCall(c)
      PROVE  Visible
  BY <1>1, <1>5, SeenTableCall
<1>6. ASSUME NEW o \in Op,
             \/ TurnPoll(o) \/ TurnComplete(o) \/ GovernedStep(o)
             \/ \E a \in {"finish", "expire"} : TurnExit(o, a)
      PROVE  Visible
  BY <1>1, <1>6, SeenTurnStep
<1>7. FlightStep => Visible
  BY <1>1, SeenFlightStep
<1> QED BY <1>2, <1>3, <1>4, <1>5, <1>6, <1>7 DEF Next

\* The invariant the refinement rests on.
SlotInv == ClaimInv /\ LifeInv /\ OwnInv /\ TombsEmpty

\* In every reachable state all of it holds.
LEMMA SlotInvariance == Spec => []SlotInv
<1>1. Init => TombsEmpty
  BY DEF Init, TombsEmpty, NoTomb
<1>2. ClaimInv /\ LifeInv /\ OwnInv /\ TombsEmpty /\ [Next]_vars => TombsEmpty'
  BY SeenStep, VisibleTombs DEF ClaimInv, TableInv
<1> QED BY <1>1, <1>2, OwnedInvariance, PTL DEF Spec, SlotInv

\* What the invariant tells of the slots.
LEMMA SlotInvFacts == SlotInv => SlotFacts
  BY DEF SlotInv, SlotFacts, ClaimInv, TableInv, LifeInv, HandlesFit, HandleFit

\* The summary a compaction queued leaves its handle only with the turn that takes it, with a
\* clear, or with the handle itself: no settlement, completion or later compaction overwrites it.
THEOREM SummariesKept == Spec => SummaryNotLost
<1>1. ASSUME SlotInv, [Next]_vars, NEW c \in Ctx
      PROVE  SeedMove(handle[c], handle'[c])
  BY <1>1, SeenStep, VisibleSummary DEF SlotInv, ClaimInv, TableInv
<1>2. SlotInv /\ [Next]_vars =>
        [\A c \in Ctx :
          handle[c].seed # NoSeed /\ handle'[c].seed # handle[c].seed =>
              \/ handle'[c].state = "Absent"
              \/ handle'[c].state = "Running" /\ handle'[c].op \in handle'[c].aborts \ handle[c].aborts
              \/ handle[c].state = "Resetting" /\ handle'[c].gen = handle[c].gen + 1]_vars
  BY <1>1 DEF SeedMove
<1> QED BY <1>2, SlotInvariance, PTL DEF Spec, SummaryNotLost

\* The manager implements the abstract slot: whatever the interleaving of calls, completions,
\* cancels and cleanups, each context is one exclusively owned slot, nobody uses it while it is
\* torn down, and its generation grows by one, under an owner, until the slot is given up.
THEOREM FollowsSlot == Spec => ImplementsSlot
<1>1. Init => Slot!Init
  BY DEF Init, Slot!Init, SlotView, GenView, SlotState, NoHandle, NoTomb
<1>2. SlotInv' => SlotFacts'
  BY SlotInvFacts, PTL
<1>3. SlotInv /\ SlotInv' /\ [Next]_vars => [Slot!Next]_(Slot!slotVars)
  <2> SUFFICES ASSUME SlotInv, SlotInv', [Next]_vars
               PROVE  [Slot!Next]_(Slot!slotVars)
    OBVIOUS
  <2>1. Visible
    BY SeenStep DEF SlotInv
  <2> QED BY <1>2, <2>1, SlotInvFacts, VisibleSlot
<1> QED BY <1>1, <1>3, SlotInvariance, PTL DEF Spec, ImplementsSlot, Slot!Spec

=============================================================================
