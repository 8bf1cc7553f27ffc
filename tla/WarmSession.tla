----------------------------- MODULE WarmSession -----------------------------
(***************************************************************************)
(* The warm-session manager of bridge-coordinator (session_manager.rs) and *)
(* the completion guard of a dispatched turn (dispatch.rs).                *)
(*                                                                         *)
(* The manager keeps, per A2A context, at most one warm handle: a backend  *)
(* session and the registry lease that pins its agent.  All table state is *)
(* behind one asynchronous mutex (by_context); every backend call runs off *)
(* that lock.  A step of this module is one lock hold together with the    *)
(* await that precedes it, so the interleavings are those of the lock.     *)
(*                                                                         *)
(* The backend session id is "ctx-<context>-g<generation>": it is the pair *)
(* <<context, generation>> here, and a new handle starts again at          *)
(* generation 0, so ids are reused by successors.                          *)
(*                                                                         *)
(* The model is the manager built by SessionManager::new, with no          *)
(* permission registry attached, and without parent/child registrations.   *)
(***************************************************************************)
EXTENDS Naturals, FiniteSets

CONSTANTS
    Ctx,          \* A2A context ids
    Caller,       \* request futures that may be inside the manager at once
    Value,        \* values of the fingerprint fields
    NoValue,      \* the None of an optional field
    Request,      \* fingerprints callers ask for
    Operations,   \* the manager operations the environment calls
    Droppable,    \* the kinds of call whose future a client may drop
    MaxOp,        \* bound: operations minted (turn_op_seq)
    MaxGen,       \* bound: generations of one handle
    MaxClaim      \* bound: cleanup claims, beyond which no retry starts

Fields == {"agent", "model", "effort", "mode", "cwd"}
Fingerprint == [Fields -> Value]

ASSUME ConstantsAssumption ==
    /\ Ctx # {}
    /\ NoValue \in Value
    /\ Request \subseteq Fingerprint
    /\ MaxOp \in Nat
    /\ MaxGen \in Nat
    /\ MaxClaim \in Nat

VARIABLES
    handle,     \* SessionTable.live: the warm handle of a context
    tomb,       \* SessionTable.tombstones
    retry,      \* SessionTable.cleanup_retries
    flights,    \* detached cleanup tasks (CleanupFlight)
    cancels,    \* cancel flights, awaiting backend.cancel
    call,       \* checkout / clear / compact futures, one per caller
    turn,       \* dispatched turns and governed claims, by operation id
    nextId,     \* seq: handle ids
    nextOp,     \* turn_op_seq
    nextClaim   \* cleanup_claim_seq

vars == <<handle, tomb, retry, flights, cancels, call, turn, nextId, nextOp, nextClaim>>
tables == <<handle, tomb, retry>>

-----------------------------------------------------------------------------
(* Records *)

Op == 1..MaxOp
NoOp == 0

ClaimedStates == {"Reconciling", "Expiring", "Resetting", "Compacting", "Cancelling", "Configuring"}
SessionState == ClaimedStates \cup {"Idle", "Running"}

\* Fault: a claimed state is forgotten when it is added.
is_claimed_forgotten(s) == s \in ClaimedStates \ {"Configuring"}

\* SessionState::is_claimed: an in-flight owner, not the table, decides the handle's fate.
is_claimed(s) == s \in ClaimedStates

HandleRecord ==
    [id: Nat, state: SessionState \cup {"Absent"}, gen: Nat, fp: Fingerprint,
     op: Nat, expire: BOOLEAN, aborts: SUBSET Op, gov: {"none", "claimed", "ready"},
     seed: Nat, injects: BOOLEAN, retired: BOOLEAN]
TombRecord == [state: {"None", "Expiring", "CleanupFailed"}, gen: Nat, op: Nat, claim: Nat]
FlightRecord == [ctx: Ctx, gen: Nat, op: Nat, claim: Nat]
CancelRecord == [ctx: Ctx, gen: Nat, id: Nat, claim: Nat]
CallRecord ==
    [kind: {"none", "checkout", "claim", "clear", "compact"},
     pc: {"ready", "resolve", "reconcile", "configure", "cancel_old", "summarize",
          "release_old", "teardown"},
     ctx: Ctx, fp: Fingerprint, saw: BOOLEAN, id: Nat, gen: Nat, op: Nat, ok: BOOLEAN]
TurnRecord ==
    [stage: {"none", "claimed", "admitted", "applying", "settling",
             "fresh", "prompting", "exited", "done"},
     ctx: Ctx, gen: Nat, id: Nat, fp: Fingerprint, fresh: BOOLEAN, applying: BOOLEAN,
     intent: {"open", "armed", "reserved"}, fired: BOOLEAN, act: {"finish", "expire"}]

AnyCtx == CHOOSE c \in Ctx : TRUE
NoFingerprint == [k \in Fields |-> NoValue]
NoSeed == 0     \* otherwise: the generation the pending summary opens
NoHandle == [id |-> 0, state |-> "Absent", gen |-> 0, fp |-> NoFingerprint, op |-> NoOp,
             expire |-> FALSE, aborts |-> {}, gov |-> "none", seed |-> NoSeed,
             injects |-> FALSE, retired |-> FALSE]
NoTomb == [state |-> "None", gen |-> 0, op |-> NoOp, claim |-> 0]
NoCall == [kind |-> "none", pc |-> "ready", ctx |-> AnyCtx, fp |-> NoFingerprint,
           saw |-> FALSE, id |-> 0, gen |-> 0, op |-> NoOp, ok |-> FALSE]
NoTurn == [stage |-> "none", ctx |-> AnyCtx, gen |-> 0, id |-> 0, fp |-> NoFingerprint,
           fresh |-> FALSE, applying |-> FALSE, intent |-> "open", fired |-> FALSE,
           act |-> "finish"]

-----------------------------------------------------------------------------
(* Helpers *)

live(c) == handle[c].state # "Absent"

\* SessionSpecFingerprint::diff: every field that differs.
diff(f, g) == {k \in Fields : f[k] # g[k]}

\* The fields a live session cannot change, or can change but not unset.
Refused(f, g) ==
    \/ diff(f, g) \cap {"agent", "cwd", "mode"} # {}
    \/ \E k \in diff(f, g) \cap {"model", "effort"} : g[k] = NoValue

\* has_armed_expiry_intent / the armed retained operations of a handle.
ArmedOps(h) == {o \in h.aborts : turn[o].intent = "armed"}

\* Fault: retained tokens are dropped without being fired.
fire_lingering_turn_abort_drops(t, S) == t

\* fire_lingering_turn_abort: cancel every retained token (t is the turn table).
fire_lingering_turn_abort(t, S) ==
    [o \in Op |-> IF o \in S THEN [t[o] EXCEPT !.fired = TRUE] ELSE t[o]]

\* Fault: retained operations are not reserved for the successor.
reserve_successor_skipped(t, S) == t

\* WarmExpiryIntent::reserve_successor on every retained operation.
reserve_successor(t, S) ==
    [o \in Op |-> IF o \in S /\ t[o].intent = "open"
                  THEN [t[o] EXCEPT !.intent = "reserved"] ELSE t[o]]

\* take_expiry_claim_locked, and its inlined copies in claim_release_locked, reap_idle and
\* the cancel flight: the handle leaves the table, its tokens are fired, a tombstone with a
\* fresh claim id takes its place and the claim becomes a detached cleanup flight.  An idle
\* handle has no operation; the code then mints one, which names no turn: NoOp here.
TakeClaim(c, o, claim, t) ==
    /\ handle' = [handle EXCEPT ![c] = NoHandle]
    /\ tomb' = [tomb EXCEPT ![c] = [state |-> "Expiring", gen |-> handle[c].gen,
                                    op |-> o, claim |-> claim]]
    /\ flights' = flights \cup {[ctx |-> c, gen |-> handle[c].gen, op |-> o, claim |-> claim]}
    /\ turn' = fire_lingering_turn_abort(t, handle[c].aborts)
    /\ UNCHANGED retry

take_expiry_claim_locked(c, o, t) ==
    /\ TakeClaim(c, o, nextClaim, t)
    /\ nextClaim' = nextClaim + 1

\* Mint an operation, its token and its intent on a handle value h and hand the queued seed
\* and injects to the turn: warm_turn_from_handle.
MintTurn(c, h, t) ==
    /\ nextOp <= MaxOp
    /\ handle' = [handle EXCEPT ![c] =
                     [h EXCEPT !.state = "Running", !.op = nextOp,
                               !.aborts = h.aborts \cup {nextOp},
                               !.seed = NoSeed, !.injects = FALSE]]
    /\ turn' = [t EXCEPT ![nextOp] =
                   [NoTurn EXCEPT !.stage = "fresh", !.ctx = c, !.gen = h.gen]]
    /\ nextOp' = nextOp + 1

Return(p) == call' = [call EXCEPT ![p] = NoCall]

\* Room for the n operations a call may mint, beside the calls under way: a checkout mints one
\* on the handle it saw, and two when it has to open one.
MintingCalls(fresh) ==
    {q \in Caller : /\ call[q].kind \in {"checkout", "claim"} /\ call[q].pc # "teardown"
                    /\ fresh => ~call[q].saw}
RoomFor(n) ==
    nextOp + n + Cardinality(MintingCalls(FALSE)) + Cardinality(MintingCalls(TRUE)) <= MaxOp + 1

-----------------------------------------------------------------------------
(* checkout_turn: resume or mint the warm session of a context *)

\* Lock #1: precedence checks only; remember whether a handle was seen.
CheckoutLock1(p, c, r) ==
    /\ "checkout" \in Operations /\ RoomFor(IF live(c) THEN 1 ELSE 2)
    /\ call[p].pc = "ready"
    /\ tomb[c].state = "None"
    /\ handle[c].state \in {"Absent", "Idle"}
    /\ ~handle[c].retired
    /\ ArmedOps(handle[c]) = {}
    /\ call' = [call EXCEPT ![p] = [NoCall EXCEPT !.kind = "checkout", !.pc = "resolve",
                                        !.ctx = c, !.fp = r, !.saw = live(c)]]
    /\ UNCHANGED <<tables, flights, cancels, turn, nextId, nextOp, nextClaim>>

\* An idle handle that retains an armed operation is expired instead of being resumed; every
\* entry point (lock #1, checkout_existing_turn, claim_governed_locked) does this first.  The
\* code names the tombstone after the first armed operation; which one does not matter.
ExpireArmedIdle(c) ==
    /\ Operations \cap {"checkout", "existing", "governed"} # {}
    /\ tomb[c].state = "None"
    /\ handle[c].state = "Idle" /\ ~handle[c].retired
    /\ \E o \in ArmedOps(handle[c]) : take_expiry_claim_locked(c, o, turn)
    /\ UNCHANGED <<cancels, call, nextId, nextOp>>

\* registry.resolve_observed fails: nothing was claimed.
ResolveFails(p) ==
    /\ call[p].pc = "resolve"
    /\ Return(p)
    /\ UNCHANGED <<tables, flights, cancels, turn, nextId, nextOp, nextClaim>>

\* Fault: lock #2 does not look for a tombstone again.
Lock2Refuses_stale(k) ==
    LET c == k.ctx  h == handle[c] IN
    \/ live(c) /\ (h.retired \/ h.state # "Idle" \/ Refused(h.fp, k.fp))
    \/ ~live(c) /\ k.saw

\* Lock #2 re-validates everything lock #1 saw.
Lock2Refuses(k) ==
    LET c == k.ctx  h == handle[c] IN
    \/ tomb[c].state # "None"
    \/ live(c) /\ (h.retired \/ h.state # "Idle" \/ Refused(h.fp, k.fp))
    \/ ~live(c) /\ k.saw

CheckoutRefused(p) ==
    /\ call[p].kind = "checkout" /\ call[p].pc = "resolve"
    /\ Lock2Refuses(call[p])
    /\ Return(p)
    /\ UNCHANGED <<tables, flights, cancels, turn, nextId, nextOp, nextClaim>>

\* The failure observer armed the retained operation before the successor could reserve it.
CheckoutExpiresArmed(p) ==
    LET k == call[p]  c == k.ctx IN
    /\ k.kind = "checkout" /\ k.pc = "resolve"
    /\ ~Lock2Refuses(k) /\ live(c)
    /\ \E o \in ArmedOps(handle[c]) : take_expiry_claim_locked(c, o, turn)
    /\ Return(p)
    /\ UNCHANGED <<cancels, nextId, nextOp>>

\* No field differs: the idle handle runs again.
CheckoutReuse(p) ==
    LET k == call[p]  c == k.ctx IN
    /\ k.kind = "checkout" /\ k.pc = "resolve"
    /\ ~Lock2Refuses(k) /\ live(c)
    /\ ArmedOps(handle[c]) = {}
    /\ diff(handle[c].fp, k.fp) = {}
    /\ MintTurn(c, handle[c], reserve_successor(turn, handle[c].aborts))
    /\ Return(p)
    /\ UNCHANGED <<tomb, retry, flights, cancels, nextId, nextClaim>>

\* Model or effort differ: claim the handle and reconcile off the lock.
CheckoutReconcile(p) ==
    LET k == call[p]  c == k.ctx  h == handle[c] IN
    /\ k.kind = "checkout" /\ k.pc = "resolve"
    /\ ~Lock2Refuses(k) /\ live(c)
    /\ ArmedOps(h) = {}
    /\ diff(h.fp, k.fp) # {}
    /\ handle' = [handle EXCEPT ![c].state = "Reconciling", ![c].expire = FALSE]
    /\ turn' = reserve_successor(turn, h.aborts)
    /\ call' = [call EXCEPT ![p].pc = "reconcile", ![p].id = h.id, ![p].gen = h.gen]
    /\ UNCHANGED <<tomb, retry, flights, cancels, nextId, nextOp, nextClaim>>

\* The handle this call claimed is still exactly the one in the table.
still_ours(k, s) == handle[k.ctx].id = k.id /\ handle[k.ctx].state = s

\* reconcile_config returned: run the turn, or expire the handle when it was not applied or
\* a cancel or release arrived meanwhile.
ReconcileSettle(p, applied) ==
    LET k == call[p]  c == k.ctx  h == handle[c] IN
    /\ k.kind = "checkout" /\ k.pc = "reconcile"
    /\ IF still_ours(k, "Reconciling")
       THEN IF applied /\ ~h.expire
            THEN /\ MintTurn(c, [h EXCEPT !.fp = k.fp], turn)
                 /\ Return(p)
            ELSE /\ handle' = [handle EXCEPT ![c].state = "Expiring", ![c].aborts = {}]
                 /\ turn' = fire_lingering_turn_abort(turn, h.aborts)
                 /\ call' = [call EXCEPT ![p].pc = "teardown", ![p].ok = TRUE]
                 /\ UNCHANGED nextOp
       ELSE Return(p) /\ UNCHANGED <<handle, turn, nextOp>>
    /\ UNCHANGED <<tomb, retry, flights, cancels, nextId, nextClaim>>

\* No handle at lock #1 nor at lock #2: claim a fresh one and configure it off the lock.
CheckoutFresh(p) ==
    LET k == call[p]  c == k.ctx IN
    /\ k.kind = "checkout" /\ k.pc = "resolve"
    /\ ~Lock2Refuses(k) /\ ~live(c)
    /\ nextOp <= MaxOp
    /\ handle' = [handle EXCEPT ![c] = [NoHandle EXCEPT !.id = nextId, !.state = "Configuring",
                                                        !.fp = k.fp, !.op = nextOp]]
    /\ call' = [call EXCEPT ![p].pc = "configure", ![p].id = nextId, ![p].gen = 0,
                            ![p].op = nextOp]
    /\ nextId' = nextId + 1
    /\ nextOp' = nextOp + 1
    /\ UNCHANGED <<tomb, retry, flights, cancels, turn, nextClaim>>

\* Fault: a failed configure returns to the client without settling its claim.
ConfigureSettle_returns(p, cfg) ==
    LET k == call[p] IN
    /\ k.kind = "checkout" /\ k.pc = "configure"
    /\ Return(p)
    /\ IF cfg THEN MintTurn(k.ctx, handle[k.ctx], turn) ELSE UNCHANGED <<handle, turn, nextOp>>
    /\ UNCHANGED <<tomb, retry, flights, cancels, nextId, nextClaim>>

\* Lock #3: configure_session returned; settle the exact claim.  (The defensive branch also
\* releases the session; ClaimExact says it is never taken.)
ConfigureSettle(p, cfg) ==
    LET k == call[p]  c == k.ctx  h == handle[c] IN
    /\ k.kind = "checkout" /\ k.pc = "configure"
    /\ IF still_ours(k, "Configuring") /\ h.op = k.op
       THEN IF h.expire
            THEN /\ handle' = [handle EXCEPT ![c].state = "Expiring"]
                 /\ call' = [call EXCEPT ![p].pc = "teardown", ![p].ok = cfg]
                 /\ UNCHANGED <<turn, nextOp>>
            ELSE /\ Return(p)
                 /\ IF cfg
                    THEN MintTurn(c, h, turn)
                    ELSE /\ handle' = [handle EXCEPT ![c] = NoHandle]
                         /\ UNCHANGED <<turn, nextOp>>
       ELSE Return(p) /\ UNCHANGED <<handle, turn, nextOp>>
    /\ UNCHANGED <<tomb, retry, flights, cancels, nextId, nextClaim>>

\* The teardown's release_session (when k.ok) returned: whatever handle the context now has
\* leaves the table.
RemoveAfterRelease(p, kind) ==
    /\ call[p].kind = kind /\ call[p].pc = "teardown"
    /\ handle' = [handle EXCEPT ![call[p].ctx] = NoHandle]
    /\ Return(p)
    /\ UNCHANGED <<tomb, retry, flights, cancels, turn, nextId, nextOp, nextClaim>>

CheckoutTeardown(p) == RemoveAfterRelease(p, "checkout")

\* checkout_existing_turn: continue under the stored fingerprint, under one lock hold.
CheckoutExisting(c) ==
    /\ "existing" \in Operations /\ RoomFor(1)
    /\ tomb[c].state = "None"
    /\ handle[c].state = "Idle" /\ ~handle[c].retired
    /\ ArmedOps(handle[c]) = {}
    /\ MintTurn(c, handle[c], reserve_successor(turn, handle[c].aborts))
    /\ UNCHANGED <<tomb, retry, flights, cancels, call, nextId, nextClaim>>

-----------------------------------------------------------------------------
(* Turns: the producer and its WarmCompletionGuard *)

\* The first poll of an ordinary turn's prompt; the producer's select looks at the token first.
TurnPoll(o) ==
    LET t == turn[o] IN
    /\ t.stage = "fresh" /\ ~t.fired
    /\ t.id = 0
    /\ turn' = [turn EXCEPT ![o].stage = "prompting"]
    /\ UNCHANGED <<tables, flights, cancels, call, nextId, nextOp, nextClaim>>

\* observe_exit: the turn ended normally, was cancelled or abandoned ("finish"), or failed in
\* a way that makes the session unusable ("expire", which arms the intent at once).
TurnExit(o, a) ==
    LET t == turn[o] IN
    /\ t.stage \in {"fresh", "prompting"}
    /\ turn' = [turn EXCEPT ![o].stage = "exited", ![o].act = a,
                            ![o].intent = IF a = "expire" /\ t.intent = "open"
                                          THEN "armed" ELSE t.intent]
    /\ UNCHANGED <<tables, flights, cancels, call, nextId, nextOp, nextClaim>>

done(o) == [turn EXCEPT ![o].stage = "done"]

\* A governed turn that ends before its first poll gives up its marker.
gov_after_finish(h, ready) == IF ready THEN "none" ELSE h.gov

\* finish_owned_turn: idle the handle if this very operation still runs it; a completion that
\* is stale touches nothing but its own token.
finish_owned_turn(o) ==
    LET t == turn[o]  c == t.ctx  h == handle[c]
        current == live(c) /\ h.gen = t.gen
        owner == current /\ h.op = o
        ready == owner /\ h.gov = "ready"
        gov == gov_after_finish(h, ready)
        idle == owner /\ gov = "none" /\ h.state = "Running"
    IN
    /\ t.stage = "exited" /\ t.act = "finish"
    /\ IF ready /\ h.expire
       THEN take_expiry_claim_locked(c, o, done(o))
       ELSE /\ handle' = [handle EXCEPT ![c] =
                 IF current
                 THEN [h EXCEPT !.gov = gov, !.aborts = h.aborts \ {o},
                                !.state = IF idle THEN "Idle" ELSE h.state,
                                !.op = IF idle THEN NoOp ELSE h.op]
                 ELSE h]
            /\ turn' = done(o)
            /\ UNCHANGED <<tomb, retry, flights, nextClaim>>
    /\ UNCHANGED <<cancels, call, nextId, nextOp>>

\* begin_expire_current: the exact operation's structured failure expires the handle, or
\* becomes a deferred expiry when a cancel flight or a governed successor owns it.
begin_expire_current(o) ==
    LET t == turn[o]  c == t.ctx  h == handle[c]
        current == tomb[c].state = "None" /\ live(c) /\ h.gen = t.gen
        retained == h.op # o /\ o \in ArmedOps(h)
        successor == current /\ retained /\ h.gov # "none"
        cancelling == current /\ h.op = o /\ h.state = "Cancelling"
        matches_current == current /\ (\/ h.op = o /\ h.state = "Running"
                                       \/ h.op = NoOp /\ h.state = "Idle" /\ retained)
    IN
    /\ t.stage = "exited" /\ t.act = "expire"
    /\ IF matches_current /\ ~successor
       THEN take_expiry_claim_locked(c, o, done(o))
       ELSE /\ handle' = [handle EXCEPT ![c].expire = @ \/ successor \/ cancelling]
            /\ turn' = IF successor THEN fire_lingering_turn_abort(done(o), {h.op}) ELSE done(o)
            /\ UNCHANGED <<tomb, retry, flights, nextClaim>>
    /\ UNCHANGED <<cancels, call, nextId, nextOp>>

-----------------------------------------------------------------------------
(* Cleanup flights *)

\* Fault: a failed cleanup is not recorded, as if only success settled the claim.
CleanupSettle_success_only(f, ok) ==
    /\ flights' = flights \ {f}
    /\ tomb' = [tomb EXCEPT ![f.ctx] = IF ok THEN NoTomb ELSE @]
    /\ UNCHANGED <<handle, retry, cancels, call, turn, nextId, nextOp, nextClaim>>

\* release_session_checked returned (or its task panicked): settle the exact claim.
CleanupSettle(f, ok) ==
    LET c == f.ctx
        matches_claim == /\ tomb[c].state # "None" /\ tomb[c].gen = f.gen
                         /\ tomb[c].op = f.op /\ tomb[c].claim = f.claim
    IN
    /\ flights' = flights \ {f}
    /\ tomb' = [tomb EXCEPT ![c] = IF ~matches_claim THEN @
                                   ELSE IF ok THEN NoTomb
                                   ELSE [@ EXCEPT !.state = "CleanupFailed"]]
    /\ retry' = [retry EXCEPT ![c] = IF matches_claim THEN ~ok ELSE @]
    /\ UNCHANGED <<handle, cancels, call, turn, nextId, nextOp, nextClaim>>

\* SessionRelease or SessionClear of a context whose cleanup failed: a fresh exact claim
\* re-enters the backend's cleanup.
RetryCleanup(c) ==
    /\ Operations \cap {"release", "clear"} # {}
    /\ tomb[c].state = "CleanupFailed" /\ retry[c]
    /\ nextClaim <= MaxClaim
    /\ retry' = [retry EXCEPT ![c] = FALSE]
    /\ tomb' = [tomb EXCEPT ![c].state = "Expiring", ![c].claim = nextClaim]
    /\ flights' = flights \cup {[ctx |-> c, gen |-> tomb[c].gen, op |-> tomb[c].op,
                                 claim |-> nextClaim]}
    /\ nextClaim' = nextClaim + 1
    /\ UNCHANGED <<handle, cancels, call, turn, nextId, nextOp>>

-----------------------------------------------------------------------------
(* SessionRelease, SessionCancel and the idle reaper *)

\* A governed claim owns the handle: abort it and let its settlement expire the handle.
AbortGoverned(c, expire) ==
    /\ handle[c].gov # "none"
    /\ turn' = fire_lingering_turn_abort(turn, {handle[c].op})
    /\ handle' = [handle EXCEPT ![c].expire = @ \/ expire]
    /\ UNCHANGED <<tomb, retry, flights, cancels, call, nextId, nextOp, nextClaim>>

\* A claimed state: the in-flight owner expires the handle when it settles.
DeferExpiry(c) ==
    /\ handle[c].gov = "none"
    /\ ~handle[c].expire
    /\ handle' = [handle EXCEPT ![c].expire = TRUE]
    /\ UNCHANGED <<tomb, retry, flights, cancels, call, turn, nextId, nextOp, nextClaim>>

ReleaseGoverned(c) == "release" \in Operations /\ AbortGoverned(c, TRUE)

ReleaseDeferred(c) == /\ "release" \in Operations
                      /\ is_claimed(handle[c].state)
                      /\ DeferExpiry(c)

\* Fault: a release does not see that a governed claim owns the handle.
Release_steals(c) ==
    /\ "release" \in Operations
    /\ tomb[c].state = "None"
    /\ live(c) /\ ~is_claimed(handle[c].state)
    /\ take_expiry_claim_locked(c, handle[c].op, turn)
    /\ UNCHANGED <<cancels, call, nextId, nextOp>>

\* claim_release_locked: a running turn loses its session; its token tells it so.
Release(c) ==
    /\ "release" \in Operations
    /\ tomb[c].state = "None"
    /\ live(c) /\ handle[c].gov = "none" /\ ~is_claimed(handle[c].state)
    /\ take_expiry_claim_locked(c, handle[c].op, turn)
    /\ UNCHANGED <<cancels, call, nextId, nextOp>>

\* reap_idle: an idle handle past its time-to-live (any idle handle may be).
Reap(c) ==
    /\ "reap" \in Operations
    /\ handle[c].state = "Idle"
    /\ take_expiry_claim_locked(c, handle[c].op, turn)
    /\ UNCHANGED <<cancels, call, nextId, nextOp>>

CancelGoverned(c) == "cancel" \in Operations /\ AbortGoverned(c, FALSE)

\* A second cancel of a Cancelling handle is accepted and changes nothing.
CancelDeferred(c) == /\ "cancel" \in Operations
                     /\ is_claimed(handle[c].state) /\ handle[c].state # "Cancelling"
                     /\ DeferExpiry(c)

\* Keep-warm cancel of a running turn: the token is neither fired nor removed.
Cancel(c) ==
    LET h == handle[c] IN
    /\ "cancel" \in Operations
    /\ tomb[c].state = "None"
    /\ h.state = "Running" /\ h.gov = "none"
    /\ handle' = [handle EXCEPT ![c].state = "Cancelling"]
    /\ cancels' = cancels \cup {[ctx |-> c, gen |-> h.gen, id |-> h.id, claim |-> nextClaim]}
    /\ nextClaim' = nextClaim + 1
    /\ UNCHANGED <<tomb, retry, flights, call, turn, nextId, nextOp>>

\* Fault: an expiry deferred by a release is not looked at.
deferred_onto_cancel_missed(h) == h.op \in ArmedOps(h)

\* What forbids keeping a cancelled session warm.
deferred_onto_cancel(h) == h.expire \/ h.op \in ArmedOps(h)

\* backend.cancel returned: keep the session warm, or expire it when the cancel failed or an
\* expiry was deferred onto it.
CancelSettle(x, ok) ==
    LET c == x.ctx  h == handle[c] IN
    /\ cancels' = cancels \ {x}
    /\ IF h.id = x.id /\ h.state = "Cancelling"
       THEN IF ok /\ ~deferred_onto_cancel(h)
            THEN /\ handle' = [handle EXCEPT ![c].state = "Idle", ![c].op = NoOp]
                 /\ UNCHANGED <<tomb, retry, flights, turn>>
            ELSE TakeClaim(c, h.op, x.claim, turn)
       ELSE UNCHANGED <<tables, flights, turn>>
    /\ UNCHANGED <<call, nextId, nextOp, nextClaim>>

-----------------------------------------------------------------------------
(* SessionClear (reset_session) and SessionCompact *)

ClearGoverned(c) == "clear" \in Operations /\ AbortGoverned(c, TRUE)

\* A forced clear of a handle whose first configure is still running.
ClearConfiguring(c) == /\ "clear" \in Operations
                       /\ handle[c].state = "Configuring"
                       /\ DeferExpiry(c)

\* Claim an idle handle (or, with force, a running one): its tokens are fired at once.
Clear(p, c, force) ==
    LET h == handle[c] IN
    /\ "clear" \in Operations
    /\ call[p].pc = "ready"
    /\ h.gov = "none"
    /\ h.state = "Idle" \/ (force /\ h.state = "Running")
    /\ h.gen < MaxGen
    /\ handle' = [handle EXCEPT ![c].state = "Resetting", ![c].expire = FALSE, ![c].aborts = {}]
    /\ turn' = fire_lingering_turn_abort(turn, h.aborts)
    /\ call' = [call EXCEPT ![p] = [NoCall EXCEPT !.kind = "clear", !.ctx = c, !.id = h.id,
                  !.gen = h.gen, !.pc = IF force THEN "cancel_old" ELSE "release_old"]]
    /\ UNCHANGED <<tomb, retry, flights, cancels, nextId, nextOp, nextClaim>>

\* The forced pre-cancel returned; its result is ignored.
CancelOld(p) ==
    /\ call[p].kind = "clear" /\ call[p].pc = "cancel_old"
    /\ call' = [call EXCEPT ![p].pc = "release_old"]
    /\ UNCHANGED <<tables, flights, cancels, turn, nextId, nextOp, nextClaim>>

\* Fault: the generation of the new session is counted down.
ReleasedOld_down(p) ==
    /\ call[p].kind \in {"clear", "compact"} /\ call[p].pc = "release_old"
    /\ call' = [call EXCEPT ![p].pc = "configure", ![p].gen = @ - 1]
    /\ UNCHANGED <<tables, flights, cancels, turn, nextId, nextOp, nextClaim>>

\* release_session(old) returned: configure the session of the next generation.
ReleasedOld(p) ==
    /\ call[p].kind \in {"clear", "compact"} /\ call[p].pc = "release_old"
    /\ call' = [call EXCEPT ![p].pc = "configure", ![p].gen = @ + 1]
    /\ UNCHANGED <<tables, flights, cancels, turn, nextId, nextOp, nextClaim>>

\* The new session was configured and no expiry was deferred onto the claim.
Commits(cfg, h) == cfg /\ ~h.expire

\* The common tail of reset and compact: commit generation N+1, or tear the claim down.
RenewSettle(p, cfg, kind, state) ==
    LET k == call[p]  c == k.ctx  h == handle[c] IN
    /\ k.kind = kind /\ k.pc = "configure"
    /\ IF still_ours(k, state)
       THEN IF Commits(cfg, h)
            THEN /\ handle' = [handle EXCEPT ![c] =
                       [h EXCEPT !.gen = k.gen, !.op = NoOp, !.aborts = {}, !.state = "Idle",
                                 !.seed = IF kind = "compact" THEN k.gen ELSE NoSeed,
                                 !.injects = IF kind = "compact" THEN h.injects ELSE FALSE]]
                 /\ Return(p)
            ELSE /\ call' = [call EXCEPT ![p].pc = "teardown", ![p].ok = cfg]
                 /\ UNCHANGED handle
       ELSE Return(p) /\ UNCHANGED handle
    /\ UNCHANGED <<tomb, retry, flights, cancels, turn, nextId, nextOp, nextClaim>>

ClearSettle(p, cfg) == RenewSettle(p, cfg, "clear", "Resetting")

ClearTeardown(p) == RemoveAfterRelease(p, "clear")

\* Fault: a handle with an undelivered summary is compacted again.
Compactable_again(h) == h.state = "Idle"

\* Nothing is queued for the next turn: no summary, which would be lost, and no injects.
Compactable(h) == h.state = "Idle" /\ h.seed = NoSeed /\ ~h.injects

\* Claim an idle handle with nothing queued for its next turn.  No token is fired: the old
\* session is prompted once more, to summarize it.
Compact(p, c) ==
    LET h == handle[c] IN
    /\ "compact" \in Operations
    /\ call[p].pc = "ready"
    /\ Compactable(h)
    /\ h.gen < MaxGen
    /\ handle' = [handle EXCEPT ![c].state = "Compacting", ![c].expire = FALSE]
    /\ call' = [call EXCEPT ![p] = [NoCall EXCEPT !.kind = "compact", !.ctx = c, !.id = h.id,
                  !.gen = h.gen, !.pc = "summarize"]]
    /\ UNCHANGED <<tomb, retry, flights, cancels, turn, nextId, nextOp, nextClaim>>

\* Fault: a bad summary is reported to the caller without resolving the claim.
Summarized_returns(p, good) ==
    /\ call[p].kind = "compact" /\ call[p].pc = "summarize"
    /\ IF good THEN call' = [call EXCEPT ![p].pc = "release_old"] ELSE Return(p)
    /\ UNCHANGED <<tables, flights, cancels, turn, nextId, nextOp, nextClaim>>

\* The summary arrived; or it failed, was empty or timed out, and the handle is expired.
Summarized(p, good) ==
    LET k == call[p]  c == k.ctx IN
    /\ k.kind = "compact" /\ k.pc = "summarize"
    /\ IF good
       THEN call' = [call EXCEPT ![p].pc = "release_old"] /\ UNCHANGED handle
       ELSE IF still_ours(k, "Compacting")
            THEN /\ handle' = [handle EXCEPT ![c].state = "Expiring"]
                 /\ call' = [call EXCEPT ![p].pc = "teardown", ![p].ok = TRUE]
            ELSE Return(p) /\ UNCHANGED handle
    /\ UNCHANGED <<tomb, retry, flights, cancels, turn, nextId, nextOp, nextClaim>>

CompactSettle(p, cfg) == RenewSettle(p, cfg, "compact", "Compacting")

CompactTeardown(p) == RemoveAfterRelease(p, "compact")

-----------------------------------------------------------------------------
(* Governed claims: reversible ownership of one operation, before and after admission *)

\* An explicit agent, cwd or mode must match; an omitted field inherits the handle's value.
GovernedMismatch(f, r) ==
    \E k \in {"agent", "cwd", "mode"} : r[k] # NoValue /\ r[k] # f[k]
Intended(f, r) == [k \in Fields |-> IF r[k] = NoValue THEN f[k] ELSE r[k]]

\* The part of claim_governed_locked that takes the handle value h.
GovernedClaim(c, h, fp, fresh) ==
    /\ nextOp <= MaxOp
    /\ handle' = [handle EXCEPT ![c] = [h EXCEPT !.state = "Running", !.op = nextOp,
                                                 !.gov = "claimed"]]
    /\ turn' = [turn EXCEPT ![nextOp] = [NoTurn EXCEPT !.stage = "claimed", !.ctx = c,
                   !.gen = h.gen, !.id = h.id, !.fp = fp, !.fresh = fresh]]
    /\ nextOp' = nextOp + 1

claim_governed_locked(c, r) ==
    LET h == handle[c] IN
    /\ "governed" \in Operations /\ RoomFor(1)
    /\ tomb[c].state = "None"
    /\ h.state = "Idle" /\ ~h.retired
    /\ ArmedOps(h) = {}
    /\ ~GovernedMismatch(h.fp, r)
    /\ GovernedClaim(c, h, Intended(h.fp, r), FALSE)
    /\ UNCHANGED <<tomb, retry, flights, cancels, call, nextId, nextClaim>>

\* claim_turn_observed of an unknown context resolves the agent off the lock ...
ClaimLock1(p, c, r) ==
    /\ "governed" \in Operations /\ RoomFor(2)
    /\ call[p].pc = "ready"
    /\ tomb[c].state = "None" /\ ~live(c)
    /\ call' = [call EXCEPT ![p] = [NoCall EXCEPT !.kind = "claim", !.pc = "resolve",
                                        !.ctx = c, !.fp = r]]
    /\ UNCHANGED <<tables, flights, cancels, turn, nextId, nextOp, nextClaim>>

\* ... and gives up if the context appeared meanwhile, else inserts and claims a new handle.
ClaimLock2(p) ==
    LET k == call[p]  c == k.ctx IN
    /\ k.kind = "claim" /\ k.pc = "resolve"
    /\ Return(p)
    /\ IF live(c) \/ tomb[c].state # "None"
       THEN UNCHANGED <<handle, turn, nextId, nextOp>>
       ELSE /\ GovernedClaim(c, [NoHandle EXCEPT !.id = nextId, !.fp = k.fp], k.fp, TRUE)
            /\ nextId' = nextId + 1
    /\ UNCHANGED <<tomb, retry, flights, cancels, nextClaim>>

owns(o) ==
    LET t == turn[o]  h == handle[t.ctx] IN
    h.id = t.id /\ h.gen = t.gen /\ h.op = o /\ h.gov # "none"

stage(o, s) == [turn EXCEPT ![o].stage = s]

\* The store admitted the attempt and nobody cancelled the claim meanwhile.
Admit(o) ==
    /\ turn[o].stage = "claimed" /\ ~turn[o].fired
    /\ turn' = stage(o, "admitted")
    /\ UNCHANGED <<tables, flights, cancels, call, nextId, nextOp, nextClaim>>

\* Admission refused or cancelled, agent not resolved, rollback, or the claim dropped.
Rollback(o) ==
    /\ turn[o].stage \in {"claimed", "admitted"}
    /\ turn' = stage(o, "settling")
    /\ UNCHANGED <<tables, flights, cancels, call, nextId, nextOp, nextClaim>>

\* What both lock holds of apply_session check before going on.
Applicable(o) ==
    LET h == handle[turn[o].ctx] IN
    owns(o) /\ ~turn[o].fired /\ ~h.expire /\ ~h.retired

\* First lock of apply_session: from here on the backend session's content is uncertain.
ApplyLock1(o) ==
    LET h == handle[turn[o].ctx] IN
    /\ turn[o].stage = "admitted"
    /\ turn' = IF Applicable(o) /\ ArmedOps(h) = {}
               THEN [reserve_successor(turn, h.aborts) EXCEPT ![o].stage = "applying",
                                                              ![o].applying = TRUE]
               ELSE stage(o, "settling")
    /\ UNCHANGED <<tables, flights, cancels, call, nextId, nextOp, nextClaim>>

\* Second lock: configure / reconcile (made only when needed) returned.
ApplyLock2(o, ok) ==
    LET t == turn[o]  c == t.ctx  h == handle[c] IN
    /\ t.stage = "applying"
    /\ ok \/ t.fresh \/ h.fp # t.fp
    /\ IF ok /\ Applicable(o)
       THEN /\ handle' = [handle EXCEPT ![c] =
                  [h EXCEPT !.fp = t.fp, !.gov = "ready", !.aborts = h.aborts \cup {o},
                            !.seed = NoSeed, !.injects = FALSE]]
            /\ turn' = stage(o, "fresh")
       ELSE turn' = stage(o, "settling") /\ UNCHANGED handle
    /\ UNCHANGED <<tomb, retry, flights, cancels, call, nextId, nextOp, nextClaim>>

\* Fault: only an uncertain apply expires the handle.
expire_on_settle_applied(t, h) == t.applying

\* The session of a rolled back claim cannot be kept.
expire_on_settle(t, h) == t.applying \/ h.expire \/ ArmedOps(h) # {}

\* GovernedTurnClaim::settle, awaited or spawned by Drop.
GovernedSettle(o) ==
    LET t == turn[o]  c == t.ctx  h == handle[c]
        untouched == t.fresh /\ ~t.applying  \* never configured: nothing to release
    IN
    /\ t.stage = "settling"
    /\ IF owns(o) /\ ~untouched /\ expire_on_settle(t, h)
       THEN take_expiry_claim_locked(c, o, done(o))
       ELSE /\ handle' = [handle EXCEPT ![c] =
                 IF ~owns(o) THEN h
                 ELSE IF untouched THEN NoHandle
                 ELSE [h EXCEPT !.state = "Idle", !.op = NoOp, !.gov = "none"]]
            /\ turn' = done(o)
            /\ UNCHANGED <<tomb, retry, flights, nextClaim>>
    /\ UNCHANGED <<cancels, call, nextId, nextOp>>

\* first_poll: the last check of identity, under the lock, before the provider sees a prompt.
FirstPoll(o) ==
    LET t == turn[o]  c == t.ctx  h == handle[c]
        current == owns(o) /\ h.gov = "ready"
        sound == ~h.expire /\ ~h.retired /\ h.fp = t.fp IN
    /\ t.stage = "fresh" /\ t.id # 0
    /\ IF current /\ ~t.fired /\ sound
       THEN /\ handle' = [handle EXCEPT ![c].gov = "none"]
            /\ turn' = stage(o, "prompting")
       ELSE /\ handle' = [handle EXCEPT ![c].expire = @ \/ (current /\ ~t.fired)]
            /\ turn' = stage(o, "exited")
    /\ UNCHANGED <<tomb, retry, flights, cancels, call, nextId, nextOp, nextClaim>>

-----------------------------------------------------------------------------
(* The environment *)

\* SessionInject queues input for the next turn.
Inject(c) ==
    /\ "inject" \in Operations
    /\ handle[c].state \in {"Idle", "Running"} /\ ~handle[c].injects
    /\ handle' = [handle EXCEPT ![c].injects = TRUE]
    /\ UNCHANGED <<tomb, retry, flights, cancels, call, turn, nextId, nextOp, nextClaim>>

\* The registry retires the lease of a live handle (the agent's entry changed).
Retire(c) ==
    /\ "retire" \in Operations
    /\ live(c) /\ ~handle[c].retired
    /\ handle' = [handle EXCEPT ![c].retired = TRUE]
    /\ UNCHANGED <<tomb, retry, flights, cancels, call, turn, nextId, nextOp, nextClaim>>

\* The client disconnects and the server drops the request future at an await.
DropCall(p) ==
    /\ call[p].kind \in Droppable
    /\ Return(p)
    /\ UNCHANGED <<tables, flights, cancels, turn, nextId, nextOp, nextClaim>>

-----------------------------------------------------------------------------
(* Specification *)

Init ==
    /\ handle = [c \in Ctx |-> NoHandle]
    /\ tomb = [c \in Ctx |-> NoTomb]
    /\ retry = [c \in Ctx |-> FALSE]
    /\ flights = {}
    /\ cancels = {}
    /\ call = [p \in Caller |-> NoCall]
    /\ turn = [o \in Op |-> NoTurn]
    /\ nextId = 1 /\ nextOp = 1 /\ nextClaim = 1

CallStep(p) ==
    \/ ResolveFails(p) \/ CheckoutRefused(p) \/ CheckoutExpiresArmed(p)
    \/ CheckoutReuse(p) \/ CheckoutReconcile(p) \/ CheckoutFresh(p)
    \/ CheckoutTeardown(p) \/ CancelOld(p) \/ ReleasedOld(p)
    \/ ClearTeardown(p) \/ CompactTeardown(p) \/ ClaimLock2(p)
    \/ \E ok \in BOOLEAN : \/ ReconcileSettle(p, ok) \/ ConfigureSettle(p, ok)
                           \/ ClearSettle(p, ok) \/ Summarized(p, ok) \/ CompactSettle(p, ok)

TurnComplete(o) == finish_owned_turn(o) \/ begin_expire_current(o)

GovernedStep(o) ==
    \/ Admit(o) \/ Rollback(o) \/ ApplyLock1(o) \/ GovernedSettle(o) \/ FirstPoll(o)
    \/ \E ok \in BOOLEAN : ApplyLock2(o, ok)

FlightStep ==
    \/ \E f \in flights, ok \in BOOLEAN : CleanupSettle(f, ok)
    \/ \E x \in cancels, ok \in BOOLEAN : CancelSettle(x, ok)

TableCall(c) ==
    \/ ExpireArmedIdle(c) \/ CheckoutExisting(c) \/ RetryCleanup(c)
    \/ ReleaseGoverned(c) \/ ReleaseDeferred(c) \/ Release(c) \/ Reap(c)
    \/ CancelGoverned(c) \/ CancelDeferred(c) \/ Cancel(c)
    \/ ClearGoverned(c) \/ ClearConfiguring(c) \/ Inject(c) \/ Retire(c)
    \/ \E r \in Request \cup {NoFingerprint} : claim_governed_locked(c, r)

Next ==
    \/ \E p \in Caller, c \in Ctx :
          \/ \E r \in Request : CheckoutLock1(p, c, r) \/ ClaimLock1(p, c, r)
          \/ \E force \in BOOLEAN : Clear(p, c, force)
          \/ Compact(p, c)
    \/ \E p \in Caller : CallStep(p) \/ DropCall(p)
    \/ \E c \in Ctx : TableCall(c)
    \/ \E o \in Op : \/ TurnPoll(o) \/ TurnComplete(o) \/ GovernedStep(o)
                     \/ \E a \in {"finish", "expire"} : TurnExit(o, a)
    \/ FlightStep

Spec == Init /\ [][Next]_vars

\* Every await returns: the backend answers each call, a spawned task is polled, and a
\* producer whose token fired or whose stream ended completes its guard.  No fairness for
\* callers, for operators, or for a prompt that runs.
Fairness ==
    /\ \A p \in Caller : WF_vars(CallStep(p))
    /\ \A o \in Op : /\ WF_vars(TurnComplete(o)) /\ WF_vars(GovernedStep(o))
                     /\ WF_vars(turn[o].fired /\ TurnExit(o, "finish"))
    /\ \A c \in Ctx : /\ WF_vars(\E f \in flights, ok \in BOOLEAN :
                                     f.ctx = c /\ CleanupSettle(f, ok))
                      /\ WF_vars(\E x \in cancels, ok \in BOOLEAN :
                                     x.ctx = c /\ CancelSettle(x, ok))

FairSpec == Spec /\ Fairness

-----------------------------------------------------------------------------
(* Properties *)

\* The types of the manager's tables and tasks, as the Rust declarations give them.
TypeOK ==
    /\ handle \in [Ctx -> HandleRecord]
    /\ tomb \in [Ctx -> TombRecord]
    /\ retry \in [Ctx -> BOOLEAN]
    /\ flights \subseteq FlightRecord
    /\ cancels \subseteq CancelRecord
    /\ call \in [Caller -> CallRecord]
    /\ turn \in [Op -> TurnRecord]
    /\ nextId \in Nat \ {0} /\ nextOp \in Nat \ {0} /\ nextClaim \in Nat \ {0}

\* A context is in exactly one of the table's maps: a live handle excludes a tombstone and a
\* retry capability (the debug assertions of SessionTable::insert), and a retry capability is
\* kept exactly while the tombstone says the cleanup failed.
TableExclusive ==
    \A c \in Ctx :
        /\ live(c) => tomb[c].state = "None" /\ ~retry[c]
        /\ retry[c] <=> tomb[c].state = "CleanupFailed"

\* An expiring tombstone belongs to one running cleanup flight, which carries its exact
\* generation, operation and claim id, so its settlement is never ignored as stale; and a
\* flight without its tombstone does not exist.
TombstoneOwned ==
    /\ \A c \in Ctx : tomb[c].state = "Expiring" => \E f \in flights : f.ctx = c
    /\ \A f \in flights : /\ tomb[f.ctx].state = "Expiring"
                          /\ tomb[f.ctx].gen = f.gen /\ tomb[f.ctx].op = f.op
                          /\ tomb[f.ctx].claim = f.claim
    /\ \A f, g \in flights : f.ctx = g.ctx => f = g

Claiming(p) == call[p].pc \notin {"ready", "resolve"}

\* The states the handle of a claiming call may be in.
ClaimStates(k) ==
    IF k.kind = "clear" THEN {"Resetting"}
    ELSE IF k.kind = "checkout" THEN
        IF k.pc = "reconcile" THEN {"Reconciling"}
        ELSE IF k.pc = "configure" THEN {"Configuring"} ELSE {"Expiring"}
    ELSE IF k.pc = "teardown" THEN {"Compacting", "Expiring"} ELSE {"Compacting"}

\* The handle a call claimed before its awaits is the very handle it finds after them: the
\* defensive "not still ours" branches are unreachable, which the fresh checkout's release of
\* the reusable generation-0 id depends on.
ClaimExact ==
    /\ \A p \in Caller : Claiming(p) =>
          LET k == call[p]  h == handle[k.ctx] IN
          h.id = k.id /\ h.state \in ClaimStates(k)
    /\ \A x \in cancels : handle[x.ctx].id = x.id /\ handle[x.ctx].state = "Cancelling"
    /\ \A p, q \in Caller : Claiming(p) /\ Claiming(q) /\ p # q => call[p].ctx # call[q].ctx
    /\ \A x, y \in cancels : x.ctx = y.ctx => x = y

\* A call between its claim and its settlement, or a cancel flight, owns a claimed handle.
ClaimHasOwner ==
    \A c \in Ctx : is_claimed(handle[c].state) =>
        \/ \E p \in Caller : Claiming(p) /\ call[p].ctx = c
        \/ \E x \in cancels : x.ctx = c

GovernedStages == {"claimed", "admitted", "applying", "settling"}

\* A running handle belongs to one operation of its own generation that has not completed.
RunningHasOwner ==
    \A c \in Ctx : handle[c].state = "Running" =>
        LET h == handle[c] IN
        /\ h.op \in Op
        /\ turn[h.op].ctx = c /\ turn[h.op].gen = h.gen
        /\ turn[h.op].stage \notin {"none", "done"}
        /\ h.gov = "claimed" <=> turn[h.op].stage \in GovernedStages

\* Whatever handle is not free has somebody who will give it back: a claimed one the call or
\* the flight that settles it, a running one the guard or the governed claim of its turn.
\* Otherwise the context would refuse every later use.
HasOwner == ClaimHasOwner /\ RunningHasOwner

\* From its claim to its settlement a governed claim owns its handle: no release, cancel,
\* clear, reaper, completion or checkout takes the handle, renews its generation or gives it
\* to another operation under the claim, so the owner checks after its awaits never fail.
GovernedExact ==
    \A o \in Op : turn[o].stage \in GovernedStages =>
        owns(o) /\ handle[turn[o].ctx].gov = "claimed"

\* Sessions with a configure or a release call outstanding at the backend.
ConfiguringSessions ==
    {<<call[p].ctx, call[p].gen>> : p \in {q \in Caller : call[q].pc = "configure"}}
    \cup {<<turn[o].ctx, turn[o].gen>> : o \in {x \in Op : turn[x].stage = "applying"}}
ReleasingCalls == {p \in Caller : \/ call[p].pc = "release_old"
                                  \/ call[p].pc = "teardown" /\ call[p].ok}
ReleasingSessions ==
    {<<call[p].ctx, call[p].gen>> : p \in ReleasingCalls}
    \cup {<<f.ctx, f.gen>> : f \in flights}

\* The backend never sees a configure of a session race a release of the same session, and no
\* session of a handle a turn can use is being released: although ids are reused by successor
\* handles, a teardown in flight never hits its successor.
BackendSerial ==
    /\ ConfiguringSessions \cap ReleasingSessions = {}
    /\ \A c \in Ctx : handle[c].state \in {"Idle", "Running", "Cancelling", "Reconciling"} =>
          <<c, handle[c].gen>> \notin ReleasingSessions

\* A turn that may still reach its prompt without having been told to stop has its token on
\* the live handle of its own session: whoever releases that session can, and does, fire the
\* token first, so the producer cannot re-create a released session.
TokenReachable ==
    \A o \in Op : turn[o].stage \in {"fresh", "prompting"} /\ ~turn[o].fired =>
        LET h == handle[turn[o].ctx] IN
        /\ h.state # "Absent" /\ h.gen = turn[o].gen
        /\ o \in h.aborts

\* No successor runs, or reconfigures, a session whose earlier operation has been observed to
\* have failed: a failure that arms the intent first wins over every later checkout.
SuccessorSafe ==
    \A c \in Ctx :
        LET h == handle[c] IN
        \/ h.state = "Reconciling"
        \/ h.state \in {"Running", "Cancelling"} /\ h.gov # "claimed"
        => ArmedOps(h) \ {h.op} = {}

\* A cancel, release or clear that was accepted while a claim owned the handle stays pending
\* only as long as that claim: it is never carried over to a handle that is usable again.
DeferredNotLost ==
    \A c \in Ctx : handle[c].expire => is_claimed(handle[c].state) \/ handle[c].gov # "none"

\* A compaction summary waiting for the next turn leaves the handle only with a turn that
\* takes it, with a clear, or with the handle: it is never overwritten by another compaction.
SummaryNotLost ==
    [][\A c \in Ctx :
          handle[c].seed # NoSeed /\ handle'[c].seed # handle[c].seed =>
              \/ handle'[c].state = "Absent"
              \/ handle'[c].state = "Running" /\ handle'[c].op \in handle'[c].aborts \ handle[c].aborts
              \/ handle[c].state = "Resetting" /\ handle'[c].gen = handle[c].gen + 1]_vars

\* Every claimed state is eventually left: no context is refused for ever.
ClaimsSettle == \A c \in Ctx : is_claimed(handle[c].state) ~> ~is_claimed(handle[c].state)

\* An expiring tombstone becomes free for a new session or reports a failed cleanup.
CleanupSettles == \A c \in Ctx : tomb[c].state = "Expiring" ~> tomb[c].state # "Expiring"

\* A deferred expiry takes effect: the handle it was accepted for goes away.
DeferredExpires ==
    \A c \in Ctx, i \in Op : handle[c].id = i /\ handle[c].expire ~> handle[c].id # i

\* The slot a caller sees in the table.
SlotState(h, t) ==
    IF t.state = "Expiring" \/ h.state = "Expiring" THEN "closing"
    ELSE IF t.state = "CleanupFailed" THEN "failed"
    ELSE IF h.state = "Absent" THEN "vacant"
    ELSE IF h.state = "Idle" THEN "idle" ELSE "owned"
SlotView == [c \in Ctx |-> SlotState(handle[c], tomb[c])]
GenView == [c \in Ctx |-> handle[c].gen + tomb[c].gen]

Slot == INSTANCE SessionSlot WITH slot <- SlotView, gen <- GenView

\* The manager implements one exclusively owned slot per context.
ImplementsSlot == Slot!Spec

=============================================================================
