--------------------------- MODULE WarmLifeProofs ---------------------------
(***************************************************************************)
(* The lives of handles and turns agree, for any contexts, callers and     *)
(* bounds: no deferred expiry is lost, no successor runs a failed session, *)
(* governed claims own their handles, tokens stay where a release finds    *)
(* them and the backend's calls are serialized.                            *)
(*                                                                         *)
(* The inductive invariant relates every handle to the turns (HandleFit)   *)
(* and every turn to the handle of its context (TurnFit), on top of the    *)
(* tables and claims of WarmSessionProofs.  A step edits the handle of one *)
(* context and the turns of that context only (Frame); what is left to     *)
(* show per action is that the edited handle and the edited turn still     *)
(* fit.                                                                    *)
(***************************************************************************)
EXTENDS WarmSessionProofs

\* A handle whose retained operations had their chance to fail before its successor came.
Succeeds(h) == \/ h.state = "Reconciling"
               \/ h.state \in {"Running", "Cancelling"} /\ h.gov # "claimed"

\* What is owed between handle h of context c and the turns t, when n operations are minted.
Minted(h, n) == h.op < n /\ \A x \in h.aborts : x < n
\* A free slot remembers nothing of the handle that left it.
VacantEmpty(h) == h.state = "Absent" => h = NoHandle
\* A handle that nobody runs names no operation.
IdleUnowned(h) == h.state \in {"Idle", "Reconciling"} => h.op = NoOp
\* The tokens were fired before the session could be torn down, except by a compaction.
TokensSpent(h) ==
    /\ h.state \in {"Configuring", "Resetting"} => h.aborts = {}
    /\ "compact" \notin Operations => /\ h.state # "Compacting"
                                      /\ h.state = "Expiring" => h.aborts = {}
\* A compaction starts without a waiting summary.
NoSummary(h) == h.state = "Compacting" => h.seed = NoSeed
\* A deferred expiry has the claim it was deferred onto.
DeferralOwned(h) == h.expire => h.state \in ClaimedStates \/ h.gov # "none"
\* Every earlier operation retained on a handle with a successor is reserved for it.
OthersReserved(h, t) ==
    Succeeds(h) => \A x \in h.aborts \ {h.op} : t[x].intent = "reserved"
\* Turn u is the one that runs handle h of context c.
Runs(c, h, u) ==
    /\ u.ctx = c /\ u.gen = h.gen
    /\ u.stage \notin {"none", "done"}
    /\ h.gov = "claimed" <=> u.stage \in GovernedStages
RunnerFit(c, h, t) == h.state = "Running" => h.op \in Op /\ Runs(c, h, t[h.op])

\* All that handle h of context c owes.
HandleFit(c, h, t, n) ==
    /\ Minted(h, n) /\ VacantEmpty(h) /\ IdleUnowned(h) /\ TokensSpent(h)
    /\ NoSummary(h) /\ DeferralOwned(h) /\ OthersReserved(h, t) /\ RunnerFit(c, h, t)

\* A governed claim o holds its handle h, and what it may rely on there.
ClaimFit(o, t, h) ==
    /\ h.id = t[o].id /\ h.gen = t[o].gen /\ h.op = o /\ h.gov = "claimed"
    /\ o \notin h.aborts
    /\ t[o].fresh /\ ~t[o].applying => h.aborts = {}
    /\ t[o].stage = "applying" =>
          t[o].applying /\ \A x \in h.aborts : t[x].intent = "reserved"
\* The token of turn u is where a release of its session finds it.
TokenFit(o, u, h) ==
    "compact" \notin Operations /\ u.stage \in {"fresh", "prompting"} /\ ~u.fired =>
        h.state # "Absent" /\ h.gen = u.gen /\ o \in h.aborts
\* All that operation o owes to the handle h of its context.
TurnFit(o, t, h, n) ==
    /\ o >= n => t[o].stage = "none"
    /\ t[o].stage \in GovernedStages => ClaimFit(o, t, h)
    /\ TokenFit(o, t[o], h)

\* The inductive invariant.
HandlesFit == \A c \in Ctx : HandleFit(c, handle[c], turn, nextOp)
TurnsFit == \A o \in Op : TurnFit(o, turn, handle[turn[o].ctx], nextOp)
LifeInv == HandlesFit /\ TurnsFit

\* What the turns outside O keep, and how far those inside may change: an operation in O is of
\* context c, before and after, or newly minted, and a reserved intent stays reserved.
Keeps(t, u) ==
    /\ u.ctx = t.ctx /\ u.gen = t.gen /\ u.id = t.id /\ u.fresh = t.fresh
    /\ u.applying = t.applying /\ u.stage = t.stage
    /\ t.fired => u.fired
    /\ u.intent = t.intent \/ u.intent = "reserved"
\* A step on the handle of c and on the turns in O.
Frame(c, O) ==
    /\ \A d \in Ctx \ {c} : handle'[d] = handle[d]
    /\ nextOp' >= nextOp
    /\ \A x \in Op \ O : Keeps(turn[x], turn'[x])
    /\ \A x \in O : /\ turn'[x].ctx = c
                    /\ turn[x].ctx = c \/ x >= nextOp
                    /\ x < nextOp /\ turn[x].intent = "reserved" => turn'[x].intent = "reserved"

\* The records in reach of the invariant are well typed.
LifeTyped ==
    /\ \A c \in Ctx : /\ handle[c] \in HandleRecord
                      /\ handle[c].aborts \subseteq Op
                      /\ handle[c].op \in Nat /\ handle[c].gen \in Nat
    /\ \A o \in Op : turn[o] \in TurnRecord /\ turn[o].ctx \in Ctx
    /\ nextOp \in Nat \ {0} /\ Op \subseteq Nat

\* They follow from the type invariant.
LEMMA LifeTypes == TypeOK => LifeTyped
<1> SUFFICES ASSUME TypeOK PROVE LifeTyped
  OBVIOUS
<1>1. \A c \in Ctx : handle[c] \in HandleRecord
  BY DEF TypeOK
<1>2. \A c \in Ctx : /\ handle[c].aborts \subseteq Op
                     /\ handle[c].op \in Nat /\ handle[c].gen \in Nat
  BY <1>1 DEF HandleRecord
<1>3. \A o \in Op : turn[o] \in TurnRecord /\ turn[o].ctx \in Ctx
  BY DEF TypeOK, TurnRecord
<1>4. nextOp \in Nat \ {0} /\ Op \subseteq Nat
  BY ConstantsAssumption DEF TypeOK, Op
<1> QED BY <1>1, <1>2, <1>3, <1>4 DEF LifeTyped

\* The same of the next state.
LEMMA LifeTypesNext == TypeOK' => LifeTyped'
  BY LifeTypes, PTL

\* A step keeps what it owes to the other contexts: what is left to show is about its own.
LEMMA FrameKeeps ==
    ASSUME LifeTyped, LifeTyped', LifeInv, NEW c \in Ctx, NEW O \in SUBSET Op, Frame(c, O),
           HandleFit(c, handle'[c], turn', nextOp'),
           \A o \in Op : turn'[o].ctx = c => TurnFit(o, turn', handle'[c], nextOp')
    PROVE  LifeInv'
<1>1. ASSUME NEW d \in Ctx \ {c}
      PROVE  HandleFit(d, handle'[d], turn', nextOp')
  <2> DEFINE h == handle[d]
  <2>1. handle'[d] = h /\ HandleFit(d, h, turn, nextOp)
    BY DEF Frame, LifeInv, HandlesFit
  <2>2. Minted(h, nextOp) /\ h.aborts \subseteq Op /\ h.op \in Nat
    BY <2>1 DEF HandleFit, LifeTyped
  <2>3. Minted(h, nextOp')
    <3>1. nextOp \in Nat /\ nextOp' \in Nat /\ nextOp' >= nextOp /\ Op \subseteq Nat
      BY DEF Frame, LifeTyped
    <3>2. ASSUME NEW x \in Nat, x < nextOp PROVE x < nextOp'
      BY <3>1, <3>2
    <3>3. h.op < nextOp /\ \A x \in h.aborts : x \in Nat /\ x < nextOp
      BY <2>2, <3>1 DEF Minted
    <3> QED BY <2>2, <3>2, <3>3 DEF Minted
  <2>4. \A x \in h.aborts : turn[x].intent = "reserved" => turn'[x].intent = "reserved"
    BY <2>2 DEF Frame, Keeps, Minted
  <2>5. OthersReserved(h, turn')
    BY <2>1, <2>4 DEF HandleFit, OthersReserved
  <2>6. RunnerFit(d, h, turn')
    <3> SUFFICES ASSUME h.state = "Running" PROVE h.op \in Op /\ Runs(d, h, turn'[h.op])
      BY DEF RunnerFit
    <3>1. h.op \in Op /\ Runs(d, h, turn[h.op])
      BY <2>1 DEF HandleFit, RunnerFit
    <3>2. h.op \notin O
      BY <2>2, <3>1 DEF Frame, Runs, Minted, LifeTyped
    <3> QED BY <3>1, <3>2 DEF Frame, Keeps, Runs
  <2> QED BY <2>1, <2>3, <2>5, <2>6 DEF HandleFit
<1>2. ASSUME NEW o \in Op, turn'[o].ctx # c
      PROVE  TurnFit(o, turn', handle'[turn'[o].ctx], nextOp')
  <2> DEFINE h == handle[turn[o].ctx]
  <2>1. o \notin O /\ Keeps(turn[o], turn'[o])
    BY <1>2 DEF Frame
  <2>2. handle'[turn'[o].ctx] = h /\ turn[o].ctx \in Ctx
    BY <1>2, <2>1 DEF Frame, Keeps, LifeTyped
  <2>3. TurnFit(o, turn, h, nextOp) /\ Minted(h, nextOp) /\ h.aborts \subseteq Op
    BY <2>2 DEF LifeInv, TurnsFit, HandlesFit, HandleFit, LifeTyped
  <2>4. \A x \in h.aborts : turn[x].intent = "reserved" => turn'[x].intent = "reserved"
    BY <2>3 DEF Frame, Keeps, Minted
  <2>5. turn'[o].stage \in GovernedStages => ClaimFit(o, turn', h)
    BY <2>1, <2>3, <2>4 DEF TurnFit, ClaimFit, Keeps
  <2>6. TokenFit(o, turn'[o], h)
    BY <2>1, <2>3 DEF TurnFit, TokenFit, Keeps
  <2>7. o >= nextOp' => turn'[o].stage = "none"
    BY <2>1, <2>3 DEF TurnFit, Keeps, Frame, LifeTyped
  <2> QED BY <2>2, <2>5, <2>6, <2>7 DEF TurnFit
<1>3. HandlesFit'
  BY <1>1 DEF HandlesFit
<1>4. TurnsFit'
  BY <1>2 DEF TurnsFit
<1> QED BY <1>3, <1>4 DEF LifeInv

\* The retained operations outside O keep their token on the handle, or it is fired.
TokensKept(c, O) ==
    "compact" \notin Operations =>
        \A x \in handle[c].aborts \ O :
            \/ turn'[x].fired
            \/ /\ handle'[c].state # "Absent" /\ handle'[c].gen = handle[c].gen
               /\ x \in handle'[c].aborts

\* No governed claim outside O holds the handle of c.
NoOtherClaim(c, O) ==
    \A x \in Op \ O : turn[x].ctx = c => turn[x].stage \notin GovernedStages

\* A handle without the marker of a claim has none, and one with it has the claim of its
\* operation.
LEMMA ClaimsAlone ==
    ASSUME LifeInv, NEW c \in Ctx, NEW O, handle[c].gov # "claimed" \/ handle[c].op \in O
    PROVE  NoOtherClaim(c, O)
  BY DEF LifeInv, TurnsFit, TurnFit, ClaimFit, NoOtherClaim

\* A step on a handle that no other governed claim holds owes the other turns their tokens only.
LEMMA UngovernedEdit ==
    ASSUME LifeTyped, LifeTyped', LifeInv, NEW c \in Ctx, NEW O \in SUBSET Op, Frame(c, O),
           NoOtherClaim(c, O), TokensKept(c, O),
           HandleFit(c, handle'[c], turn', nextOp'),
           \A o \in O : TurnFit(o, turn', handle'[c], nextOp')
    PROVE  LifeInv'
<1>1. ASSUME NEW o \in Op \ O, turn'[o].ctx = c
      PROVE  TurnFit(o, turn', handle'[c], nextOp')
  <2>1. Keeps(turn[o], turn'[o]) /\ turn[o].ctx = c /\ TurnFit(o, turn, handle[c], nextOp)
    BY <1>1 DEF Frame, Keeps, LifeInv, TurnsFit
  <2>2. turn'[o].stage \notin GovernedStages
    BY <2>1 DEF NoOtherClaim, Keeps
  <2>3. TokenFit(o, turn'[o], handle'[c])
    BY <2>1 DEF TurnFit, TokenFit, Keeps, TokensKept
  <2>4. o >= nextOp' => turn'[o].stage = "none"
    BY <2>1 DEF TurnFit, Keeps, Frame, LifeTyped
  <2> QED BY <2>2, <2>3, <2>4 DEF TurnFit
<1>2. \A o \in Op : turn'[o].ctx = c => TurnFit(o, turn', handle'[c], nextOp')
  BY <1>1
<1> QED BY <1>2, FrameKeeps

\* The same handle, but for what is queued on it, its lease, its deferred expiry and the tokens
\* of O.
SameHandle(h, g, O) ==
    /\ g.id = h.id /\ g.state = h.state /\ g.gen = h.gen /\ g.op = h.op
    /\ g.gov = h.gov /\ g.seed = h.seed
    /\ g.aborts \in {h.aborts, h.aborts \ O}

\* A step that leaves the ownership of its handle alone owes its own turn only.
LEMMA SteadyEdit ==
    ASSUME LifeTyped, LifeTyped', LifeInv, NEW c \in Ctx, NEW O \in SUBSET Op, Frame(c, O),
           SameHandle(handle[c], handle'[c], O),
           VacantEmpty(handle'[c]), DeferralOwned(handle'[c]),
           handle[c].state = "Running" /\ handle[c].op \in O =>
               Runs(c, handle[c], turn'[handle[c].op]),
           \A o \in O : TurnFit(o, turn', handle'[c], nextOp')
    PROVE  LifeInv'
<1> DEFINE h == handle[c]  g == handle'[c]
<1>1. HandleFit(c, h, turn, nextOp) /\ h.aborts \subseteq Op /\ h.op \in Nat
  BY DEF LifeInv, HandlesFit, LifeTyped
<1>2. \A x \in h.aborts : turn[x].intent = "reserved" => turn'[x].intent = "reserved"
  BY <1>1 DEF HandleFit, Frame, Keeps, Minted
<1>3. HandleFit(c, g, turn', nextOp')
  <2>1. Minted(g, nextOp')
    <3>1. nextOp \in Nat /\ nextOp' \in Nat /\ nextOp' >= nextOp /\ Op \subseteq Nat
      BY DEF Frame, LifeTyped
    <3>2. ASSUME NEW x \in Nat, x < nextOp PROVE x < nextOp'
      BY <3>1, <3>2
    <3>3. h.op < nextOp /\ \A x \in h.aborts : x \in Nat /\ x < nextOp
      BY <1>1, <3>1 DEF Minted, HandleFit
    <3> QED BY <1>1, <3>2, <3>3 DEF Minted, SameHandle
  <2>2. OthersReserved(g, turn')
    BY <1>1, <1>2 DEF HandleFit, OthersReserved, Succeeds, SameHandle
  <2>3. RunnerFit(c, g, turn')
    <3> SUFFICES ASSUME h.state = "Running" PROVE h.op \in Op /\ Runs(c, h, turn'[h.op])
      BY DEF RunnerFit, SameHandle, Runs
    <3>1. h.op \in Op /\ Runs(c, h, turn[h.op])
      BY <1>1 DEF HandleFit, RunnerFit
    <3>2. CASE h.op \in O
      BY <3>1, <3>2
    <3>3. CASE h.op \notin O
      BY <3>1, <3>3 DEF Frame, Keeps, Runs
    <3> QED BY <3>2, <3>3
  <2>4. IdleUnowned(g) /\ TokensSpent(g) /\ NoSummary(g)
    BY <1>1 DEF HandleFit, IdleUnowned, TokensSpent, NoSummary, SameHandle
  <2> QED BY <2>1, <2>2, <2>3, <2>4 DEF HandleFit
<1>4. ASSUME NEW o \in Op \ O, turn'[o].ctx = c
      PROVE  TurnFit(o, turn', g, nextOp')
  <2>1. Keeps(turn[o], turn'[o]) /\ turn[o].ctx = c /\ TurnFit(o, turn, h, nextOp)
    BY <1>4 DEF Frame, Keeps, LifeInv, TurnsFit
  <2>2. turn'[o].stage \in GovernedStages => ClaimFit(o, turn', g)
    BY <1>2, <2>1 DEF TurnFit, ClaimFit, Keeps, SameHandle
  <2>3. TokenFit(o, turn'[o], g)
    BY <2>1 DEF TurnFit, TokenFit, Keeps, SameHandle
  <2>4. o >= nextOp' => turn'[o].stage = "none"
    BY <2>1 DEF TurnFit, Keeps, Frame, LifeTyped
  <2> QED BY <2>2, <2>3, <2>4 DEF TurnFit
<1>5. \A o \in Op : turn'[o].ctx = c => TurnFit(o, turn', g, nextOp')
  BY <1>4
<1> QED BY <1>3, <1>5, FrameKeeps

\* No handle owes anything.
LEMMA NoHandleFit ==
    ASSUME NEW c, NEW t, NEW n \in Nat \ {0}
    PROVE  HandleFit(c, NoHandle, t, n)
  BY DEF HandleFit, NoHandle, Minted, VacantEmpty, IdleUnowned, TokensSpent, NoSummary,
         DeferralOwned, OthersReserved, Succeeds, RunnerFit, NoOp, NoSeed

\* A step that removes a handle and completes the turns of O.
LEMMA GoneEdit ==
    ASSUME LifeTyped, LifeTyped', LifeInv, NEW c \in Ctx, NEW O \in SUBSET Op, Frame(c, O),
           NoOtherClaim(c, O), TokensKept(c, O), handle'[c] = NoHandle,
           \A o \in O : turn'[o].stage = "done" /\ turn[o].stage # "none"
    PROVE  LifeInv'
<1>1. HandleFit(c, handle'[c], turn', nextOp')
  BY NoHandleFit DEF LifeTyped
<1>2. ASSUME NEW o \in O
      PROVE  TurnFit(o, turn', handle'[c], nextOp')
  <2>1. o < nextOp'
    BY DEF LifeInv, TurnsFit, TurnFit, Frame, LifeTyped
  <2>2. turn'[o].stage = "done" /\ o \in Nat /\ nextOp' \in Nat
    BY DEF LifeTyped
  <2> QED BY <2>1, <2>2 DEF TurnFit, TokenFit, GovernedStages
<1> QED BY <1>1, <1>2, UngovernedEdit

\* Firing tokens changes nothing else of a turn.
LEMMA FireKeeps ==
    ASSUME NEW t \in [Op -> TurnRecord], NEW S, NEW x \in Op
    PROVE  LET u == fire_lingering_turn_abort(t, S)[x] IN
           /\ Keeps(t[x], u)
           /\ u.fired <=> (x \in S \/ t[x].fired)
           /\ u.intent = t[x].intent /\ u.act = t[x].act
  BY DEF fire_lingering_turn_abort, TurnRecord, Keeps

\* Reserving retained operations changes nothing but an open intent.
LEMMA ReserveKeeps ==
    ASSUME NEW t \in [Op -> TurnRecord], NEW S, NEW x \in Op
    PROVE  LET u == reserve_successor(t, S)[x] IN
           /\ Keeps(t[x], u)
           /\ u.fired = t[x].fired
           /\ x \in S /\ t[x].intent # "armed" => u.intent = "reserved"
  BY DEF reserve_successor, TurnRecord, Keeps

\* A turn keeps itself.
LEMMA SameKeeps ==
    ASSUME NEW t
    PROVE  Keeps(t, t)
  BY DEF Keeps

\* Completing a turn.
LEMMA DoneKeeps ==
    ASSUME TypeOK, NEW o \in Op
    PROVE  /\ done(o) \in [Op -> TurnRecord]
           /\ \A x \in Op \ {o} : done(o)[x] = turn[x]
           /\ done(o)[o].stage = "done" /\ done(o)[o].ctx = turn[o].ctx
           /\ done(o)[o].intent = turn[o].intent
  BY DEF done, TypeOK, TurnRecord

\* take_expiry_claim_locked fires every token of the handle it removes.
LEMMA TakesLife ==
    ASSUME TypeOK, LifeTyped, LifeTyped', LifeInv, NEW c \in Ctx, NEW n, NEW claim,
           TakeClaim(c, n, claim, turn), nextOp' = nextOp, handle[c].gov # "claimed"
    PROVE  LifeInv'
<1>1. handle'[c] = NoHandle /\ \A d \in Ctx \ {c} : handle'[d] = handle[d]
  BY DEF TakeClaim, TypeOK
<1>2. turn' = fire_lingering_turn_abort(turn, handle[c].aborts) /\ turn \in [Op -> TurnRecord]
  BY DEF TakeClaim, TypeOK
<1>3. \A x \in Op : /\ Keeps(turn[x], turn'[x])
                    /\ x \in handle[c].aborts => turn'[x].fired
  BY <1>2, FireKeeps
<1>t. nextOp \in Nat /\ handle[c].aborts \subseteq Op
  BY DEF LifeTyped
<1>4. Frame(c, {})
  BY <1>t, <1>1, <1>3 DEF Frame
<1>5. TokensKept(c, {})
  BY <1>t, <1>3 DEF TokensKept
<1> QED BY <1>1, <1>4, <1>5, ClaimsAlone, GoneEdit

\* The same for the completion of a turn o of that handle.
LEMMA TakesDoneLife ==
    ASSUME TypeOK, LifeTyped, LifeTyped', LifeInv, NEW o \in Op, NEW n, NEW claim,
           TakeClaim(turn[o].ctx, n, claim, done(o)), nextOp' = nextOp,
           turn[o].stage # "none",
           handle[turn[o].ctx].gov # "claimed" \/ handle[turn[o].ctx].op = o
    PROVE  LifeInv'
<1>c. PICK c \in Ctx : c = turn[o].ctx
  BY DEF LifeTyped
<1>1. handle'[c] = NoHandle /\ \A d \in Ctx \ {c} : handle'[d] = handle[d]
  BY <1>c DEF TakeClaim, TypeOK
<1>2. turn' = fire_lingering_turn_abort(done(o), handle[c].aborts)
  BY <1>c DEF TakeClaim
<1>3. \A x \in Op : /\ Keeps(done(o)[x], turn'[x])
                    /\ x \in handle[c].aborts => turn'[x].fired
                    /\ turn'[x].intent = done(o)[x].intent
  BY <1>2, FireKeeps, DoneKeeps
<1>t. nextOp \in Nat /\ handle[c].aborts \subseteq Op
  BY DEF LifeTyped
<1>d. /\ \A x \in Op \ {o} : done(o)[x] = turn[x]
      /\ done(o)[o].stage = "done" /\ done(o)[o].ctx = c /\ done(o)[o].intent = turn[o].intent
  BY <1>c, DoneKeeps
<1>6. turn'[o].stage = "done" /\ turn'[o].ctx = c /\ turn'[o].intent = turn[o].intent
  <2>1. Keeps(done(o)[o], turn'[o]) /\ turn'[o].intent = done(o)[o].intent
    BY <1>3
  <2> QED BY <1>d, <2>1 DEF Keeps
<1>4. Frame(c, {o})
  BY <1>c, <1>t, <1>d, <1>1, <1>3, <1>6 DEF Frame
<1>5. TokensKept(c, {o})
  BY <1>t, <1>3 DEF TokensKept
<1>7. NoOtherClaim(c, {o})
  BY <1>c, ClaimsAlone
<1> QED BY <1>1, <1>4, <1>5, <1>6, <1>7, GoneEdit

\* warm_turn_from_handle runs a handle h whose retained operations t has all reserved.
LEMMA MintLife ==
    ASSUME TypeOK, LifeTyped, LifeTyped', LifeInv, NEW c \in Ctx, NEW h \in HandleRecord,
           NEW t \in [Op -> TurnRecord], MintTurn(c, h, t),
           handle[c].state # "Absent", handle[c].gov = "none",
           h.gov = "none", h.gen = handle[c].gen, h.aborts = handle[c].aborts, ~h.expire,
           \A x \in Op : Keeps(turn[x], t[x]),
           \A x \in h.aborts : t[x].intent = "reserved"
    PROVE  LifeInv'
<1> DEFINE n == nextOp  g == handle'[c]
<1>1. n \in Op /\ n \in Nat /\ nextOp' = n + 1 /\ h.aborts \subseteq Op /\ Op \subseteq Nat
  BY ConstantsAssumption DEF LifeTyped, MintTurn, Op
<1>2. /\ g.state = "Running" /\ g.op = n /\ g.aborts = h.aborts \cup {n} /\ g.gov = "none"
      /\ g.gen = h.gen /\ g.expire = h.expire /\ g.seed = NoSeed
      /\ \A d \in Ctx \ {c} : handle'[d] = handle[d]
  BY DEF MintTurn, TypeOK, HandleRecord
<1>3. /\ turn'[n].stage = "fresh" /\ turn'[n].ctx = c /\ turn'[n].gen = h.gen
      /\ \A x \in Op \ {n} : turn'[x] = t[x]
  BY <1>1, EmptyRecords DEF MintTurn, TurnRecord
<1>4. \A x \in h.aborts : x < n /\ x # n
  BY <1>1 DEF LifeInv, HandlesFit, HandleFit, Minted
<1>5. Frame(c, {n})
  <2>1. nextOp' >= nextOp /\ ~(n < nextOp) /\ n >= nextOp
    BY <1>1
  <2> QED BY <1>2, <1>3, <2>1 DEF Frame
<1>6. NoOtherClaim(c, {n})
  BY ClaimsAlone
<1>7. TokensKept(c, {n})
  BY <1>2 DEF TokensKept
<1>8. HandleFit(c, g, turn', nextOp')
  <2>1. Minted(g, nextOp')
    <3>1. ASSUME NEW x \in Nat, x < n \/ x = n PROVE x < n + 1
      BY <1>1, <3>1
    <3>2. \A x \in h.aborts \cup {n} : x \in Nat /\ (x < n \/ x = n)
      BY <1>1, <1>4
    <3> QED BY <1>1, <1>2, <3>1, <3>2 DEF Minted
  <2>2. OthersReserved(g, turn')
    <3>1. \A x \in g.aborts \ {g.op} : x \in h.aborts /\ x \in Op \ {n}
      BY <1>1, <1>2
    <3>2. \A x \in g.aborts \ {g.op} : turn'[x].intent = "reserved"
      BY <1>3, <3>1
    <3> QED BY <3>2 DEF OthersReserved
  <2>3. RunnerFit(c, g, turn')
    BY <1>1, <1>2, <1>3 DEF RunnerFit, Runs, GovernedStages
  <2> QED BY <1>2, <2>1, <2>2, <2>3
          DEF HandleFit, VacantEmpty, IdleUnowned, TokensSpent, NoSummary, DeferralOwned
<1>9. TurnFit(n, turn', g, nextOp')
  <2>1. ~(n >= nextOp')
    BY <1>1
  <2> QED BY <1>2, <1>3, <2>1 DEF TurnFit, TokenFit, GovernedStages
<1> HIDE DEF n, g
<1>10. {n} \in SUBSET Op /\ \A o \in {n} : TurnFit(o, turn', handle'[c], nextOp')
  BY <1>1, <1>9 DEF g
<1>11. HandleFit(c, handle'[c], turn', nextOp')
  BY <1>8 DEF g
<1> QED BY <1>5, <1>6, <1>7, <1>10, <1>11, UngovernedEdit

\* A governed claim takes an unclaimed handle, or a new one.
LEMMA GovernedClaimLife ==
    ASSUME TypeOK, LifeTyped, LifeTyped', LifeInv, NEW c \in Ctx, NEW h \in HandleRecord,
           NEW fp, NEW fresh, GovernedClaim(c, h, fp, fresh),
           handle[c].gov = "none", ~h.expire,
           h.gen = handle[c].gen, h.aborts = handle[c].aborts,
           fresh => h.aborts = {}
    PROVE  LifeInv'
<1> DEFINE n == nextOp  g == handle'[c]
<1>1. n \in Op /\ n \in Nat /\ nextOp' = n + 1 /\ h.aborts \subseteq Op /\ Op \subseteq Nat
  BY ConstantsAssumption DEF LifeTyped, GovernedClaim, Op
<1>2. /\ g.state = "Running" /\ g.op = n /\ g.aborts = h.aborts /\ g.gov = "claimed"
      /\ g.gen = h.gen /\ g.id = h.id /\ g.expire = h.expire
      /\ \A d \in Ctx \ {c} : handle'[d] = handle[d]
  BY DEF GovernedClaim, TypeOK, HandleRecord
<1>3. /\ turn'[n].stage = "claimed" /\ turn'[n].ctx = c /\ turn'[n].gen = h.gen
      /\ turn'[n].id = h.id /\ turn'[n].fresh = fresh
      /\ \A x \in Op \ {n} : turn'[x] = turn[x]
  BY <1>1, EmptyRecords DEF GovernedClaim, TypeOK, TurnRecord
<1>4. \A x \in h.aborts : x < n /\ x # n
  BY <1>1 DEF LifeInv, HandlesFit, HandleFit, Minted
<1>5. Frame(c, {n})
  <2>1. nextOp' >= nextOp /\ ~(n < nextOp) /\ n >= nextOp
    BY <1>1
  <2> QED BY <1>2, <1>3, <2>1, SameKeeps DEF Frame
<1>6. NoOtherClaim(c, {n})
  BY ClaimsAlone
<1>7. TokensKept(c, {n})
  BY <1>2 DEF TokensKept
<1>8. HandleFit(c, g, turn', nextOp')
  <2>1. Minted(g, nextOp')
    <3>1. ASSUME NEW x \in Nat, x < n \/ x = n PROVE x < n + 1
      BY <1>1, <3>1
    <3>2. \A x \in h.aborts \cup {n} : x \in Nat /\ (x < n \/ x = n)
      BY <1>1, <1>4
    <3> QED BY <1>1, <1>2, <3>1, <3>2 DEF Minted
  <2>2. OthersReserved(g, turn')
    BY <1>2 DEF OthersReserved, Succeeds
  <2>3. RunnerFit(c, g, turn')
    BY <1>1, <1>2, <1>3 DEF RunnerFit, Runs, GovernedStages
  <2> QED BY <1>2, <2>1, <2>2, <2>3
          DEF HandleFit, VacantEmpty, IdleUnowned, TokensSpent, NoSummary, DeferralOwned
<1>9. TurnFit(n, turn', g, nextOp')
  <2>1. ~(n >= nextOp')
    BY <1>1
  <2>2. ClaimFit(n, turn', g)
    BY <1>2, <1>3, <1>4 DEF ClaimFit
  <2> QED BY <1>3, <2>1, <2>2 DEF TurnFit, TokenFit
<1> HIDE DEF n, g
<1>10. {n} \in SUBSET Op /\ \A o \in {n} : TurnFit(o, turn', handle'[c], nextOp')
  BY <1>1, <1>9 DEF g
<1>11. HandleFit(c, handle'[c], turn', nextOp')
  BY <1>8 DEF g
<1> QED BY <1>5, <1>6, <1>7, <1>10, <1>11, UngovernedEdit

\* A step that touches neither handles nor turns.
LEMMA StillLife ==
    ASSUME LifeInv, UNCHANGED <<handle, turn, nextOp>>
    PROVE  LifeInv'
  BY DEF LifeInv, HandlesFit, TurnsFit

\* A step that moves a handle no governed claim holds between its states.
LEMMA MoveLife ==
    ASSUME LifeTyped, LifeTyped', LifeInv, NEW c \in Ctx, nextOp' = nextOp,
           \A d \in Ctx \ {c} : handle'[d] = handle[d],
           \A x \in Op : Keeps(turn[x], turn'[x]),
           handle[c].gov = "none", handle'[c].gov = "none",
           handle'[c].state \notin {"Absent", "Running"},
           handle'[c].op \in {handle[c].op, NoOp}, handle'[c].aborts \subseteq handle[c].aborts,
           TokensKept(c, {}),
           IdleUnowned(handle'[c]), TokensSpent(handle'[c]), NoSummary(handle'[c]),
           DeferralOwned(handle'[c]), OthersReserved(handle'[c], turn')
    PROVE  LifeInv'
<1>1. Frame(c, {}) /\ {} \in SUBSET Op
  BY DEF Frame, LifeTyped
<1>2. Minted(handle[c], nextOp)
  BY DEF LifeInv, HandlesFit, HandleFit
<1>3. Minted(handle'[c], nextOp')
  BY <1>2 DEF Minted, NoOp, LifeTyped
<1>4. VacantEmpty(handle'[c]) /\ RunnerFit(c, handle'[c], turn')
  BY DEF VacantEmpty, RunnerFit
<1>5. HandleFit(c, handle'[c], turn', nextOp')
  BY <1>3, <1>4 DEF HandleFit
<1>6. NoOtherClaim(c, {})
  BY ClaimsAlone
<1> QED BY <1>1, <1>5, <1>6, UngovernedEdit

\* The first lock hold of a call.
LEMMA LifeCallStart ==
    ASSUME TypeOK, LifeTyped, LifeTyped', GovRunning, LifeInv, NEW p \in Caller, NEW c \in Ctx,
           \/ \E r \in Request : CheckoutLock1(p, c, r) \/ ClaimLock1(p, c, r)
           \/ \E force \in BOOLEAN : Clear(p, c, force)
           \/ Compact(p, c)
    PROVE  LifeInv'
<1> DEFINE h == handle[c]  g == handle'[c]
<1>a. h \in HandleRecord /\ h.aborts \subseteq Op /\ turn \in [Op -> TurnRecord]
  BY DEF LifeTyped, TypeOK
<1>1. ASSUME NEW r \in Request, CheckoutLock1(p, c, r) \/ ClaimLock1(p, c, r)
      PROVE  LifeInv'
  BY <1>1, StillLife DEF CheckoutLock1, ClaimLock1, tables
<1>2. ASSUME NEW force \in BOOLEAN, Clear(p, c, force)
      PROVE  LifeInv'
  <2>1. /\ h.gov = "none" /\ nextOp' = nextOp
        /\ turn' = fire_lingering_turn_abort(turn, h.aborts)
        /\ handle' = [handle EXCEPT ![c].state = "Resetting", ![c].expire = FALSE,
                                    ![c].aborts = {}]
    BY <1>2 DEF Clear
  <2>2. /\ g.gov = "none" /\ g.state = "Resetting" /\ g.op = h.op /\ g.aborts = {}
        /\ ~g.expire
        /\ \A d \in Ctx \ {c} : handle'[d] = handle[d]
    BY <1>a, <2>1 DEF TypeOK, HandleRecord
  <2>3. \A x \in Op : Keeps(turn[x], turn'[x]) /\ (x \in h.aborts => turn'[x].fired)
    BY <1>a, <2>1, FireKeeps
  <2>4. TokensKept(c, {})
    BY <1>a, <2>3 DEF TokensKept
  <2>5. IdleUnowned(g) /\ TokensSpent(g) /\ NoSummary(g) /\ DeferralOwned(g)
        /\ OthersReserved(g, turn')
    BY <2>2 DEF IdleUnowned, TokensSpent, NoSummary, DeferralOwned, OthersReserved
  <2> QED BY <2>1, <2>2, <2>3, <2>4, <2>5, MoveLife
<1>3. CASE Compact(p, c)
  <2>1. /\ h.state = "Idle" /\ h.seed = NoSeed /\ nextOp' = nextOp /\ turn' = turn
        /\ handle' = [handle EXCEPT ![c].state = "Compacting", ![c].expire = FALSE]
        /\ "compact" \in Operations
    BY <1>3 DEF Compact, Compactable
  <2>2. /\ h.gov = "none" /\ g.gov = "none" /\ g.state = "Compacting" /\ g.op = h.op
        /\ g.aborts = h.aborts /\ g.seed = NoSeed /\ ~g.expire
        /\ \A d \in Ctx \ {c} : handle'[d] = handle[d]
    BY <1>a, <2>1 DEF TypeOK, HandleRecord, GovRunning
  <2>3. \A x \in Op : Keeps(turn[x], turn'[x])
    BY <2>1, SameKeeps
  <2>4. TokensKept(c, {})
    BY <2>1 DEF TokensKept
  <2>5. IdleUnowned(g) /\ TokensSpent(g) /\ NoSummary(g) /\ DeferralOwned(g)
        /\ OthersReserved(g, turn')
    BY <2>1, <2>2 DEF IdleUnowned, TokensSpent, NoSummary, DeferralOwned, OthersReserved, Succeeds
  <2> QED BY <2>1, <2>2, <2>3, <2>4, <2>5, MoveLife
<1> QED BY <1>1, <1>2, <1>3

\* The first operations a handle without armed ones retains are reserved for its successor.
LEMMA ReservedForSuccessor ==
    ASSUME TypeOK, LifeTyped, NEW c \in Ctx, ArmedOps(handle[c]) = {}
    PROVE  LET t == reserve_successor(turn, handle[c].aborts) IN
           /\ t \in [Op -> TurnRecord]
           /\ \A x \in Op : Keeps(turn[x], t[x])
           /\ \A x \in handle[c].aborts : t[x].intent = "reserved"
<1>1. turn \in [Op -> TurnRecord] /\ handle[c].aborts \subseteq Op
  BY DEF TypeOK, LifeTyped
<1>2. \A x \in handle[c].aborts : turn[x].intent # "armed"
  BY DEF ArmedOps
<1> QED BY <1>1, <1>2, ReserveType, ReserveKeeps

\* The lock holds of checkout_turn after the first.
LEMMA LifeCheckoutStep ==
    ASSUME TypeOK, LifeTyped, LifeTyped', GovRunning, LifeInv, NEW p \in Caller,
           \/ CheckoutExpiresArmed(p) \/ CheckoutReuse(p) \/ CheckoutReconcile(p)
           \/ CheckoutFresh(p)
           \/ \E ok \in BOOLEAN : ReconcileSettle(p, ok) \/ ConfigureSettle(p, ok)
    PROVE  LifeInv'
<1>c. PICK c \in Ctx : c = call[p].ctx
  BY DEF TypeOK, CallRecord
<1> DEFINE k == call[p]  h == handle[c]  g == handle'[c]
<1>a. h \in HandleRecord /\ h.aborts \subseteq Op /\ turn \in [Op -> TurnRecord]
  BY DEF LifeTyped, TypeOK
<1>b. HandleFit(c, h, turn, nextOp)
  BY DEF LifeInv, HandlesFit
<1>k. k \in CallRecord /\ k.fp \in Fingerprint
  BY DEF TypeOK, CallRecord
<1>n. h.state # "Running" => h.gov = "none"
  BY DEF GovRunning
<1>1. CASE CheckoutExpiresArmed(p)
  <2>1. h.state = "Idle" /\ nextOp' = nextOp
        /\ \E o : TakeClaim(c, o, nextClaim, turn)
    BY <1>1, <1>c DEF CheckoutExpiresArmed, Lock2Refuses, take_expiry_claim_locked
  <2> QED BY <1>n, <2>1, TakesLife
<1>2. CASE CheckoutReuse(p)
  <2>1. /\ h.state = "Idle" /\ ArmedOps(h) = {}
        /\ MintTurn(c, h, reserve_successor(turn, h.aborts))
    BY <1>2, <1>c DEF CheckoutReuse, Lock2Refuses
  <2>2. ~h.expire
    BY <1>a, <1>b, <1>n, <2>1 DEF HandleFit, DeferralOwned, ClaimedStates
  <2>3. LET t == reserve_successor(turn, h.aborts) IN
        /\ t \in [Op -> TurnRecord]
        /\ \A x \in Op : Keeps(turn[x], t[x])
        /\ \A x \in h.aborts : t[x].intent = "reserved"
    BY <2>1, ReservedForSuccessor
  <2> QED BY <1>a, <1>n, <2>1, <2>2, <2>3, MintLife
<1>3. CASE CheckoutReconcile(p)
  <2>1. /\ h.state = "Idle" /\ ArmedOps(h) = {} /\ nextOp' = nextOp
        /\ turn' = reserve_successor(turn, h.aborts)
        /\ handle' = [handle EXCEPT ![c].state = "Reconciling", ![c].expire = FALSE]
    BY <1>3, <1>c DEF CheckoutReconcile, Lock2Refuses
  <2>2. /\ h.gov = "none" /\ g.gov = "none" /\ g.state = "Reconciling" /\ g.op = h.op
        /\ g.aborts = h.aborts /\ g.gen = h.gen /\ ~g.expire
        /\ \A d \in Ctx \ {c} : handle'[d] = handle[d]
    BY <1>a, <1>n, <2>1 DEF TypeOK, HandleRecord
  <2>3. /\ \A x \in Op : Keeps(turn[x], turn'[x])
        /\ \A x \in h.aborts : turn'[x].intent = "reserved"
    BY <2>1, ReservedForSuccessor
  <2>4. TokensKept(c, {})
    BY <2>2 DEF TokensKept
  <2>5. h.op = NoOp
    BY <1>b, <2>1 DEF HandleFit, IdleUnowned
  <2>6. IdleUnowned(g) /\ TokensSpent(g) /\ NoSummary(g) /\ DeferralOwned(g)
        /\ OthersReserved(g, turn')
    BY <2>2, <2>3, <2>5 DEF IdleUnowned, TokensSpent, NoSummary, DeferralOwned, OthersReserved
  <2> QED BY <2>1, <2>2, <2>3, <2>4, <2>6, MoveLife
<1>4. CASE CheckoutFresh(p)
  <2> DEFINE nh == [NoHandle EXCEPT !.id = nextId, !.state = "Configuring",
                                    !.fp = k.fp, !.op = nextOp]
  <2>1. /\ h = NoHandle /\ turn' = turn /\ nextOp' = nextOp + 1
        /\ handle' = [handle EXCEPT ![c] = nh]
    BY <1>4, <1>c, <1>b DEF CheckoutFresh, live, HandleFit, VacantEmpty
  <2>2. /\ g.state = "Configuring" /\ g.op = nextOp /\ g.aborts = {} /\ g.gov = "none"
        /\ g.seed = NoSeed /\ g.expire = FALSE
        /\ \A d \in Ctx \ {c} : handle'[d] = handle[d]
    <3>1. nh.state = "Configuring" /\ nh.op = nextOp /\ nh.aborts = {} /\ nh.gov = "none"
          /\ nh.seed = NoSeed /\ nh.expire = FALSE
      BY DEF NoHandle
    <3> HIDE DEF nh
    <3> QED BY <2>1, <3>1 DEF TypeOK
  <2>3. h.gov = "none" /\ h.aborts = {}
    BY <2>1 DEF NoHandle
  <2>4. nextOp \in Nat /\ nextOp' >= nextOp /\ nextOp < nextOp'
    BY <2>1 DEF LifeTyped
  <2>5. Frame(c, {}) /\ TokensKept(c, {})
    BY <2>1, <2>2, <2>3, <2>4, SameKeeps DEF Frame, TokensKept
  <2>6. HandleFit(c, g, turn', nextOp')
    BY <2>2, <2>4 DEF HandleFit, Minted, VacantEmpty, IdleUnowned, TokensSpent, NoSummary,
                      DeferralOwned, OthersReserved, Succeeds, RunnerFit
  <2>7. NoOtherClaim(c, {})
    BY <2>3, ClaimsAlone
  <2> QED BY <2>5, <2>6, <2>7, UngovernedEdit
<1>5. ASSUME NEW ok \in BOOLEAN, ReconcileSettle(p, ok)
      PROVE  LifeInv'
  <2>1. CASE still_ours(k, "Reconciling") /\ ok /\ ~h.expire
    <3> DEFINE nh == [h EXCEPT !.fp = k.fp]
    <3>1. h.state = "Reconciling" /\ MintTurn(c, nh, turn)
      BY <1>5, <1>c, <2>1 DEF ReconcileSettle, still_ours
    <3>2. nh \in HandleRecord /\ nh.gov = h.gov /\ nh.gen = h.gen /\ nh.aborts = h.aborts
          /\ nh.expire = h.expire
      BY <1>a, <1>k DEF HandleRecord
    <3>3. h.op = NoOp /\ NoOp \notin Op
      BY <1>b, <3>1 DEF HandleFit, IdleUnowned, NoOp, Op
    <3>4. \A x \in h.aborts : turn[x].intent = "reserved"
      BY <1>a, <1>b, <3>1, <3>3 DEF HandleFit, OthersReserved, Succeeds
    <3>5. \A x \in Op : Keeps(turn[x], turn[x])
      BY SameKeeps
    <3> HIDE DEF nh
    <3> QED BY <1>a, <1>n, <2>1, <3>1, <3>2, <3>4, <3>5, MintLife
  <2>2. CASE still_ours(k, "Reconciling") /\ ~(ok /\ ~h.expire)
    <3>1. /\ h.state = "Reconciling" /\ nextOp' = nextOp
          /\ turn' = fire_lingering_turn_abort(turn, h.aborts)
          /\ handle' = [handle EXCEPT ![c].state = "Expiring", ![c].aborts = {}]
      BY <1>5, <1>c, <2>2 DEF ReconcileSettle, still_ours
    <3>2. /\ h.gov = "none" /\ g.gov = "none" /\ g.state = "Expiring" /\ g.op = h.op
          /\ g.aborts = {}
          /\ \A d \in Ctx \ {c} : handle'[d] = handle[d]
      BY <1>a, <1>n, <3>1 DEF TypeOK, HandleRecord
    <3>3. \A x \in Op : Keeps(turn[x], turn'[x]) /\ (x \in h.aborts => turn'[x].fired)
      BY <1>a, <3>1, FireKeeps
    <3>4. TokensKept(c, {})
      BY <1>a, <3>3 DEF TokensKept
    <3>5. IdleUnowned(g) /\ TokensSpent(g) /\ NoSummary(g) /\ DeferralOwned(g)
          /\ OthersReserved(g, turn')
      BY <3>2 DEF IdleUnowned, TokensSpent, NoSummary, DeferralOwned, OthersReserved,
                  ClaimedStates
    <3> QED BY <3>1, <3>2, <3>3, <3>4, <3>5, MoveLife
  <2>3. CASE ~still_ours(k, "Reconciling")
    BY <1>5, <2>3, StillLife DEF ReconcileSettle
  <2> QED BY <2>1, <2>2, <2>3
<1>6. ASSUME NEW ok \in BOOLEAN, ConfigureSettle(p, ok)
      PROVE  LifeInv'
  <2> DEFINE ours == still_ours(k, "Configuring") /\ h.op = k.op
  <2>0. ours => h.state = "Configuring" /\ h.gov = "none" /\ h.aborts = {}
    BY <1>c, <1>b, <1>n DEF still_ours, HandleFit, TokensSpent
  <2>1. CASE ours /\ h.expire
    <3>1. /\ nextOp' = nextOp /\ turn' = turn
          /\ handle' = [handle EXCEPT ![c].state = "Expiring"]
      BY <1>6, <1>c, <2>1 DEF ConfigureSettle
    <3>2. /\ g.gov = "none" /\ g.state = "Expiring" /\ g.op = h.op /\ g.aborts = {}
          /\ \A d \in Ctx \ {c} : handle'[d] = handle[d]
      BY <1>a, <2>0, <2>1, <3>1 DEF TypeOK, HandleRecord
    <3>3. \A x \in Op : Keeps(turn[x], turn'[x])
      BY <3>1, SameKeeps
    <3>4. TokensKept(c, {})
      BY <2>0, <2>1 DEF TokensKept
    <3>5. IdleUnowned(g) /\ TokensSpent(g) /\ NoSummary(g) /\ DeferralOwned(g)
          /\ OthersReserved(g, turn')
      BY <3>2 DEF IdleUnowned, TokensSpent, NoSummary, DeferralOwned, OthersReserved,
                  ClaimedStates
    <3> QED BY <2>0, <2>1, <3>1, <3>2, <3>3, <3>4, <3>5, MoveLife
  <2>2. CASE ours /\ ~h.expire /\ ok
    <3>1. MintTurn(c, h, turn)
      BY <1>6, <1>c, <2>2 DEF ConfigureSettle
    <3>2. \A x \in Op : Keeps(turn[x], turn[x])
      BY SameKeeps
    <3> QED BY <1>a, <2>0, <2>2, <3>1, <3>2, MintLife
  <2>3. CASE ours /\ ~h.expire /\ ~ok
    <3>1. /\ nextOp' = nextOp /\ turn' = turn
          /\ handle' = [handle EXCEPT ![c] = NoHandle]
      BY <1>6, <1>c, <2>3 DEF ConfigureSettle
    <3>2. g = NoHandle /\ \A d \in Ctx \ {c} : handle'[d] = handle[d]
      BY <3>1 DEF TypeOK
    <3>3. Frame(c, {}) /\ TokensKept(c, {}) /\ NoOtherClaim(c, {})
      BY <2>0, <2>3, <3>1, <3>2, SameKeeps, ClaimsAlone DEF Frame, TokensKept, LifeTyped
    <3> QED BY <3>2, <3>3, GoneEdit
  <2>4. CASE ~ours
    BY <1>6, <1>c, <2>4, StillLife DEF ConfigureSettle
  <2> QED BY <2>1, <2>2, <2>3, <2>4
<1> QED BY <1>1, <1>2, <1>3, <1>4, <1>5, <1>6

\* The later lock holds of clear and compact, every teardown, and the governed claim of a context
\* nobody has opened.
LEMMA LifeRenewStep ==
    ASSUME TypeOK, LifeTyped, LifeTyped', GovRunning, ClaimExact, LifeInv, NEW p \in Caller,
           \/ CheckoutTeardown(p) \/ ClearTeardown(p) \/ CompactTeardown(p) \/ ClaimLock2(p)
           \/ \E ok \in BOOLEAN : ClearSettle(p, ok) \/ Summarized(p, ok) \/ CompactSettle(p, ok)
    PROVE  LifeInv'
<1>c. PICK c \in Ctx : c = call[p].ctx
  BY DEF TypeOK, CallRecord
<1> DEFINE k == call[p]  h == handle[c]  g == handle'[c]
<1>a. h \in HandleRecord /\ h.aborts \subseteq Op /\ turn \in [Op -> TurnRecord]
  BY DEF LifeTyped, TypeOK
<1>b. HandleFit(c, h, turn, nextOp)
  BY DEF LifeInv, HandlesFit
<1>k. k \in CallRecord /\ k.fp \in Fingerprint
  BY DEF TypeOK, CallRecord
<1>n. h.state # "Running" => h.gov = "none"
  BY DEF GovRunning
<1>1. ASSUME NEW kind \in {"checkout", "clear", "compact"}, RemoveAfterRelease(p, kind)
      PROVE  LifeInv'
  <2>1. /\ k.kind = kind /\ k.pc = "teardown"
        /\ nextOp' = nextOp /\ turn' = turn
        /\ handle' = [handle EXCEPT ![c] = NoHandle]
    BY <1>1, <1>c DEF RemoveAfterRelease
  <2>2. h.state \in {"Resetting", "Expiring", "Compacting"}
    BY <1>1, <1>c, <2>1 DEF ClaimExact, Claiming, ClaimStates
  <2>3. "compact" \notin Operations => h.aborts = {}
    BY <1>b, <2>2 DEF HandleFit, TokensSpent
  <2>4. g = NoHandle /\ \A d \in Ctx \ {c} : handle'[d] = handle[d]
    BY <2>1 DEF TypeOK
  <2>5. Frame(c, {}) /\ TokensKept(c, {}) /\ NoOtherClaim(c, {})
    BY <1>n, <2>1, <2>2, <2>3, <2>4, SameKeeps, ClaimsAlone DEF Frame, TokensKept, LifeTyped
  <2> QED BY <2>4, <2>5, GoneEdit
<1>2. CASE ClaimLock2(p)
  <2>1. CASE live(c) \/ tomb[c].state # "None"
    BY <1>2, <1>c, <2>1, StillLife DEF ClaimLock2
  <2>2. CASE ~(live(c) \/ tomb[c].state # "None")
    <3> DEFINE nh == [NoHandle EXCEPT !.id = nextId, !.fp = k.fp]
    <3>1. GovernedClaim(c, nh, k.fp, TRUE) /\ h = NoHandle
      BY <1>2, <1>c, <1>b, <2>2 DEF ClaimLock2, live, HandleFit, VacantEmpty
    <3>2. nh \in HandleRecord /\ nh.gov = "none" /\ nh.gen = NoHandle.gen /\ nh.aborts = {}
          /\ nh.expire = FALSE /\ NoHandle.aborts = {} /\ NoHandle.gov = "none"
      BY <1>k DEF NoHandle, HandleRecord, TypeOK, NoOp, NoSeed
    <3> HIDE DEF nh
    <3> QED BY <3>1, <3>2, GovernedClaimLife
  <2> QED BY <2>1, <2>2
<1>3. ASSUME NEW ok \in BOOLEAN, NEW kind \in {"clear", "compact"},
             NEW state \in {"Resetting", "Compacting"},
             kind = "clear" => state = "Resetting",
             RenewSettle(p, ok, kind, state)
      PROVE  LifeInv'
  <2>1. CASE still_ours(k, state) /\ Commits(ok, h)
    <3> DEFINE sd == IF kind = "compact" THEN k.gen ELSE NoSeed
               inj == IF kind = "compact" THEN h.injects ELSE FALSE
               nh == [h EXCEPT !.gen = k.gen, !.op = NoOp, !.aborts = {}, !.state = "Idle",
                               !.seed = sd, !.injects = inj]
    <3>1. /\ h.state = state /\ ~h.expire /\ nextOp' = nextOp /\ turn' = turn
          /\ handle' = [handle EXCEPT ![c] = nh]
      BY <1>3, <1>c, <2>1 DEF RenewSettle, still_ours, Commits
    <3>2. nh.gov = h.gov /\ nh.state = "Idle" /\ nh.op = NoOp /\ nh.aborts = {}
          /\ nh.expire = h.expire
      <4> HIDE DEF sd, inj
      <4> QED BY <1>a DEF HandleRecord
    <3> HIDE DEF nh
    <3>3. /\ h.gov = "none" /\ g.gov = "none" /\ g.state = "Idle" /\ g.op = NoOp
          /\ g.aborts = {} /\ ~g.expire
          /\ \A d \in Ctx \ {c} : handle'[d] = handle[d]
      BY <1>n, <3>1, <3>2 DEF TypeOK
    <3>4. \A x \in Op : Keeps(turn[x], turn'[x])
      BY <3>1, SameKeeps
    <3>5. TokensKept(c, {})
      BY <1>b, <3>1 DEF TokensKept, HandleFit, TokensSpent
    <3>6. IdleUnowned(g) /\ TokensSpent(g) /\ NoSummary(g) /\ DeferralOwned(g)
          /\ OthersReserved(g, turn')
      BY <3>3 DEF IdleUnowned, TokensSpent, NoSummary, DeferralOwned, OthersReserved
    <3> QED BY <3>1, <3>3, <3>4, <3>5, <3>6, MoveLife
  <2>2. CASE ~(still_ours(k, state) /\ Commits(ok, h))
    BY <1>3, <1>c, <2>2, StillLife DEF RenewSettle
  <2> QED BY <2>1, <2>2
<1>4. ASSUME NEW ok \in BOOLEAN, Summarized(p, ok)
      PROVE  LifeInv'
  <2>1. CASE ok \/ ~still_ours(k, "Compacting")
    BY <1>4, <2>1, StillLife DEF Summarized
  <2>2. CASE ~ok /\ still_ours(k, "Compacting")
    <3>1. /\ h.state = "Compacting" /\ nextOp' = nextOp /\ turn' = turn
          /\ handle' = [handle EXCEPT ![c].state = "Expiring"]
      BY <1>4, <1>c, <2>2 DEF Summarized, still_ours
    <3>2. /\ h.gov = "none" /\ g.gov = "none" /\ g.state = "Expiring" /\ g.op = h.op
          /\ g.aborts = h.aborts
          /\ \A d \in Ctx \ {c} : handle'[d] = handle[d]
      BY <1>a, <1>n, <3>1 DEF TypeOK, HandleRecord
    <3>3. \A x \in Op : Keeps(turn[x], turn'[x])
      BY <3>1, SameKeeps
    <3>4. "compact" \in Operations
      BY <1>b, <3>1 DEF HandleFit, TokensSpent
    <3>5. IdleUnowned(g) /\ TokensSpent(g) /\ NoSummary(g) /\ DeferralOwned(g)
          /\ OthersReserved(g, turn') /\ TokensKept(c, {})
      BY <3>2, <3>4 DEF IdleUnowned, TokensSpent, NoSummary, DeferralOwned, OthersReserved,
                  ClaimedStates, Succeeds, TokensKept
    <3> QED BY <3>1, <3>2, <3>3, <3>5, MoveLife
  <2> QED BY <2>1, <2>2
<1> QED BY <1>1, <1>2, <1>3, <1>4 DEF CheckoutTeardown, ClearTeardown, CompactTeardown,
                                     ClearSettle, CompactSettle

\* The operations of one lock hold.
LEMMA LifeTableCall ==
    ASSUME TypeOK, LifeTyped, LifeTyped', GovRunning, LifeInv, NEW c \in Ctx, TableCall(c)
    PROVE  LifeInv'
<1> DEFINE h == handle[c]  g == handle'[c]
<1>a. h \in HandleRecord /\ h.aborts \subseteq Op /\ turn \in [Op -> TurnRecord]
  BY DEF LifeTyped, TypeOK
<1>b. HandleFit(c, h, turn, nextOp)
  BY DEF LifeInv, HandlesFit
<1>n. h.state # "Running" => h.gov = "none"
  BY DEF GovRunning
<1>e. ASSUME NEW o, take_expiry_claim_locked(c, o, turn), h.gov = "none", nextOp' = nextOp
      PROVE  LifeInv'
  BY <1>e, TakesLife DEF take_expiry_claim_locked
<1>x. ~h.expire \/ h.state # "Idle"
  BY <1>a, <1>b, <1>n DEF HandleFit, DeferralOwned, ClaimedStates
<1>s. ASSUME SameHandle(h, g, {}), \A d \in Ctx \ {c} : handle'[d] = handle[d],
             nextOp' = nextOp, h.state # "Absent", DeferralOwned(g),
             \A x \in Op : Keeps(turn[x], turn'[x])
      PROVE  LifeInv'
  <2>1. Frame(c, {}) /\ VacantEmpty(g)
    BY <1>s DEF Frame, LifeTyped, VacantEmpty, SameHandle
  <2> QED BY <1>s, <2>1, SteadyEdit
<1>1. CASE ExpireArmedIdle(c)
  BY <1>1, <1>e, <1>n DEF ExpireArmedIdle
<1>2. CASE CheckoutExisting(c)
  <2>1. /\ h.state = "Idle" /\ ArmedOps(h) = {}
        /\ MintTurn(c, h, reserve_successor(turn, h.aborts))
    BY <1>2 DEF CheckoutExisting
  <2>2. LET t == reserve_successor(turn, h.aborts) IN
        /\ t \in [Op -> TurnRecord]
        /\ \A x \in Op : Keeps(turn[x], t[x])
        /\ \A x \in h.aborts : t[x].intent = "reserved"
    BY <2>1, ReservedForSuccessor
  <2> QED BY <1>a, <1>n, <1>x, <2>1, <2>2, MintLife
<1>3. ASSUME NEW e \in BOOLEAN, AbortGoverned(c, e)
      PROVE  LifeInv'
  <2>1. /\ h.gov # "none" /\ nextOp' = nextOp
        /\ turn' = fire_lingering_turn_abort(turn, {h.op})
        /\ handle' = [handle EXCEPT ![c].expire = @ \/ e]
    BY <1>3 DEF AbortGoverned
  <2>2. SameHandle(h, g, {}) /\ \A d \in Ctx \ {c} : handle'[d] = handle[d]
    BY <1>a, <2>1 DEF TypeOK, HandleRecord, SameHandle
  <2>3. \A x \in Op : Keeps(turn[x], turn'[x])
    BY <1>a, <2>1, FireKeeps
  <2>4. DeferralOwned(g) /\ h.state # "Absent"
    BY <1>n, <2>1, <2>2 DEF DeferralOwned, SameHandle
  <2> QED BY <1>s, <2>1, <2>2, <2>3, <2>4
<1>4. ASSUME is_claimed(h.state), DeferExpiry(c)
      PROVE  LifeInv'
  <2>1. turn' = turn /\ nextOp' = nextOp /\ handle' = [handle EXCEPT ![c].expire = TRUE]
    BY <1>4 DEF DeferExpiry
  <2>2. SameHandle(h, g, {}) /\ \A d \in Ctx \ {c} : handle'[d] = handle[d]
    BY <1>a, <2>1 DEF TypeOK, HandleRecord, SameHandle
  <2>3. DeferralOwned(g) /\ h.state # "Absent"
    BY <1>4, <2>2 DEF DeferralOwned, SameHandle, is_claimed, ClaimedStates
  <2> QED BY <1>s, <2>1, <2>2, <2>3, SameKeeps
<1>5. CASE \/ ReleaseGoverned(c) \/ CancelGoverned(c) \/ ClearGoverned(c)
           \/ ReleaseDeferred(c) \/ CancelDeferred(c) \/ ClearConfiguring(c)
  BY <1>3, <1>4, <1>5 DEF ReleaseGoverned, CancelGoverned, ClearGoverned, ReleaseDeferred,
                          CancelDeferred, ClearConfiguring, is_claimed, ClaimedStates
<1>6. CASE Release(c) \/ Reap(c)
  BY <1>6, <1>e, <1>n DEF Release, Reap
<1>7. CASE Cancel(c)
  <2>1. /\ h.state = "Running" /\ h.gov = "none" /\ nextOp' = nextOp /\ turn' = turn
        /\ handle' = [handle EXCEPT ![c].state = "Cancelling"]
    BY <1>7 DEF Cancel
  <2>2. /\ g.gov = "none" /\ g.state = "Cancelling" /\ g.op = h.op
        /\ g.aborts = h.aborts /\ g.gen = h.gen
        /\ \A d \in Ctx \ {c} : handle'[d] = handle[d]
    BY <1>a, <2>1 DEF TypeOK, HandleRecord
  <2>3. OthersReserved(g, turn')
    BY <1>b, <2>1, <2>2 DEF HandleFit, OthersReserved, Succeeds
  <2>4. IdleUnowned(g) /\ TokensSpent(g) /\ NoSummary(g) /\ DeferralOwned(g) /\ TokensKept(c, {})
    BY <2>2 DEF IdleUnowned, TokensSpent, NoSummary, DeferralOwned, ClaimedStates, TokensKept
  <2> QED BY <2>1, <2>2, <2>3, <2>4, SameKeeps, MoveLife
<1>8. CASE Inject(c) \/ Retire(c)
  <2>1. turn' = turn /\ nextOp' = nextOp /\ h.state # "Absent"
    BY <1>8 DEF Inject, Retire, live
  <2>2. SameHandle(h, g, {}) /\ g.expire = h.expire /\ \A d \in Ctx \ {c} : handle'[d] = handle[d]
    <3>1. CASE Inject(c)
      BY <1>a, <3>1 DEF TypeOK, HandleRecord, SameHandle, Inject
    <3>2. CASE Retire(c)
      BY <1>a, <3>2 DEF TypeOK, HandleRecord, SameHandle, Retire
    <3> QED BY <1>8, <3>1, <3>2
  <2>3. DeferralOwned(g)
    BY <1>b, <2>2 DEF HandleFit, DeferralOwned, SameHandle
  <2> QED BY <1>s, <2>1, <2>2, <2>3, SameKeeps
<1>9. ASSUME NEW r \in Request \cup {NoFingerprint}, claim_governed_locked(c, r)
      PROVE  LifeInv'
  <2>1. h.state = "Idle" /\ \E fp : GovernedClaim(c, h, fp, FALSE)
    BY <1>9 DEF claim_governed_locked
  <2> QED BY <1>a, <1>n, <1>x, <2>1, GovernedClaimLife
<1>10. CASE RetryCleanup(c)
  BY <1>10, StillLife DEF RetryCleanup
<1> QED BY <1>1, <1>2, <1>5, <1>6, <1>7, <1>8, <1>9, <1>10 DEF TableCall

\* The settlement of cleanup and cancel flights.
LEMMA LifeFlightStep ==
    ASSUME TypeOK, LifeTyped, LifeTyped', GovRunning, LifeInv, FlightStep
    PROVE  LifeInv'
<1>1. ASSUME NEW f \in flights, NEW ok \in BOOLEAN, CleanupSettle(f, ok)
      PROVE  LifeInv'
  BY <1>1, StillLife DEF CleanupSettle
<1>2. ASSUME NEW x \in cancels, NEW ok \in BOOLEAN, CancelSettle(x, ok)
      PROVE  LifeInv'
  <2>c. PICK c \in Ctx : c = x.ctx
    BY DEF TypeOK, CancelRecord
  <2> DEFINE h == handle[c]  g == handle'[c]  ours == h.id = x.id /\ h.state = "Cancelling"
  <2>a. h \in HandleRecord /\ HandleFit(c, h, turn, nextOp)
    BY DEF LifeTyped, LifeInv, HandlesFit
  <2>n. ours => h.gov = "none"
    BY DEF GovRunning
  <2>1. CASE ours /\ ok /\ ~deferred_onto_cancel(h)
    <3>1. /\ ~h.expire /\ nextOp' = nextOp /\ turn' = turn
          /\ handle' = [handle EXCEPT ![c].state = "Idle", ![c].op = NoOp]
      BY <1>2, <2>c, <2>1 DEF CancelSettle, deferred_onto_cancel
    <3>2. /\ g.gov = h.gov /\ g.state = "Idle" /\ g.op = NoOp /\ ~g.expire
          /\ g.aborts = h.aborts /\ g.gen = h.gen
          /\ \A d \in Ctx \ {c} : handle'[d] = handle[d]
      BY <2>a, <3>1 DEF TypeOK, HandleRecord
    <3>3. IdleUnowned(g) /\ TokensSpent(g) /\ NoSummary(g) /\ DeferralOwned(g)
          /\ OthersReserved(g, turn') /\ TokensKept(c, {})
      BY <3>2 DEF IdleUnowned, TokensSpent, NoSummary, DeferralOwned, OthersReserved, Succeeds,
                  TokensKept
    <3> QED BY <2>n, <2>1, <3>1, <3>2, <3>3, SameKeeps, MoveLife
  <2>2. CASE ours /\ ~(ok /\ ~deferred_onto_cancel(h))
    <3>1. TakeClaim(c, h.op, x.claim, turn) /\ nextOp' = nextOp
      BY <1>2, <2>c, <2>2 DEF CancelSettle
    <3> QED BY <2>n, <2>2, <3>1, TakesLife
  <2>3. CASE ~ours
    BY <1>2, <2>c, <2>3, StillLife DEF CancelSettle, tables
  <2> QED BY <2>1, <2>2, <2>3
<1> QED BY <1>1, <1>2 DEF FlightStep

\* A step of turn o that leaves its handle alone.
LEMMA StageLife ==
    ASSUME LifeTyped, LifeTyped', LifeInv, NEW o \in Op, UNCHANGED <<handle, nextOp>>,
           \A x \in Op \ {o} : Keeps(turn[x], turn'[x]),
           turn'[o].ctx = turn[o].ctx,
           turn[o].intent = "reserved" => turn'[o].intent = "reserved",
           \A c \in Ctx : handle[c].state = "Running" /\ handle[c].op = o =>
               Runs(c, handle[c], turn'[o]),
           TurnFit(o, turn', handle[turn[o].ctx], nextOp)
    PROVE  LifeInv'
<1>c. PICK c \in Ctx : c = turn[o].ctx
  BY DEF LifeTyped
<1>1. Frame(c, {o}) /\ {o} \in SUBSET Op
  BY <1>c DEF Frame, LifeTyped
<1>2. SameHandle(handle[c], handle'[c], {o}) /\ HandleFit(c, handle[c], turn, nextOp)
  BY DEF SameHandle, LifeInv, HandlesFit
<1>3. VacantEmpty(handle'[c]) /\ DeferralOwned(handle'[c])
  BY <1>2 DEF HandleFit
<1>4. \A x \in {o} : TurnFit(x, turn', handle'[c], nextOp')
  BY <1>c
<1> QED BY <1>1, <1>2, <1>3, <1>4, SteadyEdit

\* What the handles say of a turn that is under way.
LEMMA TurnUnderWay ==
    ASSUME LifeTyped, LifeInv, NEW o \in Op, turn[o].stage # "none"
    PROVE  /\ o < nextOp /\ ~(o >= nextOp)
           /\ \A c \in Ctx : handle[c].state = "Running" /\ handle[c].op = o =>
                 c = turn[o].ctx /\ Runs(c, handle[c], turn[o])
<1>1. ~(o >= nextOp) /\ o \in Nat /\ nextOp \in Nat
  BY DEF LifeInv, TurnsFit, TurnFit, LifeTyped
<1>2. \A c \in Ctx : handle[c].state = "Running" /\ handle[c].op = o =>
                 c = turn[o].ctx /\ Runs(c, handle[c], turn[o])
  BY DEF LifeInv, HandlesFit, HandleFit, RunnerFit, Runs
<1> QED BY <1>1, <1>2

\* The producer, and the steps of a governed claim that only move its stage.
LEMMA LifeStageStep ==
    ASSUME TypeOK, LifeTyped, LifeTyped', GovRunning, LifeInv, NEW o \in Op,
           \/ TurnPoll(o) \/ Admit(o) \/ Rollback(o) \/ ApplyLock1(o)
           \/ \E a \in {"finish", "expire"} : TurnExit(o, a)
    PROVE  LifeInv'
<1>c. PICK c \in Ctx : c = turn[o].ctx
  BY DEF LifeTyped
<1> DEFINE t == turn[o]  h == handle[c]  u == turn'[o]
<1>a. t \in TurnRecord /\ turn \in [Op -> TurnRecord] /\ h.aborts \subseteq Op
  BY DEF LifeTyped, TypeOK
<1>b. TurnFit(o, turn, h, nextOp)
  BY <1>c DEF LifeInv, TurnsFit
<1>m. t.stage # "none" => /\ ~(o >= nextOp)
                          /\ \A d \in Ctx : handle[d].state = "Running" /\ handle[d].op = o =>
                                Runs(d, handle[d], t)
  BY TurnUnderWay
<1>1. CASE TurnPoll(o)
  <2>1. t.stage = "fresh" /\ UNCHANGED <<handle, nextOp>>
        /\ turn' = [turn EXCEPT ![o].stage = "prompting"]
    BY <1>1 DEF TurnPoll, tables
  <2>2. /\ u.stage = "prompting" /\ u.ctx = t.ctx /\ u.gen = t.gen /\ u.fired = t.fired
        /\ u.intent = t.intent
        /\ \A x \in Op \ {o} : Keeps(turn[x], turn'[x])
    BY <1>a, <2>1, SameKeeps DEF TypeOK, TurnRecord
  <2>3. TurnFit(o, turn', h, nextOp)
    BY <1>b, <1>m, <2>1, <2>2 DEF TurnFit, TokenFit, GovernedStages
  <2>4. \A d \in Ctx : handle[d].state = "Running" /\ handle[d].op = o => Runs(d, handle[d], u)
    BY <1>m, <2>1, <2>2 DEF Runs, GovernedStages
  <2> QED BY <1>c, <2>1, <2>2, <2>3, <2>4, StageLife
<1>2. ASSUME NEW a \in {"finish", "expire"}, TurnExit(o, a)
      PROVE  LifeInv'
  <2>1. t.stage \in {"fresh", "prompting"} /\ UNCHANGED <<handle, nextOp>>
    BY <1>2 DEF TurnExit, tables
  <2>2. /\ u.stage = "exited" /\ u.ctx = t.ctx /\ u.gen = t.gen
        /\ t.intent = "reserved" => u.intent = "reserved"
    BY <1>2, <1>a DEF TurnExit, TypeOK, TurnRecord
  <2>3. \A x \in Op \ {o} : Keeps(turn[x], turn'[x])
    BY <1>2, SameKeeps DEF TurnExit, TypeOK
  <2>4. TurnFit(o, turn', h, nextOp)
    BY <1>m, <2>1, <2>2 DEF TurnFit, TokenFit, GovernedStages
  <2>5. \A d \in Ctx : handle[d].state = "Running" /\ handle[d].op = o => Runs(d, handle[d], u)
    BY <1>m, <2>1, <2>2 DEF Runs, GovernedStages
  <2> QED BY <1>c, <2>1, <2>2, <2>3, <2>4, <2>5, StageLife
<1>3. ASSUME NEW s \in {"admitted", "settling"}, turn' = stage(o, s),
             t.stage \in GovernedStages, UNCHANGED <<handle, nextOp>>
      PROVE  LifeInv'
  <2>2. /\ u.stage = s /\ u.ctx = t.ctx /\ u.gen = t.gen /\ u.id = t.id /\ u.fresh = t.fresh
        /\ u.applying = t.applying /\ u.intent = t.intent
        /\ \A x \in Op \ {o} : Keeps(turn[x], turn'[x])
    BY <1>a, <1>3, SameKeeps DEF TypeOK, TurnRecord, stage
  <2>3. ClaimFit(o, turn, h) /\ s \in GovernedStages /\ s # "applying"
    BY <1>b, <1>3 DEF TurnFit, GovernedStages
  <2>4. ClaimFit(o, turn', h)
    BY <2>2, <2>3 DEF ClaimFit
  <2>5. TurnFit(o, turn', h, nextOp)
    BY <1>m, <1>3, <2>2, <2>4 DEF TurnFit, TokenFit, GovernedStages
  <2>6. \A d \in Ctx : handle[d].state = "Running" /\ handle[d].op = o => Runs(d, handle[d], u)
    BY <1>m, <1>3, <2>2, <2>3 DEF Runs, GovernedStages
  <2> QED BY <1>c, <1>3, <2>2, <2>5, <2>6, StageLife
<1>4. CASE Admit(o) \/ Rollback(o)
  BY <1>3, <1>4 DEF Admit, Rollback, tables, GovernedStages
<1>5. CASE ApplyLock1(o)
  <2>0. t.stage = "admitted" /\ UNCHANGED <<handle, nextOp>>
    BY <1>5 DEF ApplyLock1, tables
  <2>1. CASE ~(Applicable(o) /\ ArmedOps(h) = {})
    BY <1>c, <1>3, <1>5, <2>0, <2>1 DEF ApplyLock1, GovernedStages
  <2>2. CASE Applicable(o) /\ ArmedOps(h) = {}
    <3> DEFINE r == reserve_successor(turn, h.aborts)
    <3>1. turn' = [r EXCEPT ![o].stage = "applying", ![o].applying = TRUE]
      BY <1>c, <1>5, <2>2 DEF ApplyLock1
    <3>2. /\ r \in [Op -> TurnRecord]
          /\ \A x \in Op : Keeps(turn[x], r[x])
          /\ \A x \in h.aborts : r[x].intent = "reserved"
      BY <2>2, ReservedForSuccessor
    <3>3. /\ \A x \in Op \ {o} : turn'[x] = r[x]
          /\ u.stage = "applying" /\ u.applying /\ u.ctx = r[o].ctx /\ u.gen = r[o].gen
          /\ u.id = r[o].id /\ u.intent = r[o].intent
      <4> HIDE DEF r
      <4> QED BY <3>1, <3>2 DEF TurnRecord
    <3>4. Keeps(t, r[o])
      BY <3>2
    <3>5. ClaimFit(o, turn, h)
      BY <1>b, <2>0 DEF TurnFit, GovernedStages
    <3> HIDE DEF r
    <3>6. ClaimFit(o, turn', h)
      BY <1>a, <3>2, <3>3, <3>4, <3>5 DEF ClaimFit, Keeps
    <3>7. TurnFit(o, turn', h, nextOp)
      BY <1>m, <2>0, <3>3, <3>6 DEF TurnFit, TokenFit, GovernedStages
    <3>8. \A d \in Ctx : handle[d].state = "Running" /\ handle[d].op = o => Runs(d, handle[d], u)
      BY <1>m, <2>0, <3>3, <3>4 DEF Runs, GovernedStages, Keeps
    <3>9. /\ \A x \in Op \ {o} : Keeps(turn[x], turn'[x])
          /\ u.ctx = t.ctx
          /\ t.intent = "reserved" => u.intent = "reserved"
      BY <3>2, <3>3, <3>4 DEF Keeps
    <3> QED BY <1>c, <2>0, <3>7, <3>8, <3>9, StageLife
  <2> QED BY <2>1, <2>2
<1> QED BY <1>1, <1>2, <1>4, <1>5

\* The steps of a governed claim that change its handle.
LEMMA LifeGovernedStep ==
    ASSUME TypeOK, LifeTyped, LifeTyped', GovRunning, LifeInv, NEW o \in Op,
           \/ GovernedSettle(o) \/ FirstPoll(o)
           \/ \E ok \in BOOLEAN : ApplyLock2(o, ok)
    PROVE  LifeInv'
<1>c. PICK c \in Ctx : c = turn[o].ctx
  BY DEF LifeTyped
<1> DEFINE t == turn[o]  h == handle[c]  g == handle'[c]  u == turn'[o]
<1>a. /\ t \in TurnRecord /\ turn \in [Op -> TurnRecord] /\ h.aborts \subseteq Op
      /\ h \in HandleRecord /\ nextOp \in Nat /\ Op \subseteq Nat
  BY DEF LifeTyped, TypeOK
<1>b. TurnFit(o, turn, h, nextOp) /\ HandleFit(c, h, turn, nextOp)
  BY <1>c DEF LifeInv, TurnsFit, HandlesFit
<1>m. t.stage # "none" => /\ o < nextOp /\ ~(o >= nextOp)
                          /\ \A d \in Ctx : handle[d].state = "Running" /\ handle[d].op = o =>
                                Runs(d, handle[d], t)
  BY TurnUnderWay
<1>g. t.stage \in GovernedStages =>
          /\ ClaimFit(o, turn, h) /\ owns(o)
          /\ h.op = o /\ h.gov = "claimed" /\ h.state = "Running"
  BY <1>c, <1>b DEF TurnFit, ClaimFit, owns, GovRunning
<1>s. ASSUME NEW s, turn' = stage(o, s)
      PROVE  /\ u.stage = s /\ u.ctx = t.ctx /\ u.gen = t.gen /\ u.id = t.id
             /\ u.fresh = t.fresh /\ u.applying = t.applying /\ u.intent = t.intent
             /\ u.fired = t.fired
             /\ \A x \in Op \ {o} : turn'[x] = turn[x]
  BY <1>a, <1>s DEF TypeOK, TurnRecord, stage
<1>f. ASSUME nextOp' = nextOp, \A d \in Ctx \ {c} : handle'[d] = handle[d],
             \A x \in Op \ {o} : turn'[x] = turn[x], u.ctx = t.ctx, u.intent = t.intent
      PROVE  Frame(c, {o}) /\ {o} \in SUBSET Op
  BY <1>a, <1>c, <1>f, SameKeeps DEF Frame
<1>1. ASSUME NEW ok \in BOOLEAN, ApplyLock2(o, ok)
      PROVE  LifeInv'
  <2>0. t.stage = "applying" /\ nextOp' = nextOp
    BY <1>1 DEF ApplyLock2
  <2>1. CASE ok /\ Applicable(o)
    <3> DEFINE nh == [h EXCEPT !.fp = t.fp, !.gov = "ready", !.aborts = h.aborts \cup {o},
                               !.seed = NoSeed, !.injects = FALSE]
    <3>1. handle' = [handle EXCEPT ![c] = nh] /\ turn' = stage(o, "fresh")
      BY <1>1, <1>c, <2>1 DEF ApplyLock2
    <3>2. /\ nh.state = h.state /\ nh.gen = h.gen /\ nh.op = h.op /\ nh.gov = "ready"
          /\ nh.aborts = h.aborts \cup {o}
      BY <1>a DEF HandleRecord
    <3> HIDE DEF nh
    <3>3. g = nh /\ \A d \in Ctx \ {c} : handle'[d] = handle[d]
      BY <3>1 DEF TypeOK
    <3>4. /\ u.stage = "fresh" /\ u.ctx = c /\ u.gen = h.gen
          /\ \A x \in Op \ {o} : turn'[x] = turn[x]
      BY <1>c, <1>g, <1>s, <2>0, <3>1 DEF GovernedStages, ClaimFit
    <3>5. Frame(c, {o}) /\ {o} \in SUBSET Op
      BY <1>f, <1>s, <2>0, <3>1, <3>3
    <3>6. g.state = "Running" /\ g.op = o /\ g.gov = "ready" /\ g.aborts = h.aborts \cup {o}
          /\ g.gen = h.gen
      BY <1>g, <2>0, <3>2, <3>3 DEF GovernedStages
    <3>7. NoOtherClaim(c, {o}) /\ TokensKept(c, {o})
      BY <1>g, <2>0, <3>6, ClaimsAlone DEF GovernedStages, TokensKept
    <3>8. \A x \in h.aborts : turn[x].intent = "reserved"
      BY <1>g, <2>0 DEF GovernedStages, ClaimFit
    <3>9. HandleFit(c, g, turn', nextOp')
      <4>1. Minted(g, nextOp')
        BY <1>b, <1>m, <2>0, <3>6 DEF HandleFit, Minted
      <4>2. OthersReserved(g, turn')
        BY <1>a, <3>4, <3>6, <3>8 DEF OthersReserved
      <4>3. RunnerFit(c, g, turn')
        BY <3>4, <3>6 DEF RunnerFit, Runs, GovernedStages
      <4> QED BY <3>6, <4>1, <4>2, <4>3
              DEF HandleFit, VacantEmpty, IdleUnowned, TokensSpent, NoSummary, DeferralOwned
    <3>10. TurnFit(o, turn', g, nextOp')
      BY <1>m, <2>0, <3>4, <3>6 DEF TurnFit, TokenFit, GovernedStages
    <3>11. \A x \in {o} : TurnFit(x, turn', handle'[c], nextOp')
      BY <3>10
    <3> QED BY <3>5, <3>7, <3>9, <3>11, UngovernedEdit
  <2>2. CASE ~(ok /\ Applicable(o))
    <3>1. turn' = stage(o, "settling") /\ UNCHANGED handle
      BY <1>1, <2>2 DEF ApplyLock2
    <3>2. ClaimFit(o, turn', h)
      BY <1>g, <1>s, <2>0, <3>1 DEF ClaimFit, GovernedStages
    <3>3. TurnFit(o, turn', h, nextOp)
      BY <1>m, <1>s, <2>0, <3>1, <3>2 DEF TurnFit, TokenFit, GovernedStages
    <3>4. \A d \in Ctx : handle[d].state = "Running" /\ handle[d].op = o => Runs(d, handle[d], u)
      BY <1>m, <1>s, <2>0, <3>1 DEF Runs, GovernedStages
    <3>5. \A x \in Op \ {o} : Keeps(turn[x], turn'[x])
      BY <1>s, <3>1, SameKeeps
    <3> QED BY <1>c, <1>s, <2>0, <3>1, <3>3, <3>4, <3>5, StageLife
  <2> QED BY <2>1, <2>2
<1>2. CASE GovernedSettle(o)
  <2>0. t.stage = "settling" /\ nextOp' = nextOp /\ t.stage \in GovernedStages
    BY <1>2 DEF GovernedSettle, GovernedStages
  <2> DEFINE untouched == t.fresh /\ ~t.applying
  <2>1. CASE ~untouched /\ expire_on_settle(t, h)
    <3>1. TakeClaim(c, o, nextClaim, done(o))
      BY <1>2, <1>c, <1>g, <2>0, <2>1 DEF GovernedSettle, take_expiry_claim_locked
    <3> QED BY <1>c, <1>g, <2>0, <3>1, TakesDoneLife
  <2>2. CASE untouched
    <3>1. handle' = [handle EXCEPT ![c] = NoHandle] /\ turn' = done(o)
      BY <1>2, <1>c, <1>g, <2>0, <2>2 DEF GovernedSettle
    <3>2. /\ g = NoHandle /\ u.stage = "done"
          /\ \A d \in Ctx \ {c} : handle'[d] = handle[d]
      BY <3>1, DoneKeeps DEF TypeOK
    <3>3. Frame(c, {o}) /\ {o} \in SUBSET Op
      BY <1>f, <2>0, <3>1, <3>2, DoneKeeps
    <3>4. h.aborts = {}
      BY <1>g, <2>0, <2>2 DEF ClaimFit
    <3>5. NoOtherClaim(c, {o}) /\ TokensKept(c, {o})
      BY <1>g, <2>0, <3>4, ClaimsAlone DEF TokensKept
    <3> QED BY <2>0, <3>2, <3>3, <3>5, GoneEdit
  <2>3. CASE ~untouched /\ ~expire_on_settle(t, h)
    <3> DEFINE nh == [h EXCEPT !.state = "Idle", !.op = NoOp, !.gov = "none"]
    <3>1. handle' = [handle EXCEPT ![c] = nh] /\ turn' = done(o)
      BY <1>2, <1>c, <1>g, <2>0, <2>3 DEF GovernedSettle
    <3>2. nh.state = "Idle" /\ nh.op = NoOp /\ nh.gov = "none" /\ nh.aborts = h.aborts
          /\ nh.gen = h.gen /\ nh.expire = h.expire
      BY <1>a DEF HandleRecord
    <3> HIDE DEF nh
    <3>3. g = nh /\ u.stage = "done" /\ \A d \in Ctx \ {c} : handle'[d] = handle[d]
      BY <3>1, DoneKeeps DEF TypeOK
    <3>4. Frame(c, {o}) /\ {o} \in SUBSET Op
      BY <1>f, <2>0, <3>1, <3>3, DoneKeeps
    <3>5. NoOtherClaim(c, {o}) /\ TokensKept(c, {o})
      BY <1>g, <2>0, <3>2, <3>3, ClaimsAlone DEF TokensKept
    <3>6. HandleFit(c, g, turn', nextOp')
      <4>1. Minted(g, nextOp')
        BY <1>b, <2>0, <3>2, <3>3 DEF HandleFit, Minted, NoOp, LifeTyped
      <4>2. ~h.expire
        BY <2>3 DEF expire_on_settle
      <4> QED BY <3>2, <3>3, <4>1, <4>2
              DEF HandleFit, VacantEmpty, IdleUnowned, TokensSpent, NoSummary, DeferralOwned,
                  OthersReserved, Succeeds, RunnerFit
    <3>7. \A x \in {o} : TurnFit(x, turn', handle'[c], nextOp')
      BY <1>m, <2>0, <3>3 DEF TurnFit, TokenFit, GovernedStages
    <3> QED BY <3>4, <3>5, <3>6, <3>7, UngovernedEdit
  <2> QED BY <2>1, <2>2, <2>3
<1>3. CASE FirstPoll(o)
  <2> DEFINE current == owns(o) /\ h.gov = "ready"
             sound == ~h.expire /\ ~h.retired /\ h.fp = t.fp
  <2>0. t.stage = "fresh" /\ nextOp' = nextOp
    BY <1>3 DEF FirstPoll
  <2>1. CASE current /\ ~t.fired /\ sound
    <3>1. handle' = [handle EXCEPT ![c].gov = "none"] /\ turn' = stage(o, "prompting")
      BY <1>3, <1>c, <2>1 DEF FirstPoll
    <3>2. /\ g.state = h.state /\ g.op = h.op /\ g.gov = "none" /\ g.aborts = h.aborts
          /\ g.gen = h.gen /\ g.expire = h.expire /\ g.seed = h.seed
          /\ \A d \in Ctx \ {c} : handle'[d] = handle[d]
      BY <1>a, <3>1 DEF HandleRecord, TypeOK
    <3>3. h.op = o /\ h.state = "Running" /\ ~h.expire /\ h.gen = t.gen
      BY <1>c, <2>1 DEF owns, GovRunning
    <3>4. Frame(c, {o}) /\ {o} \in SUBSET Op
      BY <1>f, <1>s, <2>0, <3>1, <3>2
    <3>5. NoOtherClaim(c, {o}) /\ TokensKept(c, {o})
      BY <3>2, <3>3, ClaimsAlone DEF TokensKept
    <3>6. HandleFit(c, g, turn', nextOp')
      <4>1. Minted(g, nextOp')
        BY <1>b, <2>0, <3>2 DEF HandleFit, Minted
      <4>2. OthersReserved(g, turn')
        BY <1>a, <1>b, <1>s, <2>1, <3>1, <3>2, <3>3 DEF HandleFit, OthersReserved, Succeeds
      <4>3. RunnerFit(c, g, turn')
        BY <1>c, <1>s, <3>1, <3>2, <3>3 DEF RunnerFit, Runs, GovernedStages
      <4> QED BY <3>2, <3>3, <4>1, <4>2, <4>3
              DEF HandleFit, VacantEmpty, IdleUnowned, TokensSpent, NoSummary, DeferralOwned
    <3>7. TurnFit(o, turn', g, nextOp')
      BY <1>b, <1>m, <1>s, <2>0, <3>1, <3>2 DEF TurnFit, TokenFit, GovernedStages
    <3>8. \A x \in {o} : TurnFit(x, turn', handle'[c], nextOp')
      BY <3>7
    <3> QED BY <3>4, <3>5, <3>6, <3>8, UngovernedEdit
  <2>2. CASE ~(current /\ ~t.fired /\ sound)
    <3>1. /\ handle' = [handle EXCEPT ![c].expire = @ \/ (current /\ ~t.fired)]
          /\ turn' = stage(o, "exited")
      BY <1>3, <1>c, <2>2 DEF FirstPoll
    <3>2. /\ SameHandle(h, g, {o}) /\ \A d \in Ctx \ {c} : handle'[d] = handle[d]
          /\ g.expire = (h.expire \/ (current /\ ~t.fired))
      <4> HIDE DEF current
      <4> QED BY <1>a, <3>1 DEF TypeOK, HandleRecord, SameHandle
    <3>3. Frame(c, {o}) /\ {o} \in SUBSET Op
      BY <1>f, <1>s, <2>0, <3>1, <3>2
    <3>4. DeferralOwned(g)
      BY <1>b, <3>2 DEF HandleFit, DeferralOwned, SameHandle
    <3>5. VacantEmpty(g)
      <4> SUFFICES ASSUME h.state = "Absent" PROVE g = NoHandle
        BY <3>2 DEF VacantEmpty, SameHandle
      <4>1. h = NoHandle /\ ~current /\ ~h.expire
        BY <1>b DEF HandleFit, VacantEmpty, GovRunning, NoHandle
      <4>2. g = [h EXCEPT !.expire = FALSE]
        <5> HIDE DEF current
        <5> QED BY <3>1, <4>1 DEF TypeOK
      <4>3. [h EXCEPT !.expire = FALSE] = h
        BY <1>a, <4>1 DEF HandleRecord
      <4> QED BY <4>1, <4>2, <4>3
    <3>6. h.state = "Running" /\ h.op \in {o} => Runs(c, h, turn'[h.op])
      BY <1>m, <1>s, <2>0, <3>1 DEF Runs, GovernedStages
    <3>7. \A x \in {o} : TurnFit(x, turn', handle'[c], nextOp')
      BY <1>m, <1>s, <2>0, <3>1 DEF TurnFit, TokenFit, GovernedStages
    <3> QED BY <3>2, <3>3, <3>4, <3>5, <3>6, <3>7, SteadyEdit
  <2> QED BY <2>1, <2>2
<1> QED BY <1>1, <1>2, <1>3

\* The completion of a turn that finished.
LEMMA LifeFinish ==
    ASSUME TypeOK, LifeTyped, LifeTyped', GovRunning, LifeInv, NEW o \in Op,
           finish_owned_turn(o)
    PROVE  LifeInv'
<1>c. PICK c \in Ctx : c = turn[o].ctx
  BY DEF LifeTyped
<1> DEFINE t == turn[o]  h == handle[c]  g == handle'[c]  u == turn'[o]
           current == live(c) /\ h.gen = t.gen
           owner == current /\ h.op = o
           ready == owner /\ h.gov = "ready"
           gov == gov_after_finish(h, ready)
           idle == owner /\ gov = "none" /\ h.state = "Running"
<1>0. t.stage = "exited" /\ nextOp' = nextOp
  BY <1>c DEF finish_owned_turn
<1>a. /\ t \in TurnRecord /\ turn \in [Op -> TurnRecord] /\ h.aborts \subseteq Op
      /\ h \in HandleRecord /\ nextOp \in Nat /\ Op \subseteq Nat
  BY DEF LifeTyped, TypeOK
<1>b. HandleFit(c, h, turn, nextOp)
  BY DEF LifeInv, HandlesFit
<1>m. ~(o >= nextOp) /\ (h.state = "Running" /\ h.op = o => Runs(c, h, t))
  BY <1>0, TurnUnderWay
<1>o. h.state = "Running" /\ h.op = o => owner /\ h.gov # "claimed"
  BY <1>0, <1>m DEF Runs, GovernedStages, live
<1>1. CASE ready /\ h.expire
  <2>1. TakeClaim(c, o, nextClaim, done(o))
    BY <1>c, <1>1 DEF finish_owned_turn, take_expiry_claim_locked
  <2> QED BY <1>c, <1>0, <1>1, <2>1, TakesDoneLife
<1>2. CASE ~(ready /\ h.expire)
  <2> DEFINE s == IF idle THEN "Idle" ELSE h.state
             n == IF idle THEN NoOp ELSE h.op
             nh == [h EXCEPT !.gov = gov, !.aborts = h.aborts \ {o}, !.state = s, !.op = n]
  <2>1. /\ handle' = [handle EXCEPT ![c] = IF current THEN nh ELSE h]
        /\ turn' = done(o)
    BY <1>c, <1>2 DEF finish_owned_turn
  <2>2. /\ nh.gov = gov /\ nh.aborts = h.aborts \ {o} /\ nh.state = s /\ nh.op = n
        /\ nh.gen = h.gen /\ nh.id = h.id /\ nh.expire = h.expire /\ nh.seed = h.seed
    <3> HIDE DEF gov, s, n
    <3> QED BY <1>a DEF HandleRecord
  <2>3. /\ u.stage = "done" /\ u.ctx = c /\ u.intent = t.intent
        /\ \A x \in Op \ {o} : turn'[x] = turn[x]
    BY <1>c, <2>1, DoneKeeps
  <2>4. \A d \in Ctx \ {c} : handle'[d] = handle[d]
    BY <2>1 DEF TypeOK
  <2>5. Frame(c, {o}) /\ {o} \in SUBSET Op
    BY <1>a, <1>c, <1>0, <2>3, <2>4, SameKeeps DEF Frame
  <2>6. \A x \in {o} : TurnFit(x, turn', handle'[c], nextOp')
    BY <1>0, <1>m, <2>3 DEF TurnFit, TokenFit, GovernedStages
  <2>7. CASE current /\ idle
    <3>1. g = nh
      BY <2>1, <2>7 DEF TypeOK
    <3>2. g.state = "Idle" /\ g.op = NoOp /\ g.gov = "none" /\ g.aborts = h.aborts \ {o}
          /\ g.gen = h.gen /\ g.expire = h.expire
      <4> HIDE DEF idle, gov, nh
      <4>1. idle => gov = "none"
        BY DEF idle
      <4> QED BY <2>2, <2>7, <3>1, <4>1
    <3>3. ~h.expire
      BY <1>a, <1>b, <1>o, <1>2, <2>7 DEF HandleFit, DeferralOwned, ClaimedStates, HandleRecord
    <3>4. NoOtherClaim(c, {o}) /\ TokensKept(c, {o})
      BY <2>7, <3>2, ClaimsAlone DEF TokensKept
    <3>5. Minted(g, nextOp')
      BY <1>a, <1>b, <1>0, <3>2 DEF HandleFit, Minted, NoOp, LifeTyped
    <3>6. HandleFit(c, g, turn', nextOp')
      BY <3>2, <3>3, <3>5
         DEF HandleFit, VacantEmpty, IdleUnowned, TokensSpent, NoSummary, DeferralOwned,
             OthersReserved, Succeeds, RunnerFit
    <3> QED BY <2>5, <2>6, <3>4, <3>6, UngovernedEdit
  <2>8. CASE current /\ ~idle
    <3>1. g = nh
      BY <2>1, <2>8 DEF TypeOK
    <3>2. ~ready /\ (h.state = "Running" => h.op # o)
      <4>1. ready => idle
        BY DEF GovRunning, gov_after_finish
      <4>2. h.state = "Running" /\ h.op = o => owner /\ h.gov \in {"ready", "none"}
        BY <1>a, <1>o DEF HandleRecord
      <4>3. h.state = "Running" /\ h.op = o => idle
        BY <4>2 DEF gov_after_finish
      <4> QED BY <2>8, <4>1, <4>3
    <3>3. gov = h.gov
      BY <3>2 DEF gov_after_finish
    <3>4. SameHandle(h, g, {o}) /\ g.expire = h.expire
      <4> HIDE DEF idle, gov, nh
      <4> QED BY <2>2, <2>8, <3>1, <3>3 DEF SameHandle
    <3>5. VacantEmpty(g) /\ DeferralOwned(g)
      BY <1>b, <2>8, <3>4 DEF HandleFit, DeferralOwned, VacantEmpty, SameHandle, live
    <3> QED BY <2>5, <2>6, <3>2, <3>4, <3>5, SteadyEdit
  <2>9. CASE ~current
    <3>1. handle' = handle /\ nextOp' = nextOp
      BY <1>0, <2>1, <2>9 DEF TypeOK
    <3>2. ~(h.state = "Running" /\ h.op = o)
      BY <1>o, <2>9
    <3>3. SameHandle(h, g, {o}) /\ VacantEmpty(g) /\ DeferralOwned(g)
      BY <1>b, <3>1 DEF SameHandle, HandleFit
    <3> QED BY <2>5, <2>6, <3>2, <3>3, SteadyEdit
  <2> QED BY <2>7, <2>8, <2>9
<1> QED BY <1>1, <1>2

\* The completion of a turn that failed.
LEMMA LifeExpire ==
    ASSUME TypeOK, LifeTyped, LifeTyped', GovRunning, TableExclusive, LifeInv, NEW o \in Op,
           begin_expire_current(o)
    PROVE  LifeInv'
<1>c. PICK c \in Ctx : c = turn[o].ctx
  BY DEF LifeTyped
<1> DEFINE t == turn[o]  h == handle[c]  g == handle'[c]  u == turn'[o]
           current == tomb[c].state = "None" /\ live(c) /\ h.gen = t.gen
           retained == h.op # o /\ o \in ArmedOps(h)
           successor == current /\ retained /\ h.gov # "none"
           cancelling == current /\ h.op = o /\ h.state = "Cancelling"
           matches_current == current /\ (\/ h.op = o /\ h.state = "Running"
                                          \/ h.op = NoOp /\ h.state = "Idle" /\ retained)
<1>0. t.stage = "exited" /\ nextOp' = nextOp
  BY <1>c DEF begin_expire_current
<1>a. /\ t \in TurnRecord /\ turn \in [Op -> TurnRecord] /\ h.aborts \subseteq Op
      /\ h \in HandleRecord /\ nextOp \in Nat /\ Op \subseteq Nat
  BY DEF LifeTyped, TypeOK
<1>b. HandleFit(c, h, turn, nextOp)
  BY DEF LifeInv, HandlesFit
<1>m. ~(o >= nextOp) /\ (h.state = "Running" /\ h.op = o => Runs(c, h, t))
  BY <1>0, TurnUnderWay
<1>1. CASE matches_current /\ ~successor
  <2>1. TakeClaim(c, o, nextClaim, done(o))
    BY <1>c, <1>1 DEF begin_expire_current, take_expiry_claim_locked
  <2>2. h.op = o \/ h.gov = "none"
    BY <1>1 DEF GovRunning
  <2> QED BY <1>c, <1>0, <2>1, <2>2, TakesDoneLife
<1>2. CASE ~(matches_current /\ ~successor)
  <2>1. /\ handle' = [handle EXCEPT ![c].expire = @ \/ successor \/ cancelling]
        /\ turn' \in {fire_lingering_turn_abort(done(o), {h.op}), done(o)}
    BY <1>c, <1>2 DEF begin_expire_current
  <2>2. /\ SameHandle(h, g, {o}) /\ \A d \in Ctx \ {c} : handle'[d] = handle[d]
        /\ g.expire = (h.expire \/ successor \/ cancelling)
    <3> HIDE DEF successor, cancelling
    <3> QED BY <1>a, <2>1 DEF TypeOK, HandleRecord, SameHandle
  <2>3. /\ u.stage = "done" /\ u.ctx = c /\ u.intent = t.intent
        /\ \A x \in Op \ {o} : Keeps(turn[x], turn'[x])
    <3>1. /\ done(o) \in [Op -> TurnRecord] /\ \A x \in Op \ {o} : done(o)[x] = turn[x]
          /\ done(o)[o].stage = "done" /\ done(o)[o].ctx = c /\ done(o)[o].intent = t.intent
      BY <1>c, DoneKeeps
    <3>2. CASE turn' = done(o)
      BY <3>1, <3>2, SameKeeps
    <3>3. CASE turn' = fire_lingering_turn_abort(done(o), {h.op})
      <4>1. \A x \in Op : Keeps(done(o)[x], turn'[x]) /\ turn'[x].intent = done(o)[x].intent
        BY <3>1, <3>3, FireKeeps
      <4>2. Keeps(done(o)[o], u) /\ u.intent = done(o)[o].intent
        BY <4>1
      <4>3. u.stage = "done" /\ u.ctx = c /\ u.intent = t.intent
        BY <3>1, <4>2 DEF Keeps
      <4> QED BY <3>1, <4>1, <4>3
    <3> QED BY <2>1, <3>2, <3>3
  <2>4. Frame(c, {o}) /\ {o} \in SUBSET Op
    BY <1>a, <1>c, <1>0, <2>2, <2>3 DEF Frame
  <2>5. \A x \in {o} : TurnFit(x, turn', handle'[c], nextOp')
    BY <1>0, <1>m, <2>3 DEF TurnFit, TokenFit, GovernedStages
  <2>6. ~(h.state = "Running" /\ h.op = o)
    <3>1. h.state = "Running" /\ h.op = o => current
      BY <1>m DEF Runs, live, TableExclusive
    <3> QED BY <1>2, <3>1
  <2>7. DeferralOwned(g)
    BY <1>b, <2>2 DEF HandleFit, DeferralOwned, SameHandle, ClaimedStates
  <2>8. VacantEmpty(g)
    <3> SUFFICES ASSUME h.state = "Absent" PROVE g = NoHandle
      BY <2>2 DEF VacantEmpty, SameHandle
    <3>1. h = NoHandle /\ ~successor /\ ~cancelling /\ ~h.expire
      BY <1>b DEF HandleFit, VacantEmpty, NoHandle, live
    <3>2. g = [h EXCEPT !.expire = FALSE]
      <4> HIDE DEF successor, cancelling
      <4> QED BY <2>1, <3>1 DEF TypeOK
    <3>3. [h EXCEPT !.expire = FALSE] = h
      BY <1>a, <3>1 DEF HandleRecord
    <3> QED BY <3>1, <3>2, <3>3
  <2> QED BY <2>2, <2>4, <2>5, <2>6, <2>7, <2>8, SteadyEdit
<1> QED BY <1>1, <1>2

\* Every step keeps the lives of handles and turns in step.
LEMMA LifeStep ==
    ASSUME ClaimInv, LifeInv, [Next]_vars
    PROVE  LifeInv'
<1>1. TypeOK /\ GovRunning /\ ClaimExact /\ TableExclusive
  BY DEF ClaimInv, TableInv
<1>2. LifeTyped /\ LifeTyped'
  BY <1>1, TypeStep, LifeTypes, LifeTypesNext
<1>3. CASE UNCHANGED vars
  BY <1>3, StillLife DEF vars
<1>4. ASSUME NEW p \in Caller, NEW c \in Ctx,
             \/ \E r \in Request : CheckoutLock1(p, c, r) \/ ClaimLock1(p, c, r)
             \/ \E force \in BOOLEAN : Clear(p, c, force)
             \/ Compact(p, c)
      PROVE  LifeInv'
  BY <1>1, <1>2, <1>4, LifeCallStart
<1>5. ASSUME NEW p \in Caller, CallStep(p) \/ DropCall(p)
      PROVE  LifeInv'
  <2>1. CASE \/ ResolveFails(p) \/ CheckoutRefused(p) \/ CancelOld(p) \/ ReleasedOld(p)
             \/ DropCall(p)
    BY <2>1, StillLife DEF ResolveFails, CheckoutRefused, CancelOld, ReleasedOld, DropCall, tables
  <2>2. CASE \/ CheckoutExpiresArmed(p) \/ CheckoutReuse(p) \/ CheckoutReconcile(p)
             \/ CheckoutFresh(p)
             \/ \E ok \in BOOLEAN : ReconcileSettle(p, ok) \/ ConfigureSettle(p, ok)
    BY <1>1, <1>2, <2>2, LifeCheckoutStep
  <2>3. CASE \/ CheckoutTeardown(p) \/ ClearTeardown(p) \/ CompactTeardown(p) \/ ClaimLock2(p)
             \/ \E ok \in BOOLEAN : ClearSettle(p, ok) \/ Summarized(p, ok)
                                    \/ CompactSettle(p, ok)
    BY <1>1, <1>2, <2>3, LifeRenewStep
  <2> QED BY <1>5, <2>1, <2>2, <2>3 DEF CallStep
<1>6. ASSUME NEW c \in Ctx, TableCall(c)
      PROVE  LifeInv'
  BY <1>1, <1>2, <1>6, LifeTableCall
<1>7. ASSUME NEW o \in Op,
             \/ TurnPoll(o) \/ TurnComplete(o) \/ GovernedStep(o)
             \/ \E a \in {"finish", "expire"} : TurnExit(o, a)
      PROVE  LifeInv'
  BY <1>1, <1>2, <1>7, LifeStageStep, LifeGovernedStep, LifeFinish, LifeExpire
     DEF TurnComplete, GovernedStep
<1>8. CASE FlightStep
  BY <1>1, <1>2, <1>8, LifeFlightStep
<1> QED BY <1>3, <1>4, <1>5, <1>6, <1>7, <1>8 DEF Next

\* An empty manager owes nothing.
LEMMA LifeInit == Init => LifeInv
<1> SUFFICES ASSUME Init PROVE LifeInv
  OBVIOUS
<1>1. HandlesFit
  BY NoHandleFit DEF Init, HandlesFit
<1>2. TurnsFit
  BY DEF Init, TurnsFit, TurnFit, TokenFit, NoTurn, GovernedStages
<1> QED BY <1>1, <1>2 DEF LifeInv

\* In every reachable state the claims are exact and handles and turns agree.
LEMMA WarmInvariance == Spec => [](ClaimInv /\ LifeInv)
<1>1. Init => ClaimInv /\ LifeInv
  BY ClaimInit, LifeInit
<1>2. ClaimInv /\ LifeInv /\ [Next]_vars => (ClaimInv /\ LifeInv)'
  BY ClaimStep, LifeStep
<1> QED BY <1>1, <1>2, PTL DEF Spec

\* A cancel, release or clear accepted while a claim owns the handle is pending only as long as
\* that claim: no settlement of checkout, reset, compact, cancel or a governed turn hands a handle
\* back with the expiry it deferred still on it.
THEOREM DeferralsKept == Spec => []DeferredNotLost
<1>1. ClaimInv /\ LifeInv => DeferredNotLost
  BY DEF LifeInv, HandlesFit, HandleFit, DeferralOwned, DeferredNotLost, is_claimed
<1> QED BY <1>1, WarmInvariance, PTL

\* No checkout, reconcile or governed turn runs on a session whose earlier operation had armed
\* its expiry intent first: reserve_successor under the lock decides the race for good.
THEOREM SuccessorsSafe == Spec => []SuccessorSafe
<1>1. ClaimInv /\ LifeInv => SuccessorSafe
  BY DEF LifeInv, HandlesFit, HandleFit, OthersReserved, Succeeds, SuccessorSafe, ArmedOps
<1> QED BY <1>1, WarmInvariance, PTL

\* A governed claim owns its very handle from the claim to its settlement, through admission and
\* both lock holds of apply_session.
THEOREM GovernedClaimsExact == Spec => []GovernedExact
<1>1. ClaimInv /\ LifeInv => GovernedExact
  BY DEF LifeInv, TurnsFit, TurnFit, ClaimFit, GovernedExact, owns
<1> QED BY <1>1, WarmInvariance, PTL

\* Without compactions, a turn that may still prompt and was not told to stop has its token on the
\* live handle of its own session, where the release of that session finds and fires it.
THEOREM TokensReachable ==
    ASSUME "compact" \notin Operations
    PROVE  Spec => []TokenReachable
<1>1. ClaimInv /\ LifeInv => TokenReachable
  BY DEF LifeInv, TurnsFit, TurnFit, TokenFit, TokenReachable
<1> QED BY <1>1, WarmInvariance, PTL

\* No backend call configures a session while another releases it, and no usable handle's session
\* is being released, although the ids of generation 0 are reused.
THEOREM BackendSerialized == Spec => []BackendSerial
<1>1. ASSUME ClaimInv, LifeInv PROVE BackendSerial
  <2>1. TypeOK /\ GovRunning /\ ClaimExact /\ TableExclusive /\ TombstoneOwned
    BY <1>1 DEF ClaimInv, TableInv
  <2>2. \A p \in Caller : Claiming(p) => handle[call[p].ctx].state \in ClaimStates(call[p])
    BY <2>1 DEF ClaimExact
  <2>3. \A p \in ReleasingCalls : /\ Claiming(p) /\ call[p].pc # "configure"
                                  /\ call[p].ctx \in Ctx
                                  /\ handle[call[p].ctx].state \in {"Resetting", "Compacting", "Expiring"}
    BY <2>1, <2>2 DEF ReleasingCalls, Claiming, ClaimStates, TypeOK, CallRecord
  <2>4. \A f \in flights : f.ctx \in Ctx /\ handle[f.ctx].state = "Absent"
    BY <2>1 DEF TombstoneOwned, TableExclusive, live, TypeOK, FlightRecord
  <2>5. \A c, n : <<c, n>> \in ReleasingSessions =>
                     handle[c].state \in {"Resetting", "Compacting", "Expiring", "Absent"}
    BY <2>3, <2>4 DEF ReleasingSessions
  <2>6. \A o \in Op : turn[o].stage = "applying" => handle[turn[o].ctx].state = "Running"
    BY <1>1, <2>1 DEF LifeInv, TurnsFit, TurnFit, ClaimFit, GovernedStages, GovRunning, TypeOK, TurnRecord
  <2>7. ASSUME NEW p \in Caller, call[p].pc = "configure"
        PROVE  <<call[p].ctx, call[p].gen>> \notin ReleasingSessions
    <3>1. Claiming(p) /\ handle[call[p].ctx].state # "Absent"
      BY <2>2, <2>7, ClaimStatesClaimed DEF Claiming, ClaimedStates
    <3>2. \A q \in ReleasingCalls : call[q].ctx # call[p].ctx
      BY <2>1, <2>3, <2>7, <3>1 DEF ClaimExact, ReleasingCalls
    <3>3. \A f \in flights : f.ctx # call[p].ctx
      BY <2>4, <3>1
    <3> QED BY <3>2, <3>3 DEF ReleasingSessions
  <2>8. ConfiguringSessions \cap ReleasingSessions = {}
    BY <2>5, <2>6, <2>7 DEF ConfiguringSessions
  <2> QED BY <2>5, <2>8 DEF BackendSerial
<1>2. ClaimInv /\ LifeInv => BackendSerial
  BY <1>1
<1> QED BY <1>2, WarmInvariance, PTL

=============================================================================
