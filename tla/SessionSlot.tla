----------------------------- MODULE SessionSlot -----------------------------
(***************************************************************************)
(* What the warm-session manager promises the callers of one context,      *)
(* whatever they do concurrently: a slot with one exclusive owner at a     *)
(* time.  A slot that is closing can only become vacant or report a failed *)
(* cleanup, which can only be retried; nobody uses it meanwhile, so the    *)
(* session id <<context, generation>> is never in use while it is torn     *)
(* down.  Within one session's life the generation only grows, one step at *)
(* a time, and only under an owner.                                        *)
(***************************************************************************)
EXTENDS Naturals

CONSTANT Ctx
VARIABLES slot, gen

slotVars == <<slot, gen>>
Slots == {"vacant", "idle", "owned", "closing", "failed"}

Move(c, from, to) == slot[c] \in from /\ slot' = [slot EXCEPT ![c] = to]
SameGen == gen' = gen
Forget(c) == gen' = [gen EXCEPT ![c] = 0]

\* A fresh session starts at generation 0, owned by the call that opens it.
Open(c)    == Move(c, {"vacant"}, "owned") /\ gen[c] = 0 /\ SameGen
Acquire(c) == Move(c, {"idle"}, "owned") /\ SameGen
Yield(c)   == Move(c, {"owned"}, "idle") /\ SameGen
Renew(c)   == Move(c, {"owned"}, "idle") /\ gen' = [gen EXCEPT ![c] = @ + 1]
\* Only the owner of a slot, or somebody who finds it idle, starts its teardown, except a
\* release of a running turn, which takes the slot from its owner.
Expire(c)  == Move(c, {"idle", "owned"}, "closing") /\ SameGen
\* An owner whose session was never opened, or that has released it, gives the slot up.
Abandon(c) == Move(c, {"owned"}, "vacant") /\ Forget(c)
Closed(c)  == Move(c, {"closing"}, "vacant") /\ Forget(c)
Fail(c)    == Move(c, {"closing"}, "failed") /\ SameGen
Retry(c)   == Move(c, {"failed"}, "closing") /\ SameGen

Init == slot = [c \in Ctx |-> "vacant"] /\ gen = [c \in Ctx |-> 0]

Next == \E c \in Ctx :
    \/ Open(c) \/ Acquire(c) \/ Yield(c) \/ Renew(c) \/ Expire(c)
    \/ Abandon(c) \/ Closed(c) \/ Fail(c) \/ Retry(c)

Spec == Init /\ [][Next]_slotVars
=============================================================================
