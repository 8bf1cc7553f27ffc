---------------------------- MODULE MCWarmSession ----------------------------
(***************************************************************************)
(* Small instances of WarmSession for TLC.                                 *)
(***************************************************************************)
EXTENDS WarmSession, TLC

CONSTANTS a, m1, m2, w

MCValue == {NoValue, a, m1, m2, w}

Base == [agent |-> a, model |-> m1, effort |-> NoValue, mode |-> NoValue, cwd |-> NoValue]

\* The same selection; another model (reconcilable); another working directory (refused by a
\* live session).
MCOneRequest == {Base}
MCTwoRequests == {Base, [Base EXCEPT !["model"] = m2]}
MCRequests == MCTwoRequests \cup {[Base EXCEPT !["cwd"] = w]}

CallerSymmetry == Permutations(Caller)
=============================================================================
