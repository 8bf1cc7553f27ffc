---------------------------- MODULE MCScheduler ----------------------------
(* The small instances of Scheduler that TLC checks. *)
EXTENDS Scheduler, TLC

\* Two independent nodes, one that follows the first, and one that takes both branches.
Diamond == (1 :> {}) @@ (2 :> {}) @@ (3 :> {1}) @@ (4 :> {2, 3})

\* Every policy and synthesis in some run of each mode; a legacy run reads neither.
Frozen_automatic == {<<"independent", "strict">>, <<"independent", "degraded">>,
                     <<"fail_fast", "strict">>, <<"fixed_grace", "degraded">>}
Frozen_manual == {<<"fail_fast", "degraded">>, <<"fixed_grace", "strict">>}
Controls(m, pairs) == {[mode |-> m, policy |-> p[1], synthesis |-> p[2]] : p \in pairs}
Mixed == Controls("automatic", Frozen_automatic) \cup Controls("manual", Frozen_manual)
           \cup Controls("legacy", {<<"independent", "strict">>})
=============================================================================
