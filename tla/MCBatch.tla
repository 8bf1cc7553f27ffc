------------------------------ MODULE MCBatch ------------------------------
(* The small instances of Batch that TLC checks. *)
EXTENDS Batch, TLC

CONSTANTS s1, i1, i2, b1

\* One batch of two items.
TwoItems == b1 :> {i1, i2}

\* Behaviours that run a batch or tasks of their own, not both.
Apart == (\A t \in Solo : row[t].status = "none") \/ (\A b \in Batch : batch[b] = "none")

Symmetry == Permutations({i1, i2})
=============================================================================
