----------------------------- MODULE MCJobQueue -----------------------------
(* Model values for the TLC runs of JobQueue. *)
EXTENDS JobQueue, TLC

TwoTenants == [j \in Jobs |-> IF j = 1 THEN "beta" ELSE "alpha"]

(* Slots differ only by name *)
SlotSymmetry == Permutations(Slots)
=============================================================================
