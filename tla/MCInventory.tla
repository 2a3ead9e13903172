---------------------------- MODULE MCInventory -----------------------------
(* Model values for the TLC runs of InventoryNode. *)
EXTENDS InventoryNode, TLC

OwnProcess == [s \in Slots |-> s]

(* Some total order of the keys *)
Order(S) == CHOOSE f \in [S -> 1..Cardinality(S)] : \A x, y \in S : f[x] = f[y] => x = y

RawOrder == Order(Uploads)
MediaOrder == Order(Keys)
=============================================================================
