----------------------------- MODULE MCServices -----------------------------
(* Model values for the TLC run of Services. *)
EXTENDS Services, TLC

Strings(n) == UNION {[1..k -> 0..2] : k \in 0..n}

(* One sample of any bytes, or the second of three *)
SomeTracks ==
    {<<[sync |-> s, bytes |-> b]>> : s \in BOOLEAN, b \in Strings(5)} \cup
    {<<[sync |-> s, bytes |-> <<1, 2>>], [sync |-> t, bytes |-> b],
       [sync |-> FALSE, bytes |-> <<1, 1, 1, 0>>]>> : s \in BOOLEAN, t \in BOOLEAN, b \in Strings(3)}

(* Two calls carry one message *)
TwoAlike == <<1, 1, 2>>

(* Tenants, calls, ids, viewers and callers differ only by name; the batch
   calls, the viewers and the callers have the same names *)
Symmetry == UNION {Permutations(S) : S \in {Tenants, Ids, BatchCalls, Viewers, Callers}}
=============================================================================
