---------------------------- MODULE MCResidency ----------------------------
(* Small instances of Residency: two or three models of different sizes. *)
EXTENDS Residency, TLC

(* Any two of the models fit the budget of 3, except the two larger ones. *)
SmallSizes == [m \in Models |-> IF m = 1 THEN 1 ELSE 2]
(* Two that fit the budget of 3 together, and one larger than all of it. *)
ThreeSizes == [m \in Models |-> <<1, 2, 4>>[m]]

(* Requests of the same standing differ only in their target, which Init varies. *)
EqualRequests == Permutations(Requests)
=============================================================================
