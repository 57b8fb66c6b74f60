----------------------------- MODULE MCServices -----------------------------
(* Five clients of the coordinator and the pool; three attempts, two of     *)
(* them under one key; two prefixes, the second extending the first; two    *)
(* takers and a preloader of a companion.                                  *)
EXTENDS Services

Keyed == <<1, 1, 2>>
Few == <<2, 1, 0>>
Extends == <<{2}, {}>>
=============================================================================
