---------------------------- MODULE MCDurability ----------------------------
(* Two prefixes, the second extending the first, each put at most twice.   *)
EXTENDS Durability

Extends == <<{2}, {}>>
=============================================================================
