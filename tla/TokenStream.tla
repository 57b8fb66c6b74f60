---------------------------- MODULE TokenStream ----------------------------
(***************************************************************************)
(* What a generation session promises the one consumer of its stream: the  *)
(* tokens its method commits, each once and in the order of their commits, *)
(* none missing until the session is cancelled.  A cancellation drops what *)
(* is pending; of the publication then under way one more piece may be     *)
(* committed, and nothing after it.                                        *)
(***************************************************************************)
EXTENDS Naturals, Sequences

VARIABLES
  committed,   \* the number of tokens committed
  pending,     \* those not delivered yet: token k is the k-th committed
  received,    \* what the consumer got
  phase        \* "whole", "cut" by a cancellation, or "late": cut, and closed

vars == <<committed, pending, received, phase>>

Numbered(first, last) == [i \in 1 .. (last + 1 - first) |-> first + i - 1]

Init == committed = 0 /\ pending = <<>> /\ received = <<>> /\ phase = "whole"

\* Tokens are committed; after a cancellation once more at the most.
Commit ==
  /\ phase # "late"
  /\ committed' \in Nat /\ committed' > committed
  /\ pending' = pending \o Numbered(committed + 1, committed')
  /\ phase' = IF phase = "cut" THEN "late" ELSE phase
  /\ UNCHANGED received

\* The consumer takes the oldest pending tokens.
Deliver ==
  \E k \in 1 .. Len(pending) :
    /\ received' = received \o SubSeq(pending, 1, k)
    /\ pending' = SubSeq(pending, k + 1, Len(pending))
    /\ UNCHANGED <<committed, phase>>

Cut ==
  /\ pending' = <<>>
  /\ phase' = IF phase = "whole" THEN "cut" ELSE phase
  /\ UNCHANGED <<committed, received>>

Next == Commit \/ Deliver \/ Cut
Spec == Init /\ [][Next]_vars
=============================================================================
