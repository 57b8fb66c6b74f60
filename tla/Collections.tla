---------------------------- MODULE Collections ----------------------------
(***************************************************************************)
(* Array.prototype.filter, as the program's queues use it.                 *)
(***************************************************************************)
EXTENDS Naturals, Sequences

(* queue without the elements of gone, in their order. *)
Without(queue, gone) ==
  LET rest[i \in 0..Len(queue)] ==
        IF i = 0 THEN <<>>
        ELSE IF queue[i] \in gone THEN rest[i - 1] ELSE Append(rest[i - 1], queue[i])
  IN rest[Len(queue)]
=============================================================================
