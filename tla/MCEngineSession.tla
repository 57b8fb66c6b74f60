-------------------------- MODULE MCEngineSession --------------------------
(* Two sessions of the engine for TLC: the first is opened in any mode, the *)
(* second collects, and each may want more than the other leaves of the     *)
(* capacity.                                                                *)
EXTENDS EngineSession

FirstInAnyMode ==
  [s \in Sessions |-> IF s = 1 THEN {"stream", "collect", "callback"} ELSE {"collect"}]
Limits == [s \in Sessions |-> IF s = 1 THEN 4 ELSE 2]
=============================================================================
