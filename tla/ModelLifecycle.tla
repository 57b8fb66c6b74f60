--------------------------- MODULE ModelLifecycle ---------------------------
(***************************************************************************)
(* What a model host promises its callers (ModelHost in app-core): a model *)
(* is absent, loading, ready or draining, in that order; a caller holds a  *)
(* model from before it is loaded until it gives it back; and a model      *)
(* drains only when nobody holds it, unless the host may override.         *)
(***************************************************************************)
CONSTANTS Models, Callers, NoModel, MayOverride

VARIABLES state, holds

vars == <<state, holds>>

States == {"absent", "loading", "ready", "draining"}

TypeOK ==
  /\ state \in [Models -> States]
  /\ holds \in [Callers -> Models \cup {NoModel}]

Init ==
  /\ state \in [Models -> {"absent", "ready"}]
  /\ holds = [c \in Callers |-> NoModel]

(* acquire: the first caller of an absent model starts its load, later ones join. *)
Hold(c, m) ==
  /\ holds[c] = NoModel
  /\ state[m] \in {"absent", "loading", "ready"}
  /\ holds' = [holds EXCEPT ![c] = m]
  /\ state' = IF state[m] = "absent" THEN [state EXCEPT ![m] = "loading"] ELSE state

GiveBack(c) ==
  /\ holds[c] # NoModel
  /\ holds' = [holds EXCEPT ![c] = NoModel]
  /\ UNCHANGED state

Settle(m) ==
  /\ state[m] = "loading"
  /\ \E s \in {"ready", "absent"} : state' = [state EXCEPT ![m] = s]
  /\ UNCHANGED holds

Drain(S) ==
  /\ \A m \in S : state[m] = "ready" /\ (MayOverride \/ \A c \in Callers : holds[c] # m)
  /\ state' = [m \in Models |-> IF m \in S THEN "draining" ELSE state[m]]
  /\ UNCHANGED holds

Drained(m) ==
  /\ state[m] = "draining"
  /\ state' = [state EXCEPT ![m] = "absent"]
  /\ UNCHANGED holds

Next ==
  \/ \E c \in Callers : GiveBack(c) \/ \E m \in Models : Hold(c, m)
  \/ \E m \in Models : Settle(m) \/ Drained(m)
  \/ \E S \in SUBSET Models : Drain(S)

Spec == Init /\ [][Next]_vars
=============================================================================
