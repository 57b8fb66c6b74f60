------------------------------ MODULE Services ------------------------------
(***************************************************************************)
(* Five components that keep no state in common: the execution             *)
(* coordinator, the admission pool, the generation checkpoints and the     *)
(* saved prefixes of packages/inference, and a companion model's host.     *)
(* `part` is the one that moves.                                           *)
(***************************************************************************)
EXTENDS ExecutionCoordinator, Checkpoints, Durability, CompanionHost

CONSTANTS
  Watched,        \* the client whose waits are followed: they are all alike
  Capacity        \* AdmissionPool

VARIABLES
  part,
  pool, waiting, active, poolClosed

poolVars == <<pool, waiting, active, poolClosed>>

Pool == INSTANCE AdmissionPool WITH state <- pool, closed <- poolClosed

ServicesInit ==
  /\ part \in {"coordinator", "pool", "checkpoints", "prefixes", "companion"}
  /\ Init /\ Pool!Init /\ CheckpointsInit /\ DurabilityInit /\ HostInit
  /\ (part # "companion" => kind = "image" /\ ~pinned)   \* one of the states of a host at rest

ServicesNext ==
  /\ UNCHANGED part
  /\ \/ part = "coordinator" /\ Next /\ UNCHANGED <<poolVars, checkpointVars, dvars, cvars>>
     \/ part = "pool" /\ Pool!Next /\ UNCHANGED <<vars, checkpointVars, dvars, cvars>>
     \/ part = "checkpoints" /\ CheckpointsNext /\ UNCHANGED <<vars, poolVars, dvars, cvars>>
     \/ part = "prefixes" /\ DurabilityNext /\ UNCHANGED <<vars, poolVars, checkpointVars, cvars>>
     \/ part = "companion" /\ CompanionNext
        /\ UNCHANGED <<vars, poolVars, checkpointVars, dvars>>

ServicesSpec ==
  /\ ServicesInit /\ [][ServicesNext]_<<part, vars, poolVars, checkpointVars, dvars, cvars>>
  /\ \A c \in Clients : WF_vars(Dispose(c))
  /\ Pool!Fairness /\ CheckpointsFairness /\ DurabilityFairness /\ HostFairness

-----------------------------------------------------------------------------
(* The components' own properties are stated in their modules.             *)

\* Whoever asks one of the five is answered, whatever cancels, fails, is shed or
\* closes in between: the waiters of the coordinator and of the pool are served, in
\* the pool in the order of the calls; a checkpoint's write is answered and its key
\* opens again; a flush of the saved prefixes ends; a companion's caller gets its
\* pipeline or fails, and the host's close ends.
ServicesAnswer ==
  /\ WaiterServed(Watched) /\ Pool!WaiterServed(Watched) /\ Pool!NoOvertaking
  /\ WritesAreAnswered /\ FlushCompletes /\ CallsAnswered
=============================================================================
