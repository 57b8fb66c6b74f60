----------------------------- MODULE Durability -----------------------------
(***************************************************************************)
(* Prefixes kept in memory are written to saved state in the background:   *)
(* SsdDurabilityCoordinator (packages/inference/src/state/durability.ts)   *)
(* as tiered-prefix-cache.ts uses it, over a SpillQueue that drops         *)
(* nothing.  A record is dirty until its state is on disk; timers start    *)
(* attempts, one at a time per record; a flush forces what is left.        *)
(***************************************************************************)
EXTENDS Naturals, Sequences, FiniteSets

CONSTANTS
  KeptPrefixes,   \* the token sequences kept
  Longer,     \* Longer[p]: those that extend p and can be trimmed to it
  MaxPuts,    \* bound: how often each is put
  MaxFlushes  \* bound: flushes

VARIABLES
  resident,   \* the entries in memory
  onDisk,     \* the store's index
  puts,
  dirty,      \* #dirty: the version of each record, 0 when there is none
  timer,      \* #timers
  attempt,    \* #attempts: the version each running one stores, 0 for none
  forced,     \* whether the flush started it
  writes,     \* the SpillQueue; its head is being written
  flush,      \* where #flushInner is
  current,    \* the record it forces
  awaited,    \* the attempts it found running
  ahead,      \* the writes it drains the queue of
  tried, missing,
  flushes

recordVars == <<resident, onDisk, puts, dirty, timer, attempt, forced, writes>>
flushVars == <<flush, current, awaited, ahead, tried, missing, flushes>>
dvars == <<recordVars, flushVars>>

None == [p \in KeptPrefixes |-> 0]
Off == [p \in KeptPrefixes |-> FALSE]

DurabilityInit ==
  /\ resident = {} /\ onDisk = {} /\ puts = None
  /\ dirty = None /\ timer = Off /\ attempt = None /\ forced = Off /\ writes = <<>>
  /\ flush = "no" /\ current = 0 /\ awaited = {} /\ ahead = 0 /\ tried = {} /\ missing = {} /\ flushes = 0

\* hasDurablePrefix.
IsDurable(p, disk) == p \in disk \/ Longer[p] \cap disk # {}

----------------------------------------------------------------------------
(* The cache's side.                                                       *)

\* schedule with replace: a new version, and a timer.
Schedule(p) ==
  /\ puts' = [puts EXCEPT ![p] = @ + 1]
  /\ dirty' = [dirty EXCEPT ![p] = puts[p] + 1] /\ timer' = [timer EXCEPT ![p] = TRUE]

\* put: those that the new entry extends leave memory.
Put(p) ==
  /\ puts[p] < MaxPuts
  /\ resident' = {q \in resident : p \notin Longer[q]} \cup {p}
  /\ Schedule(p)
  /\ UNCHANGED <<onDisk, attempt, forced, writes, flushVars>>

\* evictToBudget and reclaim, which follow puts, writes and released pins: what
\* is not on disk is scheduled, unless it is dirty, and stays (canEvict).
Evict(p) ==
  /\ p \in resident
  /\ IF IsDurable(p, onDisk) THEN resident' = resident \ {p} /\ UNCHANGED <<puts, dirty, timer>>
     ELSE dirty[p] = 0 /\ puts[p] < MaxPuts /\ Schedule(p) /\ UNCHANGED resident
  /\ UNCHANGED <<onDisk, attempt, forced, writes, flushVars>>

----------------------------------------------------------------------------
(* An attempt: #attempt after it has found none running, #store.  A state   *)
(* that cannot be copied counts as a write that fails.                     *)

\* What #store can come to at once; "queued" when it hands the write over.
Outcome(p) ==
  CASE dirty[p] = 0 -> "stored"
    [] dirty[p] # 0 /\ IsDurable(p, onDisk) -> "stored"
    [] dirty[p] # 0 /\ ~IsDurable(p, onDisk) /\ p \notin resident -> "missing"
    [] OTHER -> "queued"

Try(p, force, fired) ==
  LET o == Outcome(p) IN
    /\ dirty' = IF o = "stored" THEN [dirty EXCEPT ![p] = 0] ELSE dirty
    /\ timer' = IF o = "missing" /\ ~force THEN [fired EXCEPT ![p] = TRUE] ELSE fired
    /\ IF o = "queued"
         THEN /\ attempt' = [attempt EXCEPT ![p] = dirty[p]] /\ forced' = [forced EXCEPT ![p] = force]
              /\ writes' = Append(writes, p)
         ELSE UNCHANGED <<attempt, forced, writes>>

\* The debounce or the retry is over.  An attempt that runs already is awaited,
\* and its outcome taken for this one's.
TimerFires(p) ==
  /\ timer[p]
  /\ LET fired == [timer EXCEPT ![p] = FALSE] IN
       IF attempt[p] # 0 THEN timer' = fired /\ UNCHANGED <<dirty, attempt, forced, writes>>
       ELSE Try(p, FALSE, fired)
  /\ UNCHANGED <<resident, onDisk, puts, flushVars>>

\* The queue's head is on disk, which may cost older files their place, or not.
\* The attempt ends: its own version is clean, or retried in a while.
AttemptEnds(p, stored) ==
  /\ writes' = Tail(writes)
  /\ dirty' = IF stored /\ dirty[p] = attempt[p] THEN [dirty EXCEPT ![p] = 0] ELSE dirty
  /\ timer' = IF ~stored /\ ~forced[p] /\ dirty[p] = attempt[p] THEN [timer EXCEPT ![p] = TRUE] ELSE timer
  /\ attempt' = [attempt EXCEPT ![p] = 0] /\ forced' = [forced EXCEPT ![p] = FALSE]
  /\ awaited' = awaited \ {p} /\ ahead' = IF ahead > 0 THEN ahead - 1 ELSE 0
  /\ UNCHANGED <<resident, puts, flush, current, tried, missing, flushes>>

Written(p) ==
  /\ writes # <<>> /\ Head(writes) = p
  /\ IF IsDurable(p, onDisk) THEN UNCHANGED onDisk
     ELSE \E lost \in SUBSET onDisk : onDisk' = (onDisk \ lost) \cup {p}
  /\ AttemptEnds(p, TRUE)

StoreFails(p) ==
  /\ writes # <<>> /\ Head(writes) = p /\ UNCHANGED onDisk
  /\ AttemptEnds(p, FALSE)

----------------------------------------------------------------------------
(* #flushInner.                                                            *)

FlushStarts ==
  /\ flush = "no" /\ flushes < MaxFlushes /\ flushes' = flushes + 1
  /\ timer' = Off /\ flush' = "settling"
  /\ awaited' = {p \in KeptPrefixes : attempt[p] # 0}
  /\ UNCHANGED <<resident, onDisk, puts, dirty, attempt, forced, writes, current, ahead, tried, missing>>

\* The attempts found running have settled: drain the queue as it is now.
Settled ==
  /\ flush = "settling" /\ awaited = {}
  /\ flush' = "draining" /\ ahead' = Len(writes)
  /\ UNCHANGED <<recordVars, current, awaited, tried, missing, flushes>>

\* Drained: the first time, the timers that failures armed are cleared again.
Drained ==
  /\ flush = "draining" /\ ahead = 0
  /\ timer' = IF current = 0 THEN Off ELSE timer
  /\ flush' = "forcing"
  /\ UNCHANGED <<resident, onDisk, puts, dirty, attempt, forced, writes, current, awaited, ahead, tried, missing, flushes>>

\* Bug: a record version is attempted as long as it is dirty.
Untried(p) == dirty[p] # 0

Due(p) == dirty[p] # 0 /\ <<p, dirty[p]>> \notin tried

ForceDue(p) ==
  /\ flush = "forcing" /\ Due(p)
  /\ current' = p /\ tried' = tried \cup {<<p, dirty[p]>>}
  /\ flush' = "attempting"
  /\ UNCHANGED <<recordVars, awaited, ahead, missing, flushes>>

\* #attempt, forced: after the one that runs, if any; then the record again.
Attempting ==
  LET p == current IN
    /\ flush = "attempting" /\ attempt[p] = 0
    /\ Try(p, TRUE, timer)
    /\ missing' = IF Outcome(p) = "missing" THEN missing \cup {<<p, dirty[p]>>} ELSE missing
    /\ flush' = IF Outcome(p) = "queued" THEN "awaiting" ELSE "draining"
    /\ ahead' = Len(writes)
    /\ UNCHANGED <<resident, onDisk, puts, current, awaited, tried, flushes>>

Forced ==
  /\ flush = "awaiting" /\ attempt[current] = 0
  /\ flush' = "draining" /\ ahead' = Len(writes)
  /\ UNCHANGED <<recordVars, current, awaited, tried, missing, flushes>>

\* Bug: what was missing is given up because the other writes succeeded.
Covered(p) == TRUE

\* A missing record is clean once a longer prefix of it is on disk.
Reconciled(p) == IsDurable(p, onDisk)

FlushEnds ==
  /\ flush = "forcing" /\ \A p \in KeptPrefixes : ~Due(p)
  /\ dirty' = [p \in KeptPrefixes |-> IF <<p, dirty[p]>> \in missing /\ Reconciled(p) THEN 0 ELSE dirty[p]]
  /\ flush' = "no" /\ tried' = {} /\ missing' = {} /\ current' = 0
  /\ UNCHANGED <<resident, onDisk, puts, timer, attempt, forced, writes, awaited, ahead, flushes>>

----------------------------------------------------------------------------
WriterStep == \E p \in KeptPrefixes : Written(p) \/ StoreFails(p)
FlushStep == Settled \/ Drained \/ (\E p \in KeptPrefixes : ForceDue(p)) \/ Attempting \/ Forced \/ FlushEnds

DurabilityNext ==
  \/ \E p \in KeptPrefixes : Put(p) \/ Evict(p) \/ TimerFires(p)
  \/ WriterStep \/ FlushStarts \/ FlushStep

DurabilitySpec == DurabilityInit /\ [][DurabilityNext]_dvars

\* Timers fire, the writer answers, and the flush goes on in the turn in which
\* what it awaits is settled, before a timer can start another attempt.
DurabilityFairness == (\A p \in KeptPrefixes : WF_dvars(TimerFires(p))) /\ WF_dvars(WriterStep) /\ SF_dvars(FlushStep)
DurabilityFairSpec == DurabilitySpec /\ DurabilityFairness

\* And a disk that failed takes writes again some day.
DiskRecovers == \A p \in KeptPrefixes : SF_dvars(Written(p))
RecoveringSpec == DurabilityFairSpec /\ DiskRecovers

----------------------------------------------------------------------------
(* Properties.                                                             *)

\* "A dirty record stays present until SpillQueue reports that its atomic store
\* completed": whatever version is scheduled meanwhile, evicted or superseded, a
\* record becomes clean only when its prefix is on disk (#attempt, #flushInner).
CleanMeansDurable ==
  [][\A p \in KeptPrefixes : dirty[p] # 0 /\ dirty'[p] = 0 => IsDurable(p, onDisk')]_dvars

\* A flush ends, although writes fail, records are missing and others come:
\* each version is forced once, and nothing it awaits awaits it.
FlushCompletes == flush # "no" ~> flush = "no"

\* "Write each kept prefix to saved state as it is kept" (cache-service.ts): what
\* is recorded as unwritten and stays in memory is on disk some day, if the disk
\* takes writes again, with no flush to force it.
KeptIsWritten ==
  \A p \in KeptPrefixes :
    p \in resident /\ dirty[p] # 0 /\ ~IsDurable(p, onDisk) ~> p \notin resident \/ IsDurable(p, onDisk)
=============================================================================
