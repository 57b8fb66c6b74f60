--------------------------- MODULE CompanionHost ---------------------------
(***************************************************************************)
(* The hosts of the companion models: image-model-host.ts and              *)
(* whisper-model-host.ts (packages/app-services/src).  A pipeline is       *)
(* opened for the first caller, shared by all, and disposed when it is     *)
(* idle.  Both hosts are written alike; the image host's callers may give  *)
(* up while it opens, and its runs take turns.  One slot: slots share      *)
(* only the host's close, which treats each alike.                         *)
(***************************************************************************)
EXTENDS Naturals, Sequences, FiniteSets, Collections

CONSTANTS
  Takers,       \* callers of acquire, each once
  Preloaders,   \* callers of preload
  Keeping,      \* the takers with a keepAliveSec
  Impatient     \* the takers whose signal may abort

\* A caller calls once, to acquire or to preload, and only acquire takes a signal.
ASSUME HostAssumption ==
  /\ IsFiniteSet(Takers) /\ IsFiniteSet(Preloaders) /\ Takers \cap Preloaders = {}
  /\ Impatient \subseteq Takers

VARIABLES
  kind,         \* which host
  opened,       \* slot.opened (slot.loaded): the pipeline's number, or 0
  loads,        \* the pipelines opened so far
  loading,      \* slot.loading: "no", "going", or "abandoned" (loadingAbort has fired)
  waiters,      \* slot.loadingWaiters
  leases,       \* slot.leases
  idleTimer,    \* slot.timer
  pinned,       \* pinnedIds
  at,           \* where each call is suspended
  has,          \* the pipeline each call got
  gone,         \* the calls whose signal has aborted
  turns,        \* opened.tail: the runs, in the order of their calls
  closing,      \* close: "no", "waiting" for a load, "done"
  alive,        \* the pipelines that are not disposed
  unloaded,     \* those disposed by a forced unload
  excused       \* nobody has had the lease since a preload or an unpin

slotVars == <<opened, loads, loading, waiters, leases, idleTimer>>
callVars == <<at, has, gone, turns>>
cvars == <<kind, slotVars, callVars, pinned, closing, alive, unloaded, excused>>

Callers == Takers \cup Preloaders

HostInit ==
  /\ kind \in {"image", "whisper"}
  /\ opened = 0 /\ loads = 0 /\ loading = "no" /\ waiters = 0 /\ leases = 0
  /\ idleTimer = FALSE /\ pinned \in BOOLEAN
  /\ at = [c \in Callers |-> "new"] /\ has = [c \in Callers |-> 0]
  /\ gone = {} /\ turns = <<>> /\ closing = "no"
  /\ alive = {} /\ unloaded = {} /\ excused = FALSE

Closed == closing # "no"

Go(c, where) == at' = [at EXCEPT ![c] = where]

Resumable == {"joined", "rejected", "gave_up", "given", "turned_away", "again"}

\* Timers, the backend's answers and requests to the host itself are turns of the
\* event loop of their own: whoever can resume has resumed by then.
NextTurn == \A c \in Callers : at[c] \notin Resumable

\* dispose
DisposePipeline == opened' = 0 /\ alive' = alive \ {opened}

\* armIdle, once the counts have changed.
ArmIdle(keep) ==
  LET stays == pinned \/ Closed \/ (kind = "image" /\ waiters' > 0)
  IN /\ idleTimer' = (~stays /\ keep)
     /\ IF ~stays /\ ~keep /\ leases' = 0 THEN DisposePipeline ELSE UNCHANGED <<opened, alive>>

----------------------------------------------------------------------------
(* acquire and preload: ensureOpened, ensureLoaded.                        *)

Enter(c) ==
  \/ /\ Closed /\ Go(c, "turned_away") /\ UNCHANGED <<has, loading, waiters>>
  \/ /\ ~Closed /\ loading = "abandoned"
     /\ Go(c, "draining") /\ UNCHANGED <<has, loading, waiters>>
  \/ /\ ~Closed /\ loading # "abandoned" /\ opened # 0
     /\ Go(c, "given") /\ has' = [has EXCEPT ![c] = opened] /\ UNCHANGED <<loading, waiters>>
  \/ /\ ~Closed /\ loading # "abandoned" /\ opened = 0
     /\ Go(c, "waiting") /\ loading' = "going" /\ waiters' = waiters + 1 /\ UNCHANGED has

\* The lease is reserved before the call is suspended.
Acquire(c) ==
  /\ c \in Takers /\ at[c] = "new" /\ ~Closed
  /\ leases' = leases + 1 /\ idleTimer' = FALSE /\ excused' = FALSE
  /\ Enter(c)
  /\ UNCHANGED <<kind, opened, loads, gone, turns, pinned, closing, alive, unloaded>>

Preload(c) ==
  /\ c \in Preloaders /\ at[c] = "new" /\ ~Closed /\ Enter(c)
  /\ UNCHANGED <<kind, opened, loads, leases, idleTimer, gone, turns, pinned, closing, alive, unloaded, excused>>

\* An abandoned opening has drained: the call begins again.
Retry(c) ==
  /\ at[c] = "again"
  /\ IF c \in gone THEN Go(c, "turned_away") /\ UNCHANGED <<has, loading, waiters>> ELSE Enter(c)
  /\ UNCHANGED <<kind, opened, loads, leases, idleTimer, gone, turns, pinned, closing, alive, unloaded, excused>>

\* The backend has opened a pipeline, or failed; one that nobody waits for any
\* more, or that comes after close, is disposed at once.
LoadEnds ==
  /\ loading # "no" /\ NextTurn /\ loading' = "no"
  /\ LET n == loads + 1 IN
     \E good \in IF loading = "going" /\ ~Closed THEN BOOLEAN ELSE {FALSE} :
       /\ at' = [c \in Callers |->
            CASE at[c] = "waiting" -> IF good THEN "joined" ELSE "rejected"
              [] at[c] = "draining" -> "again"
              [] OTHER -> at[c]]
       /\ has' = [c \in Callers |-> IF good /\ at[c] = "waiting" THEN n ELSE has[c]]
       /\ IF good THEN opened' = n /\ loads' = n /\ alive' = alive \cup {n}
          ELSE UNCHANGED <<opened, loads, alive>>
  /\ UNCHANGED <<kind, waiters, leases, idleTimer, gone, turns, pinned, closing, unloaded, excused>>

Counting == {"waiting", "joined", "rejected", "gave_up"}

\* Bug: whoever gives up takes the opening with it.
AnyWaiter == TRUE

\* The last waiter's failure abandons the opening.
LastWaiter == waiters = 1

\* A call resumes: it has its pipeline, or passes its failure on and gives its
\* lease back.
Resume(c) ==
  LET counted == at[c] \in Counting
      good == at[c] \in {"joined", "given"} /\ c \notin gone
      taker == c \in Takers
  IN
    /\ at[c] \in {"joined", "rejected", "gave_up", "given", "turned_away"}
    /\ Go(c, IF good /\ taker THEN "holding" ELSE "done")
    /\ waiters' = IF counted THEN waiters - 1 ELSE waiters
    /\ loading' = IF counted /\ ~good /\ loading = "going" /\ LastWaiter /\ kind = "image"
                    THEN "abandoned" ELSE loading
    /\ IF taker /\ ~good
         THEN leases' = leases - 1 /\ ArmIdle(c \in Keeping)
         ELSE UNCHANGED <<leases, idleTimer, opened, alive>>
    /\ excused' = (excused \/ (good /\ ~taker))
    /\ UNCHANGED <<kind, loads, has, gone, turns, pinned, closing, unloaded>>

\* The caller's signal aborts: it stops waiting, for the opening or its turn.
\* Before the call and once the lease is held it changes nothing.
Abort(c) ==
  /\ kind = "image" /\ c \in Impatient \ gone /\ gone' = gone \cup {c}
  /\ at[c] \in {"draining", "again", "waiting", "joined", "given", "queued"}
  /\ Go(c, CASE at[c] = "waiting" -> "gave_up"
             [] at[c] = "draining" -> "turned_away"
             [] at[c] = "queued" -> "finished"
             [] OTHER -> at[c])
  /\ turns' = IF at[c] = "queued" THEN Without(turns, {c}) ELSE turns
  /\ UNCHANGED <<kind, slotVars, has, pinned, closing, alive, unloaded, excused>>

----------------------------------------------------------------------------
(* generate: the runs of a pipeline take turns, in the order of the calls. *)

Generate(c) ==
  /\ kind = "image" /\ at[c] = "holding" /\ c \notin gone
  /\ Go(c, "queued") /\ turns' = Append(turns, c)
  /\ UNCHANGED <<kind, slotVars, has, gone, pinned, closing, alive, unloaded, excused>>

\* The runs before it, of the same pipeline, are over.
Run(c) ==
  /\ at[c] = "queued"
  /\ \E i \in 1 .. Len(turns) :
       turns[i] = c /\ \A k \in 1 .. (i - 1) : has[turns[k]] # has[c]
  /\ Go(c, "running")
  /\ UNCHANGED <<kind, slotVars, has, gone, turns, pinned, closing, alive, unloaded, excused>>

RunEnds(c) ==
  /\ at[c] = "running" /\ Go(c, "finished")
  /\ turns' = Without(turns, {c})
  /\ UNCHANGED <<kind, slotVars, has, gone, pinned, closing, alive, unloaded, excused>>

ReleaseLease(c) ==
  /\ at[c] \in {"holding", "finished"} /\ Go(c, "done")
  /\ leases' = leases - 1 /\ UNCHANGED waiters /\ ArmIdle(c \in Keeping)
  /\ UNCHANGED <<kind, loads, loading, has, gone, turns, pinned, closing, unloaded, excused>>

----------------------------------------------------------------------------
(* The host's own steps.                                                   *)

IdleTimerFires ==
  /\ idleTimer /\ NextTurn /\ idleTimer' = FALSE
  /\ IF leases = 0 THEN DisposePipeline ELSE UNCHANGED <<opened, alive>>
  /\ UNCHANGED <<kind, loads, loading, waiters, leases, callVars, pinned, closing, unloaded, excused>>

Unload(force) ==
  /\ opened # 0 /\ NextTurn /\ idleTimer' = FALSE
  /\ IF leases = 0 \/ force THEN DisposePipeline ELSE UNCHANGED <<opened, alive>>
  /\ unloaded' = IF leases > 0 /\ force THEN unloaded \cup {opened} ELSE unloaded
  /\ UNCHANGED <<kind, loads, loading, waiters, leases, callVars, pinned, closing, excused>>

Pin ==
  /\ ~pinned /\ NextTurn /\ pinned' = TRUE /\ idleTimer' = FALSE
  /\ UNCHANGED <<kind, opened, loads, loading, waiters, leases, callVars, closing, alive, unloaded, excused>>

Unpin ==
  /\ pinned /\ NextTurn /\ pinned' = FALSE /\ excused' = TRUE
  /\ UNCHANGED <<kind, slotVars, callVars, closing, alive, unloaded>>

\* close: an image that opens is abandoned; the release waits for what opens.
HostClose ==
  /\ ~Closed /\ NextTurn
  /\ loading' = IF kind = "image" /\ loading = "going" THEN "abandoned" ELSE loading
  /\ IF loading = "no" THEN closing' = "done" /\ DisposePipeline /\ idleTimer' = FALSE
     ELSE closing' = "waiting" /\ UNCHANGED <<opened, alive, idleTimer>>
  /\ UNCHANGED <<kind, loads, waiters, leases, callVars, pinned, unloaded, excused>>

CloseEnds ==
  /\ closing = "waiting" /\ loading = "no" /\ closing' = "done"
  /\ DisposePipeline /\ idleTimer' = FALSE
  /\ UNCHANGED <<kind, loads, loading, waiters, leases, callVars, pinned, unloaded, excused>>

CallStep(c) == Retry(c) \/ Resume(c) \/ Run(c) \/ RunEnds(c)

CompanionNext ==
  \/ \E c \in Callers :
       Acquire(c) \/ Preload(c) \/ CallStep(c) \/ Abort(c) \/ Generate(c) \/ ReleaseLease(c)
  \/ LoadEnds \/ IdleTimerFires \/ (\E force \in BOOLEAN : Unload(force)) \/ Pin \/ Unpin
  \/ HostClose \/ CloseEnds

HostSpec == HostInit /\ [][CompanionNext]_cvars

\* The backend answers, what is resumed runs, and a run ends.
HostFairness == WF_cvars(LoadEnds) /\ WF_cvars(CloseEnds) /\ \A c \in Callers : WF_cvars(CallStep(c))

----------------------------------------------------------------------------
(* Properties.                                                             *)

Calling == {"waiting", "draining"} \cup Resumable

CountsExact ==
  /\ leases = Cardinality({c \in Takers : at[c] \notin {"new", "done"}})
  /\ waiters = Cardinality({c \in Callers : at[c] \in Counting})

\* Nothing leaks, close leaves nothing open, and what a lease was given stays
\* until the lease ends.
PipelinesHeld ==
  /\ alive = {opened} \ {0} /\ (opened # 0 => loading = "no")
  /\ (closing = "done" => alive = {})
  /\ \A c \in Takers : at[c] \in {"joined", "given", "holding", "queued", "running", "finished"} =>
       has[c] = opened \/ has[c] \in unloaded \/ Closed

\* "Cancellation belongs to this caller": an opening that somebody waits for is
\* abandoned by close only.
OpeningWanted ==
  \A c \in Callers :
    /\ at[c] = "waiting" => loading = "going" \/ (loading = "abandoned" /\ Closed)
    /\ at[c] = "draining" => loading = "abandoned"

RunsAlone ==
  \A c, d \in Takers : at[c] = "running" /\ at[d] = "running" /\ has[c] = has[d] => c = d

\* An idle pipeline is not forgotten: unless pinned, preloaded or unpinned since
\* the last lease, it has its timer.
IdleIsArmed ==
  opened # 0 /\ leases = 0 /\ waiters = 0 /\ ~pinned /\ ~excused /\ ~Closed => idleTimer

\* The host shares one pipeline soundly, however its callers come, give up and
\* fail: exact counts, no leak, no opening lost to another's cancellation, no
\* two runs at once, and nothing idle that nobody will release.
HostSound == CountsExact /\ PipelinesHeld /\ OpeningWanted /\ RunsAlone /\ IdleIsArmed

\* Every call gets a pipeline or fails, and close ends. A caller calls once, so
\* that from some time on nobody is calling.
CallsAnswered == <>[](closing # "waiting" /\ \A c \in Callers : at[c] \notin Calling)
=============================================================================
