--------------------------- MODULE EngineSession ---------------------------
(***************************************************************************)
(* The inference engine's sessions: packages/inference/src/execution/      *)
(* engine.ts and session.ts.  A session runs one method for one consumer.  *)
(* The method (its program counter is pc) publishes tokens, the consumer   *)
(* takes them from a queue bounded in events and in tokens, one of them    *)
(* waits for the other, and an idle timer ends what the consumer left.     *)
(*                                                                         *)
(* JavaScript runs one callback at a time: an action is what runs between  *)
(* two awaits.  A resumption that has been requested and not run yet is a  *)
(* state of its own ("woken", "unblocked", "pushing"), because other code, *)
(* a cancellation among it, runs in between.                               *)
(***************************************************************************)
EXTENDS Naturals, Sequences, FiniteSets, SequencesExt

CONSTANTS
  Sessions,     \* the sessions the engine may be asked to open
  Modes,        \* how each may be opened: of "stream", "collect", "callback"
  Limit,        \* the planned output limit, by session
  MaxEvents,    \* maxQueuedEvents
  MaxTokens,    \* maxQueuedTokens
  Capacity,     \* maxCollectTokens
  Pieces,       \* the numbers of tokens a method publishes at once; 0 is progress
  NoCause

ASSUME SessionAssumption ==
  /\ IsFiniteSet(Sessions)
  /\ Modes \in [Sessions -> SUBSET {"stream", "collect", "callback"}]
  /\ Limit \in [Sessions -> Nat]
  /\ MaxEvents \in Nat \ {0} /\ MaxTokens \in Nat \ {0} /\ Capacity \in Nat \ {0}
  /\ Pieces \subseteq Nat
  /\ NoCause \notin {"requested", "engine_closed", "consumer_idle"}

VARIABLES
  ses,          \* the state of each session, a record
  reserved,     \* the engine's reserved output, in tokens
  closed        \* the engine is closed

vars == <<ses, reserved, closed>>

Unopened ==
  [state |-> "unopened", mode |-> "none", cause |-> NoCause, pc |-> "none", todo |-> 0,
   queue |-> <<>>, queuedTokens |-> 0, committed |-> 0,
   reader |-> "away", timer |-> FALSE, got |-> <<>>,
   run |-> FALSE, failed |-> FALSE, holds |-> FALSE,
   outcome |-> "none", late |-> FALSE]

Init == ses = [s \in Sessions |-> Unopened] /\ reserved = 0 /\ closed = FALSE

Become(s, r) == ses' = [ses EXCEPT ![s] = r]

----------------------------------------------------------------------------
(* Steps on the record of one session.                                     *)

WakeReader(r) == [r EXCEPT !.reader = IF @ = "waiting" THEN "woken" ELSE @]
WakeProducer(r) == [r EXCEPT !.pc = IF @ = "blocked" THEN "unblocked" ELSE @]

\* Bug: the reader is not told.
FinishUnheard(r, outcome) ==
  [r EXCEPT !.state = "terminal", !.timer = FALSE, !.outcome = outcome]

\* #finish: the outcome is settled, the timer stopped and the reader woken.
Finish(r, outcome) ==
  WakeReader([r EXCEPT !.state = "terminal", !.timer = FALSE, !.outcome = outcome])

\* #start: the method's planning is asked for.
Start(r) ==
  IF r.state = "created" THEN [r EXCEPT !.state = "preparing", !.pc = "preparing"] ELSE r

\* Bugs: the count of the queued tokens stays; the producer sleeps on.
CancelledCounted(r, cause) ==
  LET c == WakeProducer(WakeReader(
             [r EXCEPT !.cause = IF @ = NoCause THEN cause ELSE @, !.queue = <<>>, !.timer = FALSE]))
  IN IF r.state = "created" THEN Finish(c, "cancelled") ELSE c
CancelledAsleep(r, cause) ==
  LET c == WakeReader([r EXCEPT !.cause = IF @ = NoCause THEN cause ELSE @,
                                !.queue = <<>>, !.queuedTokens = 0, !.timer = FALSE])
  IN IF r.state = "created" THEN Finish(c, "cancelled") ELSE c

\* cancel: the first reason stays, what is queued is dropped, both sides wake.
Cancelled(r, cause) ==
  LET c == WakeProducer(WakeReader(
             [r EXCEPT !.cause = IF @ = NoCause THEN cause ELSE @,
                       !.queue = <<>>, !.queuedTokens = 0, !.timer = FALSE]))
  IN IF r.state = "created" THEN Finish(c, "cancelled") ELSE c

\* The method has thrown: its execution ends with a failure.
Throw(r) == [r EXCEPT !.pc = "leaving", !.failed = TRUE, !.todo = 0]

Piece(r) == IF r.todo <= MaxTokens THEN r.todo ELSE MaxTokens

HasRoom(r) == Len(r.queue) < MaxEvents /\ r.queuedTokens + Piece(r) <= MaxTokens

\* Bugs: the cancellation is not looked at again; no timer is armed.
SpaceUnchecked(r) ==
  IF HasRoom(r) THEN [r EXCEPT !.pc = "pushing"]
  ELSE [r EXCEPT !.pc = "blocked", !.timer = TRUE]
SpaceUntimed(r) ==
  CASE r.cause # NoCause -> Throw(r)
    [] r.cause = NoCause /\ ~HasRoom(r) -> [r EXCEPT !.pc = "blocked"]
    [] OTHER -> [r EXCEPT !.pc = "pushing"]

\* The loop of #space: without room the idle timer is armed and the producer
\* waits; with room the push is one resumption away.
Space(r) ==
  CASE r.cause # NoCause -> Throw(r)
    [] r.cause = NoCause /\ ~HasRoom(r) -> [r EXCEPT !.pc = "blocked", !.timer = TRUE]
    [] OTHER -> [r EXCEPT !.pc = "pushing"]

\* The end of next(): the oldest event is taken, or the stream has ended.
Take(r) ==
  IF r.queue = <<>> THEN [r EXCEPT !.reader = "done"]
  ELSE LET event == Head(r.queue)
       IN WakeProducer([r EXCEPT !.queue = Tail(@), !.queuedTokens = @ - Len(event),
                                 !.got = @ \o event, !.reader = "away",
                                 !.timer = r.state # "terminal"])

\* The loop of next(): wait while nothing is queued and more may come.
Await(r) ==
  IF r.queue = <<>> /\ r.state # "terminal" THEN [r EXCEPT !.reader = "waiting"] ELSE Take(r)

----------------------------------------------------------------------------
(* The engine.                                                             *)

\* open, with a cancellation that has already been given or not: a stream
\* waits for its first reader under the idle timer, the others start at once.
Open(s, mode) ==
  /\ ses[s].state = "unopened" /\ ~closed
  /\ LET created == [Unopened EXCEPT !.state = "created", !.mode = mode] IN
     \/ mode = "stream" /\ Become(s, [created EXCEPT !.timer = TRUE])
     \/ mode # "stream" /\ Become(s, Start(created))
     \/ Become(s, Cancelled(created, "requested"))
  /\ UNCHANGED <<reserved, closed>>

Live(s) == ses[s].state \notin {"unopened", "terminal"}

\* close: every session the engine still has is cancelled.
Close ==
  /\ ~closed /\ closed' = TRUE
  /\ ses' = [s \in Sessions |-> IF Live(s) THEN Cancelled(ses[s], "engine_closed") ELSE ses[s]]
  /\ UNCHANGED reserved

----------------------------------------------------------------------------
(* The consumer: its calls, the resumption of its next(), and the timer.   *)

Cancel(s) ==
  /\ Live(s)
  /\ Become(s, Cancelled(ses[s], "requested"))
  /\ UNCHANGED <<reserved, closed>>

ReaderNext(s) ==
  /\ ses[s].mode = "stream" /\ ses[s].reader = "away"
  /\ Become(s, Await(Start([ses[s] EXCEPT !.timer = FALSE])))
  /\ UNCHANGED <<reserved, closed>>

ReaderResumes(s) ==
  /\ ses[s].reader = "woken"
  /\ Become(s, Await(ses[s]))
  /\ UNCHANGED <<reserved, closed>>

\* The host fires a timer when no resumption is left to run.
TimerFires(s) ==
  /\ ses[s].timer
  /\ ses[s].reader # "woken" /\ ses[s].pc \notin {"unblocked", "pushing"}
  /\ Become(s, Cancelled(ses[s], "consumer_idle"))
  /\ UNCHANGED <<reserved, closed>>

----------------------------------------------------------------------------
(* The method: #execute, #publish and #progress.                           *)

Settling(r) == [r EXCEPT !.pc = "closing", !.state = "settling"]

\* Bug: what others hold is not counted.
LeftByNone == Capacity

\* reserveOutput, which throws when more is asked for.
Left == Capacity - reserved

\* The plan is there, or planning failed; a collecting session reserves its
\* whole output, and fails when that is more than what is left.
Planned(s) ==
  LET r == ses[s]
      collects == r.mode = "collect"
      refused == r.cause # NoCause \/ (collects /\ Limit[s] > Left)
  IN /\ r.pc = "preparing"
     /\ \/ /\ ~refused
           /\ Become(s, [r EXCEPT !.pc = "creating", !.holds = collects])
           /\ reserved' = reserved + (IF collects THEN Limit[s] ELSE 0)
        \/ Become(s, Settling([r EXCEPT !.failed = TRUE])) /\ UNCHANGED reserved
     /\ UNCHANGED closed

\* The run is there, or its creation failed; a run that comes after a
\* cancellation is not executed, and is closed.
Created(s) ==
  LET r == ses[s] IN
  /\ r.pc = "creating"
  /\ \/ Become(s, IF r.cause = NoCause THEN [r EXCEPT !.pc = "computing", !.state = "running", !.run = TRUE]
                  ELSE Settling([r EXCEPT !.failed = TRUE, !.run = TRUE]))
     \/ Become(s, Settling([r EXCEPT !.failed = TRUE]))
  /\ UNCHANGED <<reserved, closed>>

\* A publication of n tokens begins, or one of progress.
Publish(s, n) ==
  LET r == ses[s] IN
  /\ r.pc = "computing" /\ r.committed + n <= Limit[s]
  /\ Become(s, CASE r.cause # NoCause -> Throw(r)
                 [] r.cause = NoCause /\ r.mode = "stream" -> Space([r EXCEPT !.todo = n])
                 [] r.cause = NoCause /\ r.mode = "collect" -> [r EXCEPT !.committed = @ + n]
                 [] r.cause = NoCause /\ r.mode = "callback" -> [r EXCEPT !.committed = @ + n, !.pc = "delivering"])
  /\ UNCHANGED <<reserved, closed>>

\* The callback has settled: it asks for more, asks for a stop or throws.
Delivered(s) ==
  /\ ses[s].pc = "delivering"
  /\ \/ \E pc \in {"computing", "stopping"} : Become(s, [ses[s] EXCEPT !.pc = pc])
     \/ Become(s, Throw(ses[s]))
  /\ UNCHANGED <<reserved, closed>>

Unblocked(s) ==
  /\ ses[s].pc = "unblocked"
  /\ Become(s, Space(ses[s]))
  /\ UNCHANGED <<reserved, closed>>

\* The resumption after #space: the event is queued, cancelled or not, and
\* the rest of the publication needs room of its own.
Push(s) ==
  LET r == ses[s]
      n == Piece(r)
      event == [i \in 1 .. n |-> r.committed + i]
      pushed == WakeReader([r EXCEPT !.queue = Append(@, event), !.queuedTokens = @ + n,
                                     !.committed = @ + n, !.todo = @ - n,
                                     !.late = @ \/ (r.cause # NoCause /\ n > 0)])
  IN /\ r.pc = "pushing"
     /\ Become(s, IF pushed.todo = 0 THEN [pushed EXCEPT !.pc = "computing"] ELSE Space(pushed))
     /\ UNCHANGED <<reserved, closed>>

\* execute settles: with a result, or with what was thrown.
Executed(s) ==
  LET r == ses[s] IN
  /\ \/ r.pc \in {"computing", "stopping"} /\ \E failed \in BOOLEAN :
          Become(s, Settling([r EXCEPT !.failed = failed]))
     \/ r.pc = "leaving" /\ Become(s, Settling(r))
  /\ UNCHANGED <<reserved, closed>>

\* The run is closed, well or not; then the reservation is released and the
\* outcome settled.
RunClosed(s) ==
  LET r == ses[s] IN
  /\ r.pc = "closing"
  /\ \E broken \in (IF r.run THEN BOOLEAN ELSE {FALSE}) :
       Become(s, Finish([r EXCEPT !.pc = "ended", !.run = FALSE, !.holds = FALSE],
                   CASE broken -> "failed"
                     [] ~broken /\ r.cause # NoCause -> "cancelled"
                     [] ~broken /\ r.cause = NoCause /\ r.failed -> "failed"
                     [] OTHER -> "completed"))
  /\ reserved' = IF r.holds THEN reserved - Limit[s] ELSE reserved
  /\ UNCHANGED closed

----------------------------------------------------------------------------
Machine(s) ==
  \/ ReaderResumes(s) \/ TimerFires(s)
  \/ Planned(s) \/ Created(s) \/ Delivered(s) \/ Unblocked(s) \/ Push(s)
  \/ Executed(s) \/ RunClosed(s)

Next ==
  \/ Close
  \/ \E s \in Sessions :
       \/ \E mode \in Modes[s] : Open(s, mode)
       \/ Cancel(s) \/ ReaderNext(s)
       \/ \E n \in Pieces : Publish(s, n)
       \/ Machine(s)

Spec == Init /\ [][Next]_vars

\* What has been asked of the machine happens: a resumption, a timer, the end
\* of a plan and of a close; and a method that computes does not publish
\* progress for ever.  No consumer need ever read, and nobody cancel.
Fairness ==
  \A s \in Sessions :
    /\ WF_vars(ReaderResumes(s)) /\ WF_vars(TimerFires(s))
    /\ WF_vars(Planned(s) \/ Created(s) \/ Delivered(s) \/ Unblocked(s) \/ Push(s)
               \/ RunClosed(s))
    /\ SF_vars(Executed(s))

FairSpec == Spec /\ Fairness

----------------------------------------------------------------------------
(* Properties.                                                             *)

Flat(queue) == FlattenSeq(queue)

Stream(s) == INSTANCE TokenStream WITH
  committed <- IF ses[s].mode = "stream" THEN ses[s].committed ELSE 0,
  pending <- Flat(ses[s].queue), received <- ses[s].got,
  phase <- CASE ses[s].late -> "late"
             [] ~ses[s].late /\ ses[s].cause # NoCause -> "cut"
             [] OTHER -> "whole"

\* Every stream delivers what is committed, in order and without a gap, until
\* it is cancelled (the events queue of session.ts and its one consumer).
ImplementsStream ==
  /\ \A s \in Sessions : Stream(s)!Init
  /\ [][\A s \in Sessions : [Stream(s)!Next]_(Stream(s)!vars)]_vars

\* A consumer told that the stream is over has received every token of a
\* session that completed, and nobody waits for an event that cannot come.
EndIsTheEnd ==
  \A s \in Sessions : LET r == ses[s] IN
    /\ r.reader = "done" => r.state = "terminal"
    /\ r.reader = "done" /\ r.outcome = "completed" => r.got = [i \in 1 .. r.committed |-> i]
    /\ r.reader = "waiting" => r.queue = <<>> /\ r.state # "terminal"

\* The queue keeps both its bounds, whatever a cancellation did between a
\* check and the push that follows it, and the count of its tokens is exact.
QueueBounded ==
  \A s \in Sessions : LET r == ses[s] IN
    /\ Len(r.queue) <= MaxEvents
    /\ r.queuedTokens = Len(Flat(r.queue)) /\ r.queuedTokens <= MaxTokens

\* The idle timer runs whenever the session waits for its consumer, and never
\* while the consumer waits for the session (#armIdle and its callers).
IdleTimerRight ==
  \A s \in Sessions : LET r == ses[s] IN
    /\ r.pc = "blocked" => r.timer
    /\ r.state = "created" => r.timer
    /\ r.reader = "waiting" => ~r.timer
    /\ r.state = "terminal" => ~r.timer

\* Terminal means that what the session held is released: its run is closed,
\* its reservation given back, its method gone; and the engine's count of
\* reserved tokens is that of the sessions that hold some, within capacity.
TerminalHoldsNothing ==
  /\ \A s \in Sessions : ses[s].state = "terminal" =>
       ~ses[s].run /\ ~ses[s].holds /\ ses[s].pc \in {"none", "ended"}
  /\ reserved = SumFunctionOnSet(Limit, {s \in Sessions : ses[s].holds})
  /\ reserved <= Capacity

\* Every session that is opened settles, though its consumer stop reading or
\* never begin: its idle timer sees to it (GenerationSession.result).
SessionsEnd == \A s \in Sessions : Live(s) ~> ses[s].state = "terminal"
=============================================================================
