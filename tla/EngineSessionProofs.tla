------------------------ MODULE EngineSessionProofs ------------------------
(***************************************************************************)
(* Proofs about EngineSession, for any sessions, modes, limits, capacity   *)
(* and sizes of a publication.                                             *)
(*                                                                         *)
(* Every step but Close changes the record of one session, so the          *)
(* invariant is one of a record: each of the functions a step is made of   *)
(* (Cancelled, Await, Space, Finish, the push, and the moves that leave the *)
(* queue and the consumer alone) keeps a record Sound and Follows the      *)
(* stream TokenStream promises.  What is shared is the reservation alone.  *)
(***************************************************************************)
EXTENDS EngineSession, CollectionFacts

-----------------------------------------------------------------------------
(* The inductive invariant, of one session's record.                       *)

Causes == {NoCause, "requested", "engine_closed", "consumer_idle"}
Executing == {"computing", "pushing", "blocked", "unblocked", "delivering", "stopping", "leaving"}
Points == {"none", "preparing", "creating", "closing", "ended"} \cup Executing

Record ==
  [state : {"unopened", "created", "preparing", "running", "settling", "terminal"},
   mode : {"none", "stream", "collect", "callback"}, cause : Causes, pc : Points, todo : Nat,
   queue : Seq(Seq(Nat)), queuedTokens : Nat, committed : Nat,
   reader : {"away", "waiting", "woken", "done"}, timer : BOOLEAN, got : Seq(Nat),
   run : BOOLEAN, failed : BOOLEAN, holds : BOOLEAN,
   outcome : {"none", "completed", "cancelled", "failed"}, late : BOOLEAN]

Numbers(n) == [i \in 1 .. n |-> i]

\* The state is where the method is, and what is held is held by a method.
Staged(r) ==
  /\ r.state = "unopened" => r = Unopened
  /\ r.mode = "none" => r.state = "unopened"
  /\ r.state = "created" => r.mode = "stream" /\ r.cause = NoCause /\ r.reader = "away"
  /\ r.state \in {"unopened", "created"} => r.pc = "none"
  /\ r.state = "preparing" <=> r.pc \in {"preparing", "creating"}
  /\ r.state = "running" <=> r.pc \in Executing
  /\ r.state = "settling" <=> r.pc = "closing"
  /\ r.pc = "ended" => r.state = "terminal"
  /\ r.run => r.pc \in Executing \cup {"closing"}
  /\ r.holds => r.pc \notin {"none", "preparing", "ended"}
  /\ r.outcome = "completed" => r.state = "terminal" /\ r.cause = NoCause

\* The queue is within its bounds, a push has the room it needs, and nothing
\* is queued but for a stream.
Queued(r) ==
  /\ Len(r.queue) <= MaxEvents
  /\ r.queuedTokens = Len(Flat(r.queue)) /\ r.queuedTokens <= MaxTokens
  /\ r.pc \in {"pushing", "blocked", "unblocked"} => r.mode = "stream"
  /\ r.pc = "pushing" => HasRoom(r)
  /\ r.pc = "blocked" => r.queue # <<>> /\ r.cause = NoCause
  /\ r.mode # "stream" => r.queue = <<>> /\ r.got = <<>> /\ r.reader = "away"

\* What the consumer got and what it will get is what was committed, unless the
\* session is cancelled; after that there is one more push at the most.
Streamed(r) ==
  /\ r.mode = "stream" /\ r.cause = NoCause => r.got \o Flat(r.queue) = Numbers(r.committed)
  /\ r.pc = "none" => r.committed = 0 /\ r.queue = <<>> /\ r.got = <<>>
  /\ r.late => /\ r.cause # NoCause /\ r.mode = "stream"
               /\ r.pc \in {"computing", "leaving", "closing", "ended"}
  /\ r.reader = "done" => r.state = "terminal" /\ r.queue = <<>>
  /\ r.reader = "waiting" => r.state # "terminal" /\ r.queue = <<>>

\* The idle timer runs exactly when the consumer is waited for; a consumer
\* that has been woken by an event finds it in the queue.
Timed(r) ==
  /\ r.pc = "blocked" => r.timer
  /\ r.state = "created" => r.timer
  /\ r.state = "terminal" => ~r.timer
  /\ r.reader \in {"waiting", "woken"} /\ r.queue = <<>> => ~r.timer

Sound(r) == r \in Record /\ Staged(r) /\ Queued(r) /\ Streamed(r) /\ Timed(r)

Holders == {s \in Sessions : ses[s].holds}

IInv ==
  /\ ses \in [Sessions -> Record] /\ \A s \in Sessions : Sound(ses[s])
  /\ reserved = SumFunctionOnSet(Limit, Holders) /\ reserved <= Capacity
-----------------------------------------------------------------------------
(* What the steps on a record do to each of its fields.                    *)

(* Nothing queued is no tokens. *)
LEMMA FlatNone == Flat(<<>>) = <<>> /\ Len(Flat(<<>>)) = 0
BY FlatEmpty, EmptySeq DEF Flat

(* What is queued flattens to tokens. *)
LEMMA FlatNat ==
  ASSUME NEW q \in Seq(Seq(Nat))
  PROVE  Flat(q) \in Seq(Nat) /\ Len(Flat(q)) \in Nat
BY FlatIn, LenProperties DEF Flat

(* The empty queue, of tokens or of events. *)
LEMMA NoneTyped == <<>> \in Seq(Nat) /\ <<>> \in Seq(Seq(Nat)) /\ Len(<<>>) = 0
BY EmptySeq

(* What cancelling makes of a record whose method runs or has ended. *)
LEMMA CancelledIs ==
  ASSUME NEW r \in Record, r.state # "created", NEW cause
  PROVE  Cancelled(r, cause) =
    [state |-> r.state, mode |-> r.mode, cause |-> IF r.cause = NoCause THEN cause ELSE r.cause,
     pc |-> IF r.pc = "blocked" THEN "unblocked" ELSE r.pc, todo |-> r.todo,
     queue |-> <<>>, queuedTokens |-> 0, committed |-> r.committed,
     reader |-> IF r.reader = "waiting" THEN "woken" ELSE r.reader, timer |-> FALSE, got |-> r.got,
     run |-> r.run, failed |-> r.failed, holds |-> r.holds, outcome |-> r.outcome, late |-> r.late]
BY ZenonT(60) DEF Cancelled, WakeReader, WakeProducer, Record

(* A session cancelled before it runs has ended there. *)
LEMMA CancelledNewIs ==
  ASSUME NEW r \in Record, r.state = "created", r.pc = "none", r.reader = "away", NEW cause
  PROVE  Cancelled(r, cause) =
    [state |-> "terminal", mode |-> r.mode, cause |-> IF r.cause = NoCause THEN cause ELSE r.cause,
     pc |-> "none", todo |-> r.todo,
     queue |-> <<>>, queuedTokens |-> 0, committed |-> r.committed,
     reader |-> "away", timer |-> FALSE, got |-> r.got,
     run |-> r.run, failed |-> r.failed, holds |-> r.holds, outcome |-> "cancelled", late |-> r.late]
BY ZenonT(60) DEF Cancelled, Finish, WakeReader, WakeProducer, Record

Committed(r) == IF r.mode = "stream" THEN r.committed ELSE 0

Phase(r) == CASE r.late -> "late"
              [] ~r.late /\ r.cause # NoCause -> "cut"
              [] OTHER -> "whole"

From(first, last) == [i \in 1 .. (last + 1 - first) |-> first + i - 1]

\* t is what a step of TokenStream, or none, makes of r.
Stays(r, t) ==
  /\ Committed(t) = Committed(r) /\ Flat(t.queue) = Flat(r.queue)
  /\ t.got = r.got /\ Phase(t) = Phase(r)

Commits(r, t) ==
  /\ Phase(r) # "late" /\ Committed(t) \in Nat /\ Committed(t) > Committed(r)
  /\ Flat(t.queue) = Flat(r.queue) \o From(Committed(r) + 1, Committed(t))
  /\ Phase(t) = (IF Phase(r) = "cut" THEN "late" ELSE Phase(r)) /\ t.got = r.got

Delivers(r, t) ==
  /\ \E k \in 1 .. Len(Flat(r.queue)) :
       /\ t.got = r.got \o SubSeq(Flat(r.queue), 1, k)
       /\ Flat(t.queue) = SubSeq(Flat(r.queue), k + 1, Len(Flat(r.queue)))
  /\ Committed(t) = Committed(r) /\ Phase(t) = Phase(r)

Cuts(r, t) ==
  /\ Flat(t.queue) = <<>>
  /\ Phase(t) = (IF Phase(r) = "whole" THEN "cut" ELSE Phase(r))
  /\ Committed(t) = Committed(r) /\ t.got = r.got

Follows(r, t) == Stays(r, t) \/ Commits(r, t) \/ Delivers(r, t) \/ Cuts(r, t)

Goes(r, t) == Sound(t) /\ Follows(r, t)

(* A cancelled session is sound, and its stream is cut. *)
LEMMA CancelledGoes ==
  ASSUME NEW r, Sound(r), r.state \notin {"unopened", "terminal"}, NEW cause \in Causes \ {NoCause}
  PROVE  Goes(r, Cancelled(r, cause)) /\ Cancelled(r, cause).holds = r.holds
<1> DEFINE t == Cancelled(r, cause)
<1>1. r \in Record
  BY DEF Sound
<1>2. CASE r.state # "created"
  <2>1. t = [state |-> r.state, mode |-> r.mode, cause |-> IF r.cause = NoCause THEN cause ELSE r.cause,
             pc |-> IF r.pc = "blocked" THEN "unblocked" ELSE r.pc, todo |-> r.todo,
             queue |-> <<>>, queuedTokens |-> 0, committed |-> r.committed,
             reader |-> IF r.reader = "waiting" THEN "woken" ELSE r.reader, timer |-> FALSE, got |-> r.got,
             run |-> r.run, failed |-> r.failed, holds |-> r.holds, outcome |-> r.outcome, late |-> r.late]
    BY <1>1, <1>2, CancelledIs
  <2> HIDE DEF t
  <2>2. t \in Record
    BY <1>1, <2>1, NoneTyped DEF Record, Points, Executing
  <2>3. Staged(t)
    BY <1>1, <1>2, <2>1 DEF Sound, Staged, Executing, Causes
  <2>4. Queued(t)
    BY <1>1, <2>1, SessionAssumption, NoneTyped, FlatNone DEF Sound, Record, Queued, HasRoom, Piece
  <2>5. Streamed(t)
    BY <1>1, <2>1 DEF Sound, Streamed, Staged, Executing, Causes
  <2>6. Timed(t)
    BY <1>1, <1>2, <2>1 DEF Sound, Timed
  <2>7. Follows(r, t)
    BY <1>1, <2>1, FlatNone DEF Sound, Streamed, Follows, Cuts, Phase, Committed
  <2> QED
    BY <2>1, <2>2, <2>3, <2>4, <2>5, <2>6, <2>7 DEF Goes, Sound, t
<1>3. CASE r.state = "created"
  <2>1. t = [state |-> "terminal", mode |-> r.mode, cause |-> IF r.cause = NoCause THEN cause ELSE r.cause,
             pc |-> "none", todo |-> r.todo, queue |-> <<>>, queuedTokens |-> 0, committed |-> r.committed,
             reader |-> "away", timer |-> FALSE, got |-> r.got,
             run |-> r.run, failed |-> r.failed, holds |-> r.holds, outcome |-> "cancelled", late |-> r.late]
    BY <1>1, <1>3, CancelledNewIs DEF Sound, Staged
  <2> HIDE DEF t
  <2>2. t \in Record
    BY <1>1, <2>1, NoneTyped DEF Record, Points, Executing
  <2>3. Staged(t)
    BY <1>1, <1>3, <2>1 DEF Sound, Staged, Executing, Causes
  <2>4. Queued(t)
    BY <1>1, <1>3, <2>1, SessionAssumption, NoneTyped, FlatNone DEF Sound, Record, Queued, Staged
  <2>5. Streamed(t)
    BY <1>1, <1>3, <2>1 DEF Sound, Streamed, Staged, Executing, Causes
  <2>6. Timed(t)
    BY <1>1, <1>3, <2>1 DEF Sound, Timed
  <2>7. Follows(r, t)
    BY <1>1, <1>3, <2>1, FlatNone DEF Sound, Streamed, Staged, Follows, Cuts, Phase, Committed
  <2> QED
    BY <2>1, <2>2, <2>3, <2>4, <2>5, <2>6, <2>7 DEF Goes, Sound, t
<1> QED
  BY <1>2, <1>3

(* The record every session starts with is sound. *)
LEMMA UnopenedSound == Unopened \in Record /\ Sound(Unopened)
<1>1. Unopened \in Record
  BY NoneTyped DEF Unopened, Record, Causes, Points
<1>2. Staged(Unopened)
  BY DEF Staged, Unopened, Executing
<1>3. Queued(Unopened)
  BY SessionAssumption, NoneTyped, FlatNone DEF Queued, Unopened
<1>4. Streamed(Unopened)
  BY DEF Streamed, Unopened
<1>5. Timed(Unopened)
  BY DEF Timed, Unopened
<1> QED
  BY <1>1, <1>2, <1>3, <1>4, <1>5 DEF Sound

\* The cancellation of a session that is just opened, or has only been opened.
CreatedAs(mode) == [Unopened EXCEPT !.state = "created", !.mode = mode]

(* What open makes of it. *)
LEMMA CreatedIs ==
  ASSUME NEW mode
  PROVE  CreatedAs(mode) =
    [state |-> "created", mode |-> mode, cause |-> NoCause, pc |-> "none", todo |-> 0,
     queue |-> <<>>, queuedTokens |-> 0, committed |-> 0, reader |-> "away", timer |-> FALSE, got |-> <<>>,
     run |-> FALSE, failed |-> FALSE, holds |-> FALSE, outcome |-> "none", late |-> FALSE]
<1> DEFINE u == Unopened
<1>1. /\ u \in Record /\ u.cause = NoCause /\ u.pc = "none" /\ u.todo = 0
      /\ u.queue = <<>> /\ u.queuedTokens = 0 /\ u.committed = 0 /\ u.reader = "away" /\ u.timer = FALSE
      /\ u.got = <<>> /\ u.run = FALSE /\ u.failed = FALSE /\ u.holds = FALSE /\ u.outcome = "none"
      /\ u.late = FALSE
  BY UnopenedSound DEF Unopened
<1>2. CreatedAs(mode) = [u EXCEPT !.state = "created", !.mode = mode]
  BY DEF CreatedAs
<1> HIDE DEF u
<1> QED
  BY <1>1, <1>2, ZenonT(60) DEF Record

(* Opening a session, run at once, timed or already cancelled. *)
LEMMA OpenGoes ==
  ASSUME NEW r, Sound(r), r.state = "unopened", NEW mode \in {"stream", "collect", "callback"},
         NEW t, \/ mode = "stream" /\ t = [CreatedAs(mode) EXCEPT !.timer = TRUE]
                \/ mode # "stream" /\ t = Start(CreatedAs(mode))
                \/ t = Cancelled(CreatedAs(mode), "requested")
  PROVE  Goes(r, t) /\ t.holds = r.holds
<1>1. r = Unopened /\ r \in Record
  BY DEF Sound, Staged
<1>2. CreatedAs(mode) \in Record
  BY NoneTyped, CreatedIs DEF Record, Causes, Points
<1>3. \E state \in {"created", "preparing", "terminal"}, pc \in {"none", "preparing"}, timer \in BOOLEAN,
         cause \in {NoCause, "requested"}, outcome \in {"none", "cancelled"} :
        /\ t = [state |-> state, mode |-> mode, cause |-> cause, pc |-> pc, todo |-> 0,
                queue |-> <<>>, queuedTokens |-> 0, committed |-> 0, reader |-> "away", timer |-> timer,
                got |-> <<>>, run |-> FALSE, failed |-> FALSE, holds |-> FALSE, outcome |-> outcome, late |-> FALSE]
        /\ \/ mode = "stream" /\ state = "created" /\ pc = "none" /\ timer /\ cause = NoCause
           \/ mode # "stream" /\ state = "preparing" /\ pc = "preparing" /\ ~timer /\ cause = NoCause
           \/ state = "terminal" /\ pc = "none" /\ ~timer /\ cause = "requested"
  <2>1. CASE mode = "stream" /\ t = [CreatedAs(mode) EXCEPT !.timer = TRUE]
    <3>1. t = [state |-> "created", mode |-> mode, cause |-> NoCause, pc |-> "none", todo |-> 0,
               queue |-> <<>>, queuedTokens |-> 0, committed |-> 0, reader |-> "away", timer |-> TRUE, got |-> <<>>,
               run |-> FALSE, failed |-> FALSE, holds |-> FALSE, outcome |-> "none", late |-> FALSE]
      BY <2>1, CreatedIs
    <3> QED
      BY <2>1, <3>1
  <2>2. CASE mode # "stream" /\ t = Start(CreatedAs(mode))
    <3>1. t = [state |-> "preparing", mode |-> mode, cause |-> NoCause, pc |-> "preparing", todo |-> 0,
               queue |-> <<>>, queuedTokens |-> 0, committed |-> 0, reader |-> "away", timer |-> FALSE, got |-> <<>>,
               run |-> FALSE, failed |-> FALSE, holds |-> FALSE, outcome |-> "none", late |-> FALSE]
      BY <2>2, CreatedIs DEF Start
    <3> QED
      BY <2>2, <3>1
  <2>3. CASE t = Cancelled(CreatedAs(mode), "requested")
    <3>1. t = [state |-> "terminal", mode |-> mode, cause |-> "requested", pc |-> "none", todo |-> 0,
               queue |-> <<>>, queuedTokens |-> 0, committed |-> 0, reader |-> "away", timer |-> FALSE, got |-> <<>>,
               run |-> FALSE, failed |-> FALSE, holds |-> FALSE, outcome |-> "cancelled", late |-> FALSE]
      BY <1>2, <2>3, CreatedIs, CancelledNewIs
    <3> QED
      BY <3>1
  <2> QED
    BY <2>1, <2>2, <2>3
<1>4. PICK state \in {"created", "preparing", "terminal"}, pc \in {"none", "preparing"}, timer \in BOOLEAN,
           cause \in {NoCause, "requested"}, outcome \in {"none", "cancelled"} :
        /\ t = [state |-> state, mode |-> mode, cause |-> cause, pc |-> pc, todo |-> 0,
                queue |-> <<>>, queuedTokens |-> 0, committed |-> 0, reader |-> "away", timer |-> timer,
                got |-> <<>>, run |-> FALSE, failed |-> FALSE, holds |-> FALSE, outcome |-> outcome, late |-> FALSE]
        /\ \/ mode = "stream" /\ state = "created" /\ pc = "none" /\ timer /\ cause = NoCause
           \/ mode # "stream" /\ state = "preparing" /\ pc = "preparing" /\ ~timer /\ cause = NoCause
           \/ state = "terminal" /\ pc = "none" /\ ~timer /\ cause = "requested"
  BY <1>3
<1>5. t \in Record
  BY <1>4, NoneTyped DEF Record, Points, Executing, Causes
<1>6. Staged(t)
  BY <1>4 DEF Staged, Executing
<1>7. Queued(t)
  BY <1>4, SessionAssumption, NoneTyped, FlatNone DEF Queued
<1>8. Streamed(t)
  <2>1. Numbers(0) = <<>> /\ <<>> \o Flat(<<>>) = <<>>
    BY FlatNone, NoneTyped, ConcatEmptySeq DEF Numbers
  <2> QED
    BY <1>4, <2>1 DEF Streamed
<1>9. Timed(t)
  BY <1>4 DEF Timed
<1>10. Follows(r, t)
  BY <1>1, <1>4, FlatNone DEF Unopened, Follows, Stays, Cuts, Phase, Committed
<1> QED
  BY <1>1, <1>4, <1>5, <1>6, <1>7, <1>8, <1>9, <1>10 DEF Goes, Sound, Unopened

(* The end of next(), and the loop before it. *)
LEMMA TakeIs ==
  ASSUME NEW r \in Record, r.queue # <<>>
  PROVE  Take(r) =
    [state |-> r.state, mode |-> r.mode, cause |-> r.cause,
     pc |-> IF r.pc = "blocked" THEN "unblocked" ELSE r.pc, todo |-> r.todo,
     queue |-> Tail(r.queue), queuedTokens |-> r.queuedTokens - Len(Head(r.queue)),
     committed |-> r.committed, reader |-> "away", timer |-> r.state # "terminal",
     got |-> r.got \o Head(r.queue), run |-> r.run, failed |-> r.failed, holds |-> r.holds,
     outcome |-> r.outcome, late |-> r.late]
BY DEF Take, WakeProducer, Record

(* The consumer that finds nothing waits, or is told the end. *)
LEMMA AwaitIs ==
  ASSUME NEW r \in Record, r.queue = <<>>
  PROVE  Await(r) =
    [state |-> r.state, mode |-> r.mode, cause |-> r.cause, pc |-> r.pc, todo |-> r.todo,
     queue |-> r.queue, queuedTokens |-> r.queuedTokens,
     committed |-> r.committed, reader |-> IF r.state = "terminal" THEN "done" ELSE "waiting", timer |-> r.timer,
     got |-> r.got, run |-> r.run, failed |-> r.failed, holds |-> r.holds,
     outcome |-> r.outcome, late |-> r.late]
BY DEF Await, Take, Record

(* Concatenation of tokens is associative. *)
LEMMA Associative == \A a, b, c \in Seq(Nat) : (a \o b) \o c = a \o (b \o c)
BY ConcatAssociative

(* The length and the elements of a concatenation. *)
LEMMA Concatenation ==
  \A a, b \in Seq(Nat) : /\ a \o b \in Seq(Nat) /\ Len(a \o b) = Len(a) + Len(b)
                         /\ \A i \in 1 .. Len(a) + Len(b) : (a \o b)[i] = IF i <= Len(a) THEN a[i] ELSE b[i - Len(a)]
BY ConcatProperties

(* The sizes are positive numbers. *)
LEMMA BoundsTyped == MaxEvents \in Nat \ {0} /\ MaxTokens \in Nat \ {0} /\ Capacity \in Nat \ {0}
BY SessionAssumption

(* The two parts of a concatenation. *)
LEMMA PartsOf ==
  ASSUME NEW e \in Seq(Nat), NEW f \in Seq(Nat)
  PROVE  /\ Len(e) \in Nat /\ Len(f) \in Nat /\ e \o f \in Seq(Nat) /\ Len(e \o f) = Len(e) + Len(f)
         /\ SubSeq(e \o f, 1, Len(e)) = e
         /\ SubSeq(e \o f, Len(e) + 1, Len(e) + Len(f)) = f
<1>1. Len(e) \in Nat /\ Len(f) \in Nat /\ e \o f \in Seq(Nat) /\ Len(e \o f) = Len(e) + Len(f)
  BY LenProperties, ConcatProperties
<1>2. SubSeq(e \o f, 1, Len(e)) = e
  <2>1. CASE Len(e) = 0
    <3>1. e = <<>>
      BY <2>1, EmptySeq
    <3> QED
      BY <2>1, <3>1, SubSeqEmpty
  <2>2. CASE Len(e) # 0
    <3>1. SubSeq(e \o f, 1, Len(e)) = SubSeq(e, 1, Len(e))
      BY <1>1, <2>2, SubSeqOfConcat1
    <3> QED
      BY <3>1, SubSeqFull
  <2> QED
    BY <2>1, <2>2
<1>3. SubSeq(e \o f, Len(e) + 1, Len(e) + Len(f)) = f
  <2>1. CASE Len(f) = 0
    <3>1. f = <<>>
      BY <2>1, EmptySeq
    <3> QED
      BY <1>1, <2>1, <3>1, SubSeqEmpty
  <2>2. CASE Len(f) # 0
    <3>1. /\ Len(e) + 1 \in Len(e) + 1 .. Len(e) + Len(f) /\ Len(e) + Len(f) \in Len(e) + 1 .. Len(e) + Len(f)
          /\ Len(e) + 1 - Len(e) = 1 /\ Len(e) + Len(f) - Len(e) = Len(f)
      BY <1>1, <2>2
    <3>2. SubSeq(e \o f, Len(e) + 1, Len(e) + Len(f)) = SubSeq(f, 1, Len(f))
      BY <3>1, SubSeqOfConcat2
    <3> QED
      BY <3>2, SubSeqFull
  <2> QED
    BY <2>1, <2>2
<1> QED
  BY <1>1, <1>2, <1>3

(* The consumer gets the first event queued, or waits for one. *)
LEMMA AwaitGoes ==
  ASSUME NEW r \in Record, Staged(r), Queued(r), Streamed(r), r.mode = "stream",
         r.reader \in {"away", "woken"}, r.state \notin {"unopened", "created"},
         r.queue = <<>> => ~r.timer, r.state = "terminal" => ~r.timer
  PROVE  Goes(r, Await(r)) /\ Await(r).holds = r.holds
<1> DEFINE t == Await(r)
<1>1. CASE r.queue = <<>>
  <2>1. t =
    [state |-> r.state, mode |-> r.mode, cause |-> r.cause, pc |-> r.pc, todo |-> r.todo,
     queue |-> r.queue, queuedTokens |-> r.queuedTokens,
     committed |-> r.committed, reader |-> IF r.state = "terminal" THEN "done" ELSE "waiting", timer |-> r.timer,
     got |-> r.got, run |-> r.run, failed |-> r.failed, holds |-> r.holds,
     outcome |-> r.outcome, late |-> r.late]
    BY <1>1, AwaitIs
  <2> HIDE DEF t
  <2>2. t \in Record
    BY <2>1 DEF Record
  <2>3. Staged(t)
    BY <2>1 DEF Staged
  <2>4. Queued(t)
    BY <2>1 DEF Queued, HasRoom, Piece
  <2>5. Streamed(t)
    BY <1>1, <2>1 DEF Streamed
  <2>6. Timed(t)
    BY <1>1, <2>1 DEF Timed, Queued
  <2>7. Follows(r, t)
    BY <2>1 DEF Follows, Stays, Phase, Committed
  <2> QED
    BY <2>1, <2>2, <2>3, <2>4, <2>5, <2>6, <2>7 DEF Goes, Sound, t
<1>2. CASE r.queue # <<>>
  <2> DEFINE e == Head(r.queue)
             q == Tail(r.queue)
  <2>1. t =
    [state |-> r.state, mode |-> r.mode, cause |-> r.cause,
     pc |-> IF r.pc = "blocked" THEN "unblocked" ELSE r.pc, todo |-> r.todo,
     queue |-> q, queuedTokens |-> r.queuedTokens - Len(e),
     committed |-> r.committed, reader |-> "away", timer |-> r.state # "terminal",
     got |-> r.got \o e, run |-> r.run, failed |-> r.failed, holds |-> r.holds,
     outcome |-> r.outcome, late |-> r.late]
    BY <1>2, TakeIs DEF Await
  <2>2. /\ r.queue \in Seq(Seq(Nat)) /\ r.got \in Seq(Nat) /\ r.todo \in Nat
        /\ r.queuedTokens = Len(Flat(r.queue)) /\ r.queuedTokens <= MaxTokens /\ Len(r.queue) <= MaxEvents
    BY DEF Record, Queued
  <2>3. e \in Seq(Nat) /\ q \in Seq(Seq(Nat)) /\ Len(q) = Len(r.queue) - 1 /\ Len(r.queue) \in Nat
    BY <1>2, <2>2, HeadTailProperties, LenProperties
  <2>4. Flat(r.queue) = e \o Flat(q)
    BY <1>2, <2>2, FlatTail DEF Flat
  <2> HIDE DEF t, e, q
  <2>5. Flat(q) \in Seq(Nat) /\ Len(Flat(q)) \in Nat
    BY <2>3, FlatNat
  <2>6. /\ Len(e) \in Nat /\ Len(Flat(r.queue)) = Len(e) + Len(Flat(q)) /\ r.got \o e \in Seq(Nat)
        /\ (r.got \o e) \o Flat(q) = r.got \o Flat(r.queue)
    <3>1. Len(e) \in Nat /\ Len(e \o Flat(q)) = Len(e) + Len(Flat(q))
      BY <2>3, <2>5, PartsOf
    <3>2. r.got \o e \in Seq(Nat)
      BY <2>2, <2>3, PartsOf
    <3>3. (r.got \o e) \o Flat(q) = r.got \o (e \o Flat(q))
      BY <2>2, <2>3, <2>5, Associative
    <3> QED
      BY <2>4, <3>1, <3>2, <3>3
  <2>7. t \in Record
    BY <2>1, <2>2, <2>3, <2>5, <2>6 DEF Record, Points, Executing
  <2>8. Staged(t)
    BY <2>1 DEF Staged, Executing
  <2>9. Queued(t)
    <3>1. /\ t.queuedTokens = Len(Flat(q)) /\ t.queuedTokens \in Nat /\ r.queuedTokens \in Nat
          /\ t.queuedTokens <= r.queuedTokens /\ Len(q) < Len(r.queue) /\ Len(q) \in Nat
      BY <2>1, <2>2, <2>3, <2>5, <2>6
    <3>2. Piece(t) = Piece(r) /\ Piece(r) \in Nat
      BY <2>1, <2>2, BoundsTyped DEF Piece
    <3>3. HasRoom(r) => HasRoom(t)
      <4> DEFINE p == Piece(r)
      <4>1. p \in Nat /\ Piece(t) = p
        BY <3>2
      <4>2. HasRoom(r) <=> Len(r.queue) < MaxEvents /\ r.queuedTokens + p <= MaxTokens
        BY DEF HasRoom
      <4>3. HasRoom(t) <=> Len(q) < MaxEvents /\ t.queuedTokens + p <= MaxTokens
        BY <2>1, <4>1 DEF HasRoom
      <4> HIDE DEF p
      <4> QED
        BY <2>3, <3>1, <4>1, <4>2, <4>3, BoundsTyped
    <3>4. Len(t.queue) <= MaxEvents /\ t.queuedTokens <= MaxTokens
      BY <2>1, <2>2, <2>3, <3>1, BoundsTyped, SMTT(30)
    <3> QED
      BY <2>1, <3>1, <3>3, <3>4 DEF Queued
  <2>10. Streamed(t)
    BY <1>2, <2>1, <2>6 DEF Streamed, Staged
  <2>11. Timed(t)
    BY <2>1 DEF Timed
  <2>12. Follows(r, t)
    <3>1. CASE e = <<>>
      <4>1. Flat(q) = Flat(r.queue) /\ r.got \o e = r.got
        BY <2>2, <2>4, <2>5, <3>1, ConcatEmptySeq
      <4> QED
        BY <2>1, <4>1 DEF Follows, Stays, Phase, Committed
    <3>2. CASE e # <<>>
      <4>1. Len(e) \in 1 .. Len(Flat(r.queue))
        BY <2>3, <2>5, <2>6, <3>2, EmptySeq
      <4>2. /\ SubSeq(Flat(r.queue), 1, Len(e)) = e
            /\ SubSeq(Flat(r.queue), Len(e) + 1, Len(Flat(r.queue))) = Flat(q)
        BY <2>3, <2>4, <2>5, <2>6, PartsOf
      <4> QED
        BY <2>1, <4>1, <4>2 DEF Follows, Delivers, Phase, Committed
    <3> QED
      BY <3>1, <3>2
  <2> QED
    BY <2>1, <2>7, <2>8, <2>9, <2>10, <2>11, <2>12 DEF Goes, Sound, t
<1> QED
  BY <1>1, <1>2

\* A step of the method that neither queues nor waits for room.
MovedTo(r, state, pc, todo, committed, run, failed, holds) ==
  [state |-> state, mode |-> r.mode, cause |-> r.cause, pc |-> pc, todo |-> todo,
   queue |-> r.queue, queuedTokens |-> r.queuedTokens, committed |-> committed,
   reader |-> r.reader, timer |-> r.timer, got |-> r.got,
   run |-> run, failed |-> failed, holds |-> holds, outcome |-> r.outcome, late |-> r.late]

Calm(pc) == pc \in Points \ {"none", "ended", "pushing", "blocked", "unblocked"}

StateAt(pc) ==
  CASE pc \in {"preparing", "creating"} -> "preparing"
    [] pc \in Executing -> "running"
    [] OTHER -> "settling"

(* A move of the method keeps the record sound and the stream as it is. *)
LEMMA MoveGoes ==
  ASSUME NEW r, Sound(r), r.pc \notin {"none", "ended"}, NEW pc, Calm(pc), NEW todo \in Nat,
         NEW committed \in Nat, r.mode = "stream" => committed = r.committed,
         NEW run \in BOOLEAN, run => pc \in Executing \cup {"closing"}, NEW failed \in BOOLEAN,
         NEW holds \in BOOLEAN, holds => pc # "preparing",
         r.late => pc \in {"computing", "leaving", "closing"},
         NEW t, t = MovedTo(r, StateAt(pc), pc, todo, committed, run, failed, holds)
  PROVE  Goes(r, t)
<1> USE DEF Calm
<1>1. r \in Record /\ r.state \in {"preparing", "running", "settling"}
  BY DEF Sound, Staged, Record, Points
<1>2. StateAt(pc) \in {"preparing", "running", "settling"}
  BY DEF StateAt
<1>3. t \in Record
  BY <1>1, <1>2 DEF Record, MovedTo
<1>4. Staged(t)
  BY <1>1, <1>2 DEF Sound, Staged, MovedTo, StateAt, Executing, Points
<1>5. Queued(t)
  BY <1>1 DEF Sound, Queued, MovedTo
<1>6. Streamed(t)
  BY <1>1, <1>2 DEF Sound, Streamed, MovedTo
<1>7. Timed(t)
  BY <1>1, <1>2 DEF Sound, Timed, MovedTo
<1>8. Follows(r, t)
  BY <1>1 DEF Follows, Stays, Phase, Committed, MovedTo
<1> QED
  BY <1>3, <1>4, <1>5, <1>6, <1>7, <1>8 DEF Goes, Sound

\* What the consumer sees of a session stays.
Same(r, t) ==
  Committed(t) = Committed(r) /\ t.queue = r.queue /\ t.got = r.got /\ Phase(t) = Phase(r)

(* A publication that looks for room moves on, waits or fails. *)
LEMMA SpaceGoes ==
  ASSUME NEW r \in Record, Staged(r), r.pc \in Executing, r.mode = "stream",
         Len(r.queue) <= MaxEvents, r.queuedTokens = Len(Flat(r.queue)), r.queuedTokens <= MaxTokens,
         r.cause = NoCause => r.got \o Flat(r.queue) = Numbers(r.committed),
         r.late => r.cause # NoCause,
         r.reader = "done" => r.state = "terminal",
         r.reader = "waiting" => r.queue = <<>>,
         r.reader \in {"waiting", "woken"} /\ r.queue = <<>> => ~r.timer
  PROVE  Sound(Space(r)) /\ Same(r, Space(r)) /\ Space(r).holds = r.holds
<1>1. r.state = "running"
  BY DEF Staged
<1>2. CASE r.cause # NoCause
  <2>1. Space(r) = MovedTo(r, r.state, "leaving", 0, r.committed, r.run, TRUE, r.holds)
    BY <1>2 DEF Space, Throw, Record, MovedTo
  <2> DEFINE t == Space(r)
  <2> HIDE DEF t
  <2>2. t = MovedTo(r, r.state, "leaving", 0, r.committed, r.run, TRUE, r.holds)
    BY <2>1 DEF t
  <2>3. t \in Record
    BY <2>2 DEF Record, MovedTo, Points, Executing
  <2>4. Staged(t)
    BY <1>1, <2>2 DEF Staged, MovedTo, Executing
  <2>5. Queued(t)
    BY <2>2 DEF Queued, MovedTo
  <2>6. Streamed(t)
    BY <1>1, <1>2, <2>2 DEF Streamed, MovedTo
  <2>7. Timed(t)
    BY <1>1, <2>2 DEF Timed, MovedTo
  <2>8. Same(r, t) /\ t.holds = r.holds
    BY <2>2 DEF Same, Committed, Phase, MovedTo
  <2> QED
    BY <2>3, <2>4, <2>5, <2>6, <2>7, <2>8 DEF Sound, t
<1>3. CASE r.cause = NoCause
  <2>1. ~HasRoom(r) => r.queue # <<>>
    <3> SUFFICES ASSUME r.queue = <<>>
                 PROVE  HasRoom(r)
      OBVIOUS
    <3>1. Len(r.queue) = 0 /\ r.queuedTokens = 0
      BY FlatNone, NoneTyped
    <3>2. Piece(r) \in Nat /\ Piece(r) <= MaxTokens
      BY BoundsTyped DEF Record, Piece
    <3> QED
      BY <3>1, <3>2, BoundsTyped DEF HasRoom
  <2> DEFINE t == Space(r)
  <2>2. \E pc \in {"blocked", "pushing"} :
          /\ t = [state |-> "running", mode |-> r.mode, cause |-> r.cause, pc |-> pc, todo |-> r.todo,
                  queue |-> r.queue, queuedTokens |-> r.queuedTokens, committed |-> r.committed,
                  reader |-> r.reader, timer |-> IF pc = "blocked" THEN TRUE ELSE r.timer, got |-> r.got,
                  run |-> r.run, failed |-> r.failed, holds |-> r.holds, outcome |-> r.outcome, late |-> r.late]
          /\ pc = "pushing" => HasRoom(r)
          /\ pc = "blocked" => ~HasRoom(r)
    <3>1. CASE HasRoom(r)
      BY <1>1, <1>3, <3>1 DEF Space, Record
    <3>2. CASE ~HasRoom(r)
      BY <1>1, <1>3, <3>2 DEF Space, Record
    <3> QED
      BY <3>1, <3>2
  <2> HIDE DEF t
  <2>3. PICK pc \in {"blocked", "pushing"} :
          /\ t = [state |-> "running", mode |-> r.mode, cause |-> r.cause, pc |-> pc, todo |-> r.todo,
                  queue |-> r.queue, queuedTokens |-> r.queuedTokens, committed |-> r.committed,
                  reader |-> r.reader, timer |-> IF pc = "blocked" THEN TRUE ELSE r.timer, got |-> r.got,
                  run |-> r.run, failed |-> r.failed, holds |-> r.holds, outcome |-> r.outcome, late |-> r.late]
          /\ pc = "pushing" => HasRoom(r)
          /\ pc = "blocked" => ~HasRoom(r)
    BY <2>2
  <2>4. t \in Record
    <3>1. CASE pc = "blocked"
      BY <2>3, <3>1 DEF Record, Points, Executing
    <3>2. CASE pc = "pushing"
      BY <2>3, <3>2 DEF Record, Points, Executing
    <3> QED
      BY <3>1, <3>2
  <2>5. Staged(t)
    BY <1>1, <2>3 DEF Staged, Executing
  <2>6. Queued(t)
    BY <1>3, <2>1, <2>3 DEF Queued, HasRoom, Piece
  <2>7. Streamed(t)
    BY <1>1, <1>3, <2>3 DEF Streamed
  <2>8. Timed(t)
    BY <2>1, <2>3 DEF Timed
  <2>9. Same(r, t) /\ t.holds = r.holds
    BY <2>3 DEF Same, Committed, Phase
  <2> QED
    BY <2>4, <2>5, <2>6, <2>7, <2>8, <2>9 DEF Sound, t
<1> QED
  BY <1>2, <1>3

(* The next n numbers after the first c. *)
LEMMA NumbersMore ==
  ASSUME NEW c \in Nat, NEW n \in Nat
  PROVE  /\ [i \in 1 .. n |-> c + i] \in Seq(Nat) /\ Len([i \in 1 .. n |-> c + i]) = n
         /\ Numbers(c) \o [i \in 1 .. n |-> c + i] = Numbers(c + n)
         /\ From(c + 1, c + n) = [i \in 1 .. n |-> c + i]
<1> DEFINE e == [i \in 1 .. n |-> c + i]
<1>1. e \in Seq(Nat) /\ Len(e) = n /\ \A i \in 1 .. n : e[i] = c + i
  OBVIOUS
<1>2. Numbers(c) \in Seq(Nat) /\ Len(Numbers(c)) = c /\ \A i \in 1 .. c : Numbers(c)[i] = i
  BY DEF Numbers
<1>3. Numbers(c + n) \in Seq(Nat) /\ Len(Numbers(c + n)) = c + n /\ \A i \in 1 .. c + n : Numbers(c + n)[i] = i
  BY DEF Numbers
<1>4. From(c + 1, c + n) = e
  <2>1. 1 .. (c + n + 1 - (c + 1)) = 1 .. n
    OBVIOUS
  <2> QED
    BY <2>1 DEF From
<1>5. Numbers(c) \o e = Numbers(c + n)
  <2> HIDE DEF e
  <2>1. /\ Numbers(c) \o e \in Seq(Nat) /\ Len(Numbers(c) \o e) = c + n
        /\ \A i \in 1 .. c + n : (Numbers(c) \o e)[i] = IF i <= c THEN Numbers(c)[i] ELSE e[i - c]
    <3> DEFINE a == Numbers(c)
    <3>1. a \in Seq(Nat) /\ e \in Seq(Nat) /\ Len(a) = c /\ Len(e) = n
      BY <1>1, <1>2
    <3> HIDE DEF a
    <3>2. /\ a \o e \in Seq(Nat) /\ Len(a \o e) = Len(a) + Len(e)
          /\ \A i \in 1 .. Len(a) + Len(e) : (a \o e)[i] = IF i <= Len(a) THEN a[i] ELSE e[i - Len(a)]
      BY <3>1, Concatenation
    <3> QED
      BY <3>1, <3>2 DEF a
  <2>2. \A i \in 1 .. c + n : (Numbers(c) \o e)[i] = i
    <3> SUFFICES ASSUME NEW i \in 1 .. c + n
                 PROVE  (Numbers(c) \o e)[i] = i
      OBVIOUS
    <3>1. CASE i <= c
      BY <1>2, <2>1, <3>1
    <3>2. CASE ~(i <= c)
      <4>1. i - c \in 1 .. n /\ c + (i - c) = i
        BY <3>2
      <4> QED
        BY <1>1, <2>1, <3>2, <4>1
    <3> QED
      BY <3>1, <3>2
  <2> QED
    BY <1>3, <2>1, <2>2, SeqEqual
<1> QED
  BY <1>1, <1>4, <1>5

\* The push itself, before the rest of the publication asks for room.
Pushed(r) ==
  LET n == Piece(r)
      event == [i \in 1 .. n |-> r.committed + i]
  IN WakeReader([r EXCEPT !.queue = Append(@, event), !.queuedTokens = @ + n,
                          !.committed = @ + n, !.todo = @ - n, !.late = @ \/ (r.cause # NoCause /\ n > 0)])

AfterPush(r) == IF Pushed(r).todo = 0 THEN [Pushed(r) EXCEPT !.pc = "computing"] ELSE Space(Pushed(r))

LateNow(r) == r.late \/ (r.cause # NoCause /\ Piece(r) > 0)

(* What a push makes of a record. *)
LEMMA PushedIs ==
  ASSUME NEW r \in Record, NEW t, t = Pushed(r)
  PROVE  t =
    [state |-> r.state, mode |-> r.mode, cause |-> r.cause, pc |-> r.pc, todo |-> r.todo - Piece(r),
     queue |-> Append(r.queue, [i \in 1 .. Piece(r) |-> r.committed + i]),
     queuedTokens |-> r.queuedTokens + Piece(r), committed |-> r.committed + Piece(r),
     reader |-> IF r.reader = "waiting" THEN "woken" ELSE r.reader, timer |-> r.timer, got |-> r.got,
     run |-> r.run, failed |-> r.failed, holds |-> r.holds, outcome |-> r.outcome, late |-> LateNow(r)]
<1> DEFINE n == Piece(r)
           q == Append(r.queue, [i \in 1 .. n |-> r.committed + i])
           l == LateNow(r)
<1>1. t = WakeReader([r EXCEPT !.queue = q, !.queuedTokens = r.queuedTokens + n,
                               !.committed = r.committed + n, !.todo = r.todo - n, !.late = l])
  BY DEF Pushed, Record, LateNow
<1> HIDE DEF n, q, l
<1>2. t = [state |-> r.state, mode |-> r.mode, cause |-> r.cause, pc |-> r.pc, todo |-> r.todo - n, queue |-> q,
           queuedTokens |-> r.queuedTokens + n, committed |-> r.committed + n,
           reader |-> IF r.reader = "waiting" THEN "woken" ELSE r.reader, timer |-> r.timer, got |-> r.got,
           run |-> r.run, failed |-> r.failed, holds |-> r.holds, outcome |-> r.outcome, late |-> l]
  BY <1>1 DEF WakeReader, Record
<1> QED
  BY <1>2 DEF n, q, l

(* A push, into the room there was when it was looked for, commits tokens. *)
LEMMA PushGoes ==
  ASSUME NEW r, Sound(r), r.pc = "pushing"
  PROVE  Goes(r, AfterPush(r)) /\ AfterPush(r).holds = r.holds
<1> DEFINE n == Piece(r)
           e == [i \in 1 .. n |-> r.committed + i]
           p == Pushed(r)
           l == LateNow(r)
           q == Append(r.queue, e)
<1>1. /\ r \in Record /\ r.state = "running" /\ r.mode = "stream" /\ ~r.late
      /\ Len(r.queue) < MaxEvents /\ r.queuedTokens + n <= MaxTokens /\ r.reader \notin {"done"}
      /\ r.queuedTokens = Len(Flat(r.queue))
  BY DEF Sound, Staged, Queued, Streamed, HasRoom, Executing
<1>2. /\ r.queue \in Seq(Seq(Nat)) /\ r.got \in Seq(Nat) /\ r.todo \in Nat /\ r.committed \in Nat
      /\ r.queuedTokens \in Nat
  BY <1>1 DEF Record
<1>3. n \in Nat /\ r.todo - n \in Nat /\ (n = 0 <=> r.todo = 0)
  BY <1>2, BoundsTyped DEF Piece
<1>4. p = [state |-> r.state, mode |-> r.mode, cause |-> r.cause, pc |-> r.pc, todo |-> r.todo - n, queue |-> q,
           queuedTokens |-> r.queuedTokens + n, committed |-> r.committed + n,
           reader |-> IF r.reader = "waiting" THEN "woken" ELSE r.reader, timer |-> r.timer, got |-> r.got,
           run |-> r.run, failed |-> r.failed, holds |-> r.holds, outcome |-> r.outcome, late |-> l]
  BY <1>1, PushedIs
<1>l. l \in BOOLEAN /\ (l <=> r.cause # NoCause /\ n > 0)
  BY <1>1 DEF LateNow
<1> HIDE DEF n, p, l
<1>5. /\ e \in Seq(Nat) /\ Len(e) = n /\ Numbers(r.committed) \o e = Numbers(r.committed + n)
      /\ From(r.committed + 1, r.committed + n) = e
  BY <1>2, <1>3, NumbersMore
<1> HIDE DEF e
<1>6. /\ q \in Seq(Seq(Nat)) /\ q # <<>> /\ Len(q) = Len(r.queue) + 1 /\ Len(r.queue) \in Nat
  <2>1. Len(r.queue) \in Nat
    BY <1>2, LenProperties
  <2>2. q \in Seq(Seq(Nat)) /\ q # <<>> /\ Len(q) = Len(r.queue) + 1
    <3>1. \A s \in Seq(Seq(Nat)), x \in Seq(Nat) :
            Append(s, x) \in Seq(Seq(Nat)) /\ Append(s, x) # <<>> /\ Len(Append(s, x)) = Len(s) + 1
      BY AppendProperties
    <3> QED
      BY <1>2, <1>5, <3>1
  <2> QED
    BY <2>1, <2>2
<1>7. Flat(q) = Flat(r.queue) \o e
  BY <1>2, <1>5, FlatAppend DEF Flat
<1> HIDE DEF q
<1>8. Flat(r.queue) \in Seq(Nat) /\ Len(Flat(q)) = Len(Flat(r.queue)) + n
  BY <1>2, <1>5, <1>7, FlatNat, PartsOf
<1>9. p \in Record
  <2>1. r.queuedTokens + n \in Nat /\ r.committed + n \in Nat
    BY <1>2, <1>3
  <2> QED
    BY <1>1, <1>3, <1>4, <1>6, <1>l, <2>1 DEF Record
<1>10. Staged(p)
  BY <1>1, <1>4 DEF Sound, Staged, Executing
<1>11. /\ Len(p.queue) <= MaxEvents /\ p.queuedTokens = Len(Flat(p.queue)) /\ p.queuedTokens <= MaxTokens
       /\ p.queue # <<>> /\ p.reader \notin {"waiting", "done"} /\ p.pc = "pushing" /\ p.mode = "stream"
       /\ p.state = "running" /\ p.holds = r.holds
  BY <1>1, <1>2, <1>3, <1>4, <1>6, <1>8, BoundsTyped, SMTT(30)
<1>12. p.cause = NoCause => p.got \o Flat(p.queue) = Numbers(p.committed)
  <2> SUFFICES ASSUME r.cause = NoCause
               PROVE  r.got \o Flat(q) = Numbers(r.committed + n)
    BY <1>4
  <2>1. r.got \o Flat(r.queue) = Numbers(r.committed)
    BY <1>1 DEF Sound, Streamed
  <2>2. (r.got \o Flat(r.queue)) \o e = r.got \o (Flat(r.queue) \o e)
    BY <1>2, <1>5, <1>8, Associative
  <2> QED
    BY <1>5, <1>7, <2>1, <2>2
<1>13. p.late => p.cause # NoCause
  BY <1>4, <1>l
<1>14. ASSUME NEW t, Same(p, t)
       PROVE  Follows(r, t)
  <2>1. /\ Committed(t) = r.committed + n /\ Committed(r) = r.committed /\ t.got = r.got
        /\ Flat(t.queue) = Flat(r.queue) \o e /\ Phase(t) = Phase(p)
    BY <1>1, <1>4, <1>7, <1>14 DEF Same, Committed
  <2>2. CASE n = 0
    <3>1. Flat(r.queue) \o e = Flat(r.queue)
      <4>1. e = <<>>
        BY <1>5, <2>2, EmptySeq
      <4> QED
        BY <1>8, <4>1, ConcatEmptySeq
    <3>2. Phase(p) = Phase(r)
      BY <1>1, <1>4, <1>l, <2>2 DEF Phase
    <3> QED
      BY <1>2, <2>1, <2>2, <3>1, <3>2 DEF Follows, Stays
  <2>3. CASE n # 0
    <3>1. Phase(r) # "late" /\ Phase(p) = (IF Phase(r) = "cut" THEN "late" ELSE Phase(r))
      BY <1>1, <1>3, <1>4, <1>l, <2>3 DEF Phase
    <3>2. Committed(t) \in Nat /\ Committed(t) > Committed(r)
      BY <1>2, <1>3, <2>1, <2>3
    <3>3. Flat(t.queue) = Flat(r.queue) \o From(Committed(r) + 1, Committed(t))
      BY <1>5, <2>1
    <3> QED
      BY <2>1, <3>1, <3>2, <3>3 DEF Follows, Commits
  <2> QED
    BY <2>2, <2>3
<1>15. CASE p.todo = 0
  <2>t. PICK t : t = [p EXCEPT !.pc = "computing"]
    OBVIOUS
  <2>1. t = MovedTo(p, "running", "computing", p.todo, p.committed, p.run, p.failed, p.holds)
    BY <2>t, <1>9, <1>11 DEF Record, MovedTo
  <2>2. t \in Record
    BY <1>9, <2>1 DEF Record, MovedTo, Points, Executing
  <2>3. Staged(t)
    BY <1>10, <1>11, <2>1 DEF Staged, MovedTo, Executing
  <2>4. Queued(t)
    BY <1>11, <2>1 DEF Queued, MovedTo
  <2>5. Streamed(t)
    BY <1>11, <1>12, <1>13, <2>1 DEF Streamed, MovedTo
  <2>6. Timed(t)
    BY <1>11, <2>1 DEF Timed, MovedTo
  <2>7. Same(p, t) /\ t.holds = r.holds
    BY <1>11, <2>1 DEF Same, Committed, Phase, MovedTo
  <2>8. Goes(r, t)
    BY <1>14, <2>2, <2>3, <2>4, <2>5, <2>6, <2>7 DEF Goes, Sound
  <2> QED
    BY <1>15, <2>t, <2>7, <2>8 DEF AfterPush, p
<1>16. CASE p.todo # 0
  <2>1. Sound(Space(p)) /\ Same(p, Space(p)) /\ Space(p).holds = p.holds
    BY <1>9, <1>10, <1>11, <1>12, <1>13, SpaceGoes DEF Executing
  <2>2. AfterPush(r) = Space(p)
    BY <1>16 DEF AfterPush, p
  <2> QED
    BY <1>11, <1>14, <2>1, <2>2 DEF Goes
<1> QED
  BY <1>15, <1>16

\* A session that has ended.
EndedWith(r, outcome) ==
  [state |-> "terminal", mode |-> r.mode, cause |-> r.cause, pc |-> "ended", todo |-> r.todo,
   queue |-> r.queue, queuedTokens |-> r.queuedTokens, committed |-> r.committed,
   reader |-> IF r.reader = "waiting" THEN "woken" ELSE r.reader, timer |-> FALSE, got |-> r.got,
   run |-> FALSE, failed |-> r.failed, holds |-> FALSE, outcome |-> outcome, late |-> r.late]

(* What the end of the method makes of a record. *)
LEMMA FinishIs ==
  ASSUME NEW r \in Record, NEW outcome,
         NEW t, t = Finish([r EXCEPT !.pc = "ended", !.run = FALSE, !.holds = FALSE], outcome)
  PROVE  t = EndedWith(r, outcome)
BY DEF Finish, WakeReader, Record, EndedWith

(* The end is sound and leaves what is queued to the consumer. *)
LEMMA FinishGoes ==
  ASSUME NEW r, Sound(r), r.pc = "closing", NEW outcome \in {"completed", "cancelled", "failed"},
         outcome = "completed" => r.cause = NoCause, NEW t, t = EndedWith(r, outcome)
  PROVE  Goes(r, t) /\ ~t.holds
<1>1. r \in Record /\ r.state = "settling"
  BY DEF Sound, Staged
<1>2. t \in Record
  BY <1>1 DEF Record, Points, EndedWith
<1>3. Staged(t)
  BY <1>1 DEF Sound, Staged, Executing, EndedWith
<1>4. Queued(t)
  BY <1>1 DEF Sound, Queued, Record, EndedWith
<1>5. Streamed(t)
  <2>1. /\ t.mode = r.mode /\ t.cause = r.cause /\ t.got = r.got /\ t.queue = r.queue /\ t.committed = r.committed
        /\ t.late = r.late /\ t.pc = "ended" /\ t.state = "terminal"
        /\ t.reader \notin {"done", "waiting"} \/ (t.reader = r.reader /\ t.reader = "done")
    BY <1>1 DEF EndedWith, Record
  <2> QED
    BY <1>1, <2>1 DEF Sound, Streamed
<1>6. Timed(t)
  BY DEF Timed, EndedWith
<1>7. Follows(r, t)
  BY DEF Follows, Stays, Committed, Phase, EndedWith
<1> QED
  BY <1>2, <1>3, <1>4, <1>5, <1>6, <1>7 DEF Goes, Sound, EndedWith

(* To follow is to make a step of TokenStream, or none. *)
LEMMA FollowsIsStep ==
  ASSUME NEW s \in Sessions, Follows(ses[s], ses'[s])
  PROVE  [Stream(s)!Next]_(Stream(s)!vars)
<1> DEFINE r == ses[s]
           t == ses'[s]
           C(x) == IF x.mode = "stream" THEN x.committed ELSE 0
           P(x) == CASE x.late -> "late"
                     [] ~x.late /\ x.cause # NoCause -> "cut"
                     [] OTHER -> "whole"
<1>1. Committed(r) = C(r) /\ Committed(t) = C(t) /\ Phase(r) = P(r) /\ Phase(t) = P(t)
  BY DEF Committed, Phase
<1>2. CASE Stays(r, t)
  BY <1>1, <1>2 DEF Stays, Stream!vars
<1>3. CASE Commits(r, t)
  <2>1. Stream(s)!Numbered(C(r) + 1, C(t)) = From(C(r) + 1, C(t))
    BY DEF From, Stream!Numbered
  <2>2. Stream(s)!Commit
    BY <1>1, <1>3, <2>1 DEF Commits, Stream!Commit
  <2> QED
    BY <2>2 DEF Stream!Next
<1>4. CASE Delivers(r, t)
  <2>1. Stream(s)!Deliver
    BY <1>1, <1>4 DEF Delivers, Stream!Deliver
  <2> QED
    BY <2>1 DEF Stream!Next
<1>5. CASE Cuts(r, t)
  <2>1. Stream(s)!Cut
    BY <1>1, <1>5 DEF Cuts, Stream!Cut
  <2> QED
    BY <2>1 DEF Stream!Next
<1> QED
  BY <1>2, <1>3, <1>4, <1>5 DEF Follows

-----------------------------------------------------------------------------
(* Every step of the engine keeps the invariant and follows the stream.    *)

Reserved == reserved = SumFunctionOnSet(Limit, Holders) /\ reserved <= Capacity

AllFollow == \A s \in Sessions : Follows(ses[s], ses'[s])

Kept == IInv' /\ AllFollow

(* A session that does nothing follows. *)
LEMMA FollowsItself == \A r : Follows(r, r)
BY DEF Follows, Stays

(* Those that hold output are finitely many, and it is a number. *)
LEMMA HoldersFinite ==
  /\ IsFiniteSet(Holders) /\ Holders \subseteq Sessions
  /\ \A s \in Sessions : Limit[s] \in Nat
  /\ SumFunctionOnSet(Limit, Holders) \in Nat
<1>1. IsFiniteSet(Holders) /\ Holders \subseteq Sessions /\ \A s \in Sessions : Limit[s] \in Nat
  BY SessionAssumption, FS_Subset DEF Holders
<1> QED
  BY <1>1, SumNat

(* A step on one record keeps every record sound. *)
LEMMA OneGoes ==
  ASSUME IInv, NEW s \in Sessions, NEW t, Goes(ses[s], t), Become(s, t)
  PROVE  /\ ses' \in [Sessions -> Record] /\ \A x \in Sessions : Sound(ses'[x])
         /\ ses'[s] = t /\ \A x \in Sessions \ {s} : ses'[x] = ses[x]
         /\ AllFollow
<1>1. t \in Record /\ Sound(t) /\ Follows(ses[s], t)
  BY DEF Goes, Sound
<1>2. ses'[s] = t /\ \A x \in Sessions \ {s} : ses'[x] = ses[x]
  BY DEF IInv, Become
<1>3. ses' \in [Sessions -> Record]
  BY <1>1 DEF IInv, Become
<1>4. \A x \in Sessions : Sound(ses'[x])
  BY <1>1, <1>2 DEF IInv
<1>5. AllFollow
  BY <1>1, <1>2, FollowsItself DEF AllFollow
<1> QED
  BY <1>2, <1>3, <1>4, <1>5

(* And when it holds what it held, the reservation too. *)
LEMMA OneKeeps ==
  ASSUME IInv, NEW s \in Sessions, NEW t, Goes(ses[s], t), t.holds = ses[s].holds, Become(s, t), UNCHANGED reserved
  PROVE  Kept
<1>1. Holders' = Holders
  BY OneGoes DEF Holders
<1> QED
  BY <1>1, OneGoes DEF IInv, Kept

(* Closing the engine cancels every session that has not ended. *)
LEMMA CloseKeeps ==
  ASSUME IInv, Close
  PROVE  Kept
<1> DEFINE New(s) == IF Live(s) THEN Cancelled(ses[s], "engine_closed") ELSE ses[s]
<1>1. "engine_closed" \in Causes \ {NoCause}
  BY SessionAssumption DEF Causes
<1>2. \A s \in Sessions : Goes(ses[s], New(s)) /\ New(s).holds = ses[s].holds
  <2> SUFFICES ASSUME NEW s \in Sessions
               PROVE  Goes(ses[s], New(s)) /\ New(s).holds = ses[s].holds
    OBVIOUS
  <2>1. CASE Live(s)
    BY <1>1, <2>1, CancelledGoes DEF IInv, Live
  <2>2. CASE ~Live(s)
    BY <2>2, FollowsItself DEF IInv, Goes
  <2> QED
    BY <2>1, <2>2
<1>3. ses' = [s \in Sessions |-> New(s)] /\ UNCHANGED reserved
  BY DEF Close
<1> HIDE DEF New
<1>4. /\ ses' \in [Sessions -> Record] /\ \A s \in Sessions : Sound(ses'[s])
      /\ \A s \in Sessions : ses'[s].holds = ses[s].holds
  BY <1>2, <1>3 DEF Goes, Sound
<1>5. AllFollow
  BY <1>2, <1>3 DEF Goes, AllFollow
<1>6. Holders' = Holders
  BY <1>4 DEF Holders
<1> QED
  BY <1>3, <1>4, <1>5, <1>6 DEF IInv, Kept

(* The consumer's steps, the timer's, and those that only move the queue. *)
LEMMA ConsumerKeeps ==
  ASSUME IInv, NEW s \in Sessions,
         \/ \E mode \in Modes[s] : Open(s, mode)
         \/ Cancel(s) \/ ReaderNext(s) \/ ReaderResumes(s) \/ TimerFires(s)
  PROVE  Kept
<1> DEFINE r == ses[s]
<1>1. Sound(r) /\ r \in Record
  BY DEF IInv
<1>2. {"requested", "consumer_idle"} \subseteq Causes \ {NoCause}
  BY SessionAssumption DEF Causes
<1>3. ASSUME NEW mode \in Modes[s], Open(s, mode)
      PROVE  Kept
  <2>1. mode \in {"stream", "collect", "callback"}
    BY SessionAssumption
  <2>2. PICK t : /\ Become(s, t)
                 /\ \/ mode = "stream" /\ t = [CreatedAs(mode) EXCEPT !.timer = TRUE]
                    \/ mode # "stream" /\ t = Start(CreatedAs(mode))
                    \/ t = Cancelled(CreatedAs(mode), "requested")
    BY <1>3 DEF Open, CreatedAs
  <2>3. r.state = "unopened" /\ UNCHANGED reserved
    BY <1>3 DEF Open
  <2>4. Goes(r, t) /\ t.holds = r.holds
    BY <1>1, <2>1, <2>2, <2>3, OpenGoes
  <2> QED
    BY <2>2, <2>3, <2>4, OneKeeps
<1>4. CASE Cancel(s)
  <2>1. Goes(r, Cancelled(r, "requested")) /\ Cancelled(r, "requested").holds = r.holds
    BY <1>1, <1>2, <1>4, CancelledGoes DEF Cancel, Live
  <2> QED
    BY <1>4, <2>1, OneKeeps DEF Cancel
<1>5. CASE TimerFires(s)
  <2>1. r.state \notin {"unopened", "terminal"}
    BY <1>1, <1>5 DEF Sound, Staged, Timed, Unopened, TimerFires
  <2>2. Goes(r, Cancelled(r, "consumer_idle")) /\ Cancelled(r, "consumer_idle").holds = r.holds
    BY <1>1, <1>2, <2>1, CancelledGoes
  <2> QED
    BY <1>5, <2>2, OneKeeps DEF TimerFires
<1>6. CASE ReaderResumes(s)
  <2>1. /\ Staged(r) /\ Queued(r) /\ Streamed(r) /\ r.mode = "stream" /\ r.reader = "woken"
        /\ r.state \notin {"unopened", "created"}
        /\ (r.queue = <<>> => ~r.timer) /\ (r.state = "terminal" => ~r.timer)
    BY <1>1, <1>6 DEF Sound, Staged, Queued, Timed, Unopened, ReaderResumes
  <2>2. Goes(r, Await(r)) /\ Await(r).holds = r.holds
    BY <1>1, <2>1, AwaitGoes
  <2> QED
    BY <1>6, <2>2, OneKeeps DEF ReaderResumes
<1>7. CASE ReaderNext(s)
  <2>1. PICK u : u = Start([r EXCEPT !.timer = FALSE])
    OBVIOUS
  <2>2. r.mode = "stream" /\ r.reader = "away" /\ Become(s, Await(u)) /\ UNCHANGED reserved
    BY <1>7, <2>1 DEF ReaderNext
  <2>3. r.state # "unopened"
    BY <1>1, <2>2 DEF Sound, Staged, Unopened
  <2>4. u = [state |-> IF r.state = "created" THEN "preparing" ELSE r.state, mode |-> r.mode, cause |-> r.cause,
             pc |-> IF r.state = "created" THEN "preparing" ELSE r.pc, todo |-> r.todo, queue |-> r.queue,
             queuedTokens |-> r.queuedTokens, committed |-> r.committed, reader |-> r.reader, timer |-> FALSE,
             got |-> r.got, run |-> r.run, failed |-> r.failed, holds |-> r.holds, outcome |-> r.outcome,
             late |-> r.late]
    BY <1>1, <2>1, ZenonT(60) DEF Start, Record
  <2>5. u \in Record
    BY <1>1, <2>4 DEF Record, Points
  <2>6. Staged(u) /\ u.state \notin {"unopened", "created"}
    BY <1>1, <2>3, <2>4 DEF Sound, Staged, Executing
  <2>7. Queued(u)
    BY <1>1, <2>4 DEF Sound, Queued, HasRoom, Piece
  <2>8. Streamed(u)
    BY <1>1, <2>2, <2>4 DEF Sound, Staged, Streamed
  <2>9. Goes(u, Await(u)) /\ Await(u).holds = r.holds
    <3>1. u.reader \in {"away", "woken"} /\ u.mode = "stream" /\ ~u.timer /\ u.holds = r.holds
      BY <2>2, <2>4
    <3> QED
      BY <2>5, <2>6, <2>7, <2>8, <3>1, AwaitGoes
  <2>10. \A t : Follows(u, t) => Follows(r, t)
    <3>1. Committed(u) = Committed(r) /\ u.queue = r.queue /\ u.got = r.got /\ Phase(u) = Phase(r)
      BY <2>4 DEF Committed, Phase
    <3> QED
      BY <3>1 DEF Follows, Stays, Commits, Delivers, Cuts
  <2> QED
    BY <2>2, <2>9, <2>10, OneKeeps DEF Goes
<1> QED
  BY <1>3, <1>4, <1>5, <1>6, <1>7

\* What a plan, a run, a callback and an execution make of the record.
MoveIs(r, t, pc) ==
  /\ Sound(r) /\ r.pc \notin {"none", "ended"} /\ Calm(pc) /\ (r.late => pc \in {"computing", "leaving", "closing"})
  /\ t.todo \in Nat /\ t.committed \in Nat /\ t.run \in BOOLEAN /\ t.failed \in BOOLEAN /\ t.holds \in BOOLEAN
  /\ r.mode = "stream" => t.committed = r.committed
  /\ t.run => pc \in Executing \cup {"closing"}
  /\ t.holds => pc # "preparing"
  /\ t = MovedTo(r, StateAt(pc), pc, t.todo, t.committed, t.run, t.failed, t.holds)

(* A move, of a step that names the point it moves to. *)
LEMMA MoveIsGoes ==
  ASSUME NEW r, NEW t, NEW pc, MoveIs(r, t, pc)
  PROVE  Goes(r, t)
BY MoveGoes DEF MoveIs

(* The points a method can move to, and the state at each. *)
LEMMA CalmPoints ==
  /\ \A pc \in {"preparing", "creating", "computing", "delivering", "stopping", "leaving", "closing"} : Calm(pc)
  /\ StateAt("creating") = "preparing" /\ StateAt("computing") = "running" /\ StateAt("delivering") = "running"
  /\ StateAt("stopping") = "running" /\ StateAt("leaving") = "running" /\ StateAt("closing") = "settling"
BY DEF Calm, Points, StateAt, Executing

(* A collecting session reserves its output only when it is left. *)
LEMMA PlannedKeeps ==
  ASSUME IInv, NEW s \in Sessions, Planned(s)
  PROVE  Kept
<1> DEFINE r == ses[s]
<1>1. Sound(r) /\ r \in Record /\ r.pc = "preparing" /\ r.state = "preparing" /\ ~r.holds /\ ~r.run /\ ~r.late
  BY DEF IInv, Sound, Staged, Streamed, Planned, Executing
<1>2. r.todo \in Nat /\ r.committed \in Nat /\ r.failed \in BOOLEAN /\ r.run \in BOOLEAN /\ r.holds \in BOOLEAN
  BY <1>1 DEF Record
<1>3. CASE /\ ~(r.cause # NoCause \/ (r.mode = "collect" /\ Limit[s] > Left))
           /\ Become(s, [r EXCEPT !.pc = "creating", !.holds = (r.mode = "collect")])
           /\ reserved' = reserved + (IF r.mode = "collect" THEN Limit[s] ELSE 0)
  <2>1. PICK t : t = [r EXCEPT !.pc = "creating", !.holds = (r.mode = "collect")]
    OBVIOUS
  <2> DEFINE collects == r.mode = "collect"
  <2>2. collects \in BOOLEAN /\ t = [r EXCEPT !.pc = "creating", !.holds = collects]
    BY <2>1
  <2> HIDE DEF collects
  <2>3. t = MovedTo(r, "preparing", "creating", r.todo, r.committed, r.run, r.failed, collects)
    BY <1>1, <2>2 DEF Record, MovedTo
  <2>4. t.holds = collects
    BY <2>3 DEF MovedTo
  <2>5. Goes(r, t)
    <3>1. MoveIs(r, t, "creating")
      <4>1. /\ t.todo = r.todo /\ t.committed = r.committed /\ t.run = r.run /\ t.failed = r.failed
            /\ t.holds = collects
        BY <2>3 DEF MovedTo
      <4> QED
        BY <1>1, <1>2, <2>2, <2>3, <4>1, CalmPoints DEF MoveIs
    <3> QED
      BY <3>1, MoveIsGoes
  <2>6. CASE ~collects
    <3>1. t.holds = r.holds /\ UNCHANGED reserved
      <4>1. reserved \in Nat
        BY HoldersFinite DEF IInv
      <4> QED
        BY <1>1, <1>3, <2>2, <2>4, <2>6, <4>1 DEF Record, collects
    <3> QED
      BY <1>3, <2>1, <2>5, <3>1, OneKeeps
  <2>7. CASE collects
    <3>1. /\ ses' \in [Sessions -> Record] /\ \A x \in Sessions : Sound(ses'[x])
          /\ ses'[s] = t /\ \A x \in Sessions \ {s} : ses'[x] = ses[x]
          /\ AllFollow
      BY <1>3, <2>1, <2>5, OneGoes
    <3>2. Holders' = Holders \cup {s} /\ s \notin Holders
      BY <1>1, <2>4, <2>7, <3>1 DEF Holders
    <3>3. SumFunctionOnSet(Limit, Holders') = SumFunctionOnSet(Limit, Holders) + Limit[s]
      BY <3>2, HoldersFinite, SumWith
    <3>4. reserved' = reserved + Limit[s] /\ ~(Limit[s] > Capacity - reserved)
      BY <1>3, <2>7 DEF collects, Left
    <3>5. reserved' = SumFunctionOnSet(Limit, Holders') /\ reserved' <= Capacity
      BY <3>3, <3>4, HoldersFinite, BoundsTyped DEF IInv
    <3> QED
      BY <3>1, <3>5 DEF IInv, Kept
  <2> QED
    BY <2>6, <2>7
<1>4. CASE Become(s, Settling([r EXCEPT !.failed = TRUE])) /\ UNCHANGED reserved
  <2>1. PICK t : t = Settling([r EXCEPT !.failed = TRUE])
    OBVIOUS
  <2>2. t = MovedTo(r, "settling", "closing", r.todo, r.committed, r.run, TRUE, r.holds)
    BY <1>1, <2>1 DEF Settling, Record, MovedTo
  <2>3. MoveIs(r, t, "closing")
    <3>1. /\ t.todo = r.todo /\ t.committed = r.committed /\ t.run = r.run /\ t.failed = TRUE
          /\ t.holds = r.holds
      BY <2>2 DEF MovedTo
    <3> QED
      BY <1>1, <1>2, <2>2, <3>1, CalmPoints DEF MoveIs
  <2>4. Goes(r, t) /\ t.holds = r.holds
    BY <2>2, <2>3, MoveIsGoes DEF MovedTo
  <2> QED
    BY <1>4, <2>1, <2>4, OneKeeps
<1> QED
  BY <1>3, <1>4 DEF Planned

(* A step that moves the method and holds what was held. *)
LEMMA MoveKeeps ==
  ASSUME IInv, NEW s \in Sessions, NEW t, Become(s, t), UNCHANGED reserved,
         NEW pc, MoveIs(ses[s], t, pc), t.holds = ses[s].holds
  PROVE  Kept
BY MoveIsGoes, OneKeeps

(* The run has been created, or not. *)
LEMMA CreatedKeeps ==
  ASSUME IInv, NEW s \in Sessions, Created(s)
  PROVE  Kept
<1> DEFINE r == ses[s]
<1>1. Sound(r) /\ r \in Record /\ r.pc = "creating" /\ r.state = "preparing" /\ ~r.late
  BY DEF IInv, Sound, Staged, Streamed, Created, Executing
<1>2. r.todo \in Nat /\ r.committed \in Nat /\ r.failed \in BOOLEAN /\ r.holds \in BOOLEAN /\ r.run \in BOOLEAN /\ ~r.run
  BY <1>1 DEF Sound, Staged, Record, Executing
<1>3. CASE Become(s, [r EXCEPT !.pc = "computing", !.state = "running", !.run = TRUE])
  <2>1. PICK t : t = [r EXCEPT !.pc = "computing", !.state = "running", !.run = TRUE]
    OBVIOUS
  <2>2. t = MovedTo(r, "running", "computing", r.todo, r.committed, TRUE, r.failed, r.holds)
    BY <1>1, <2>1 DEF Record, MovedTo
  <2>3. MoveIs(r, t, "computing")
    <3>1. /\ t.todo = r.todo /\ t.committed = r.committed /\ t.run = TRUE /\ t.failed = r.failed
          /\ t.holds = r.holds
      BY <2>2 DEF MovedTo
    <3> QED
      BY <1>1, <1>2, <2>2, <3>1, CalmPoints DEF MoveIs, Executing
  <2> QED
    BY <1>3, <2>1, <2>2, <2>3, MoveKeeps DEF MovedTo, Created
<1>4. ASSUME NEW u, u \in {[r EXCEPT !.failed = TRUE, !.run = TRUE], [r EXCEPT !.failed = TRUE]}, Become(s, Settling(u))
      PROVE  Kept
  <2>1. PICK t : t = Settling(u)
    OBVIOUS
  <2>2. \E run \in BOOLEAN : t = MovedTo(r, "settling", "closing", r.todo, r.committed, run, TRUE, r.holds)
    <3>1. CASE u = [r EXCEPT !.failed = TRUE, !.run = TRUE]
      <4>1. t = MovedTo(r, "settling", "closing", r.todo, r.committed, TRUE, TRUE, r.holds)
        BY <1>1, <2>1, <3>1 DEF Settling, Record, MovedTo
      <4> QED
        BY <4>1
    <3>2. CASE u = [r EXCEPT !.failed = TRUE]
      <4>1. t = MovedTo(r, "settling", "closing", r.todo, r.committed, r.run, TRUE, r.holds)
        BY <1>1, <2>1, <3>2 DEF Settling, Record, MovedTo
      <4> QED
        BY <1>2, <4>1
    <3> QED
      BY <1>4, <3>1, <3>2
  <2>3. MoveIs(r, t, "closing") /\ t.holds = r.holds
    <3>1. PICK run \in BOOLEAN : t = MovedTo(r, "settling", "closing", r.todo, r.committed, run, TRUE, r.holds)
      BY <2>2
    <3>2. /\ t.todo = r.todo /\ t.committed = r.committed /\ t.run = run /\ t.failed = TRUE
          /\ t.holds = r.holds
      BY <3>1 DEF MovedTo
    <3> QED
      BY <1>1, <1>2, <3>1, <3>2, CalmPoints DEF MoveIs
  <2> QED
    BY <1>4, <2>1, <2>3, MoveKeeps DEF Created
<1> QED
  BY <1>3, <1>4 DEF Created

(* A publication begins. *)
LEMMA PublishKeeps ==
  ASSUME IInv, NEW s \in Sessions, NEW n \in Pieces, Publish(s, n)
  PROVE  Kept
<1> DEFINE r == ses[s]
<1>1. /\ Sound(r) /\ r \in Record /\ r.pc = "computing" /\ r.state = "running" /\ n \in Nat
      /\ UNCHANGED reserved
  BY SessionAssumption DEF IInv, Sound, Staged, Publish, Executing
<1>2. /\ r.todo \in Nat /\ r.committed \in Nat /\ r.failed \in BOOLEAN /\ r.holds \in BOOLEAN /\ r.run \in BOOLEAN
      /\ r.mode \in {"stream", "collect", "callback"}
  <2>1. r.mode # "none"
    BY <1>1 DEF Sound, Staged
  <2> QED
    BY <1>1, <2>1 DEF Record
<1>3. CASE r.cause # NoCause
  <2>1. PICK t : t = Throw(r)
    OBVIOUS
  <2>2. Become(s, t)
    BY <1>3, <2>1 DEF Publish
  <2>3. t = MovedTo(r, "running", "leaving", 0, r.committed, r.run, TRUE, r.holds)
    BY <1>1, <2>1 DEF Throw, Record, MovedTo
  <2>4. MoveIs(r, t, "leaving") /\ t.holds = r.holds
    BY <1>1, <1>2, <2>3, CalmPoints DEF MoveIs, MovedTo, Executing
  <2> QED
    BY <1>1, <2>2, <2>4, MoveKeeps
<1>4. CASE r.cause = NoCause /\ r.mode = "stream"
  <2>1. PICK x : x = [r EXCEPT !.todo = n]
    OBVIOUS
  <2>2. x = MovedTo(r, "running", "computing", n, r.committed, r.run, r.failed, r.holds)
    BY <1>1, <2>1 DEF Record, MovedTo
  <2>3. MoveIs(r, x, "computing")
    <3>1. /\ x.todo = n /\ x.committed = r.committed /\ x.run = r.run /\ x.failed = r.failed
          /\ x.holds = r.holds
      BY <2>2 DEF MovedTo
    <3> QED
      BY <1>1, <1>2, <2>2, <3>1, CalmPoints DEF MoveIs, Executing
  <2>4. Sound(x)
    BY <2>3, MoveIsGoes DEF Goes
  <2>5. x.pc \in Executing /\ x.mode = "stream" /\ x.holds = r.holds
    BY <1>4, <2>2 DEF MovedTo, Executing
  <2>6. Sound(Space(x)) /\ Same(x, Space(x)) /\ Space(x).holds = x.holds
    BY <2>4, <2>5, SpaceGoes DEF Sound, Queued, Streamed, Timed
  <2>7. Follows(r, Space(x))
    <3>1. Committed(x) = Committed(r) /\ x.queue = r.queue /\ x.got = r.got /\ Phase(x) = Phase(r)
      BY <2>2 DEF Committed, Phase, MovedTo
    <3> QED
      BY <2>6, <3>1 DEF Same, Follows, Stays
  <2>8. Become(s, Space(x))
    BY <1>1, <1>4, <2>1 DEF Publish
  <2> QED
    BY <1>1, <2>5, <2>6, <2>7, <2>8, OneKeeps DEF Goes
<1>5. CASE r.cause = NoCause /\ r.mode \in {"collect", "callback"}
  <2> DEFINE pc == IF r.mode = "collect" THEN "computing" ELSE "delivering"
  <2>1. PICK t : /\ Become(s, t)
                 /\ \/ r.mode = "collect" /\ t = [r EXCEPT !.committed = @ + n]
                    \/ r.mode = "callback" /\ t = [r EXCEPT !.committed = @ + n, !.pc = "delivering"]
    BY <1>1, <1>5 DEF Publish
  <2>2. t = MovedTo(r, "running", pc, r.todo, r.committed + n, r.run, r.failed, r.holds)
    BY <1>1, <2>1 DEF Record, MovedTo
  <2>3. MoveIs(r, t, pc) /\ t.holds = r.holds
    <3>1. /\ t.todo = r.todo /\ t.committed = r.committed + n /\ t.run = r.run /\ t.failed = r.failed
          /\ t.holds = r.holds
      BY <2>2 DEF MovedTo
    <3>2. pc \in {"computing", "delivering"} /\ ~r.late
      BY <1>1, <1>5 DEF Sound, Streamed
    <3> HIDE DEF pc
    <3>3. r.committed + n \in Nat /\ r.mode # "stream"
      BY <1>1, <1>2, <1>5
    <3> QED
      BY <1>1, <1>2, <2>2, <3>1, <3>2, <3>3, CalmPoints DEF MoveIs, Executing
  <2> QED
    BY <1>1, <2>1, <2>3, MoveKeeps
<1> QED
  BY <1>2, <1>3, <1>4, <1>5

(* The callback has returned. *)
LEMMA DeliveredKeeps ==
  ASSUME IInv, NEW s \in Sessions, Delivered(s)
  PROVE  Kept
<1> DEFINE r == ses[s]
<1>1. /\ Sound(r) /\ r \in Record /\ r.pc = "delivering" /\ r.state = "running" /\ ~r.late
      /\ UNCHANGED reserved
  BY DEF IInv, Sound, Staged, Streamed, Delivered, Executing
<1>2. r.todo \in Nat /\ r.committed \in Nat /\ r.failed \in BOOLEAN /\ r.holds \in BOOLEAN /\ r.run \in BOOLEAN
  BY <1>1 DEF Record
<1>3. ASSUME NEW t, NEW pc \in {"computing", "stopping", "leaving"}, NEW todo \in Nat, NEW failed \in BOOLEAN,
             Become(s, t), t = MovedTo(r, "running", pc, todo, r.committed, r.run, failed, r.holds)
      PROVE  Kept
  <2>1. /\ t.todo = todo /\ t.committed = r.committed /\ t.run = r.run /\ t.failed = failed
        /\ t.holds = r.holds
    BY <1>3 DEF MovedTo
  <2>2. MoveIs(r, t, pc)
    BY <1>1, <1>2, <1>3, <2>1, CalmPoints DEF MoveIs, Executing
  <2> QED
    BY <1>1, <1>3, <2>1, <2>2, MoveKeeps
<1>4. ASSUME NEW pc \in {"computing", "stopping"}, Become(s, [r EXCEPT !.pc = pc])
      PROVE  Kept
  <2>1. PICK t : t = [r EXCEPT !.pc = pc]
    OBVIOUS
  <2>2. t = MovedTo(r, "running", pc, r.todo, r.committed, r.run, r.failed, r.holds)
    BY <1>1, <2>1 DEF Record, MovedTo
  <2>3. Become(s, t)
    BY <1>4, <2>1
  <2> QED
    BY <1>2, <1>3, <2>2, <2>3
<1>5. ASSUME Become(s, Throw(r))
      PROVE  Kept
  <2>1. PICK t : t = Throw(r)
    OBVIOUS
  <2>2. t = MovedTo(r, "running", "leaving", 0, r.committed, r.run, TRUE, r.holds)
    BY <1>1, <2>1 DEF Throw, Record, MovedTo
  <2>3. Become(s, t)
    BY <1>5, <2>1
  <2> QED
    BY <1>2, <1>3, <2>2, <2>3
<1> QED
  BY <1>4, <1>5 DEF Delivered

(* The method settles. *)
LEMMA ExecutedKeeps ==
  ASSUME IInv, NEW s \in Sessions, Executed(s)
  PROVE  Kept
<1> DEFINE r == ses[s]
<1>1. /\ Sound(r) /\ r \in Record /\ r.pc \in {"computing", "stopping", "leaving"} /\ r.state = "running"
      /\ UNCHANGED reserved
  BY DEF IInv, Sound, Staged, Executed, Executing
<1>2. r.todo \in Nat /\ r.committed \in Nat /\ r.failed \in BOOLEAN /\ r.holds \in BOOLEAN /\ r.run \in BOOLEAN
  BY <1>1 DEF Record
<1>3. ASSUME NEW t, NEW failed \in BOOLEAN, Become(s, t),
             t = MovedTo(r, "settling", "closing", r.todo, r.committed, r.run, failed, r.holds)
      PROVE  Kept
  <2>1. /\ t.todo = r.todo /\ t.committed = r.committed /\ t.run = r.run /\ t.failed = failed
        /\ t.holds = r.holds
    BY <1>3 DEF MovedTo
  <2>2. MoveIs(r, t, "closing")
    BY <1>1, <1>2, <1>3, <2>1, CalmPoints DEF MoveIs, Executing
  <2> QED
    BY <1>1, <1>3, <2>1, <2>2, MoveKeeps
<1>4. ASSUME NEW failed \in BOOLEAN, Become(s, Settling([r EXCEPT !.failed = failed]))
      PROVE  Kept
  <2>1. PICK t : t = Settling([r EXCEPT !.failed = failed])
    OBVIOUS
  <2>2. t = MovedTo(r, "settling", "closing", r.todo, r.committed, r.run, failed, r.holds)
    BY <1>1, <2>1 DEF Settling, Record, MovedTo
  <2>3. Become(s, t)
    BY <1>4, <2>1
  <2> QED
    BY <1>3, <2>2, <2>3
<1>5. ASSUME Become(s, Settling(r))
      PROVE  Kept
  <2>1. PICK t : t = Settling(r)
    OBVIOUS
  <2>2. t = MovedTo(r, "settling", "closing", r.todo, r.committed, r.run, r.failed, r.holds)
    BY <1>1, <2>1 DEF Settling, Record, MovedTo
  <2>3. Become(s, t)
    BY <1>5, <2>1
  <2> QED
    BY <1>2, <1>3, <2>2, <2>3
<1> QED
  BY <1>4, <1>5 DEF Executed

(* A producer that was waiting looks again, or pushes. *)
LEMMA RoomKeeps ==
  ASSUME IInv, NEW s \in Sessions, Unblocked(s) \/ Push(s)
  PROVE  Kept
<1> DEFINE r == ses[s]
<1>1. Sound(r) /\ r \in Record
  BY DEF IInv, Sound
<1>2. CASE Unblocked(s)
  <2>1. r.pc = "unblocked" /\ r.pc \in Executing /\ Become(s, Space(r)) /\ UNCHANGED reserved
    BY <1>2 DEF Unblocked, Executing
  <2>2. Sound(Space(r)) /\ Same(r, Space(r)) /\ Space(r).holds = r.holds
    BY <1>1, <2>1, SpaceGoes DEF Sound, Queued, Streamed, Timed
  <2>3. Follows(r, Space(r))
    BY <2>2 DEF Same, Follows, Stays
  <2> QED
    BY <2>1, <2>2, <2>3, OneKeeps DEF Goes
<1>3. CASE Push(s)
  <2>1. r.pc = "pushing" /\ Become(s, AfterPush(r)) /\ UNCHANGED reserved
    BY <1>3 DEF Push, AfterPush, Pushed
  <2> QED
    BY <1>1, <2>1, PushGoes, OneKeeps
<1> QED
  BY <1>2, <1>3

(* The run is closed, and what the session holds released. *)
LEMMA RunClosedKeeps ==
  ASSUME IInv, NEW s \in Sessions, RunClosed(s)
  PROVE  Kept
<1> DEFINE r == ses[s]
<1>1. Sound(r) /\ r \in Record /\ r.pc = "closing"
  BY DEF IInv, Sound, RunClosed
<1>2. \E outcome \in {"completed", "cancelled", "failed"} :
        /\ outcome = "completed" => r.cause = NoCause
        /\ Become(s, Finish([r EXCEPT !.pc = "ended", !.run = FALSE, !.holds = FALSE], outcome))
  <2>1. PICK broken \in BOOLEAN :
          Become(s, Finish([r EXCEPT !.pc = "ended", !.run = FALSE, !.holds = FALSE],
                      CASE broken -> "failed"
                        [] ~broken /\ r.cause # NoCause -> "cancelled"
                        [] ~broken /\ r.cause = NoCause /\ r.failed -> "failed"
                        [] OTHER -> "completed"))
    BY DEF RunClosed
  <2>2. CASE broken \/ (r.cause = NoCause /\ r.failed)
    BY <2>1, <2>2
  <2>3. CASE ~broken /\ r.cause # NoCause
    BY <2>1, <2>3
  <2>4. CASE ~broken /\ r.cause = NoCause /\ ~r.failed
    BY <2>1, <2>4
  <2> QED
    BY <2>2, <2>3, <2>4
<1>3. PICK outcome \in {"completed", "cancelled", "failed"} :
        /\ outcome = "completed" => r.cause = NoCause
        /\ Become(s, Finish([r EXCEPT !.pc = "ended", !.run = FALSE, !.holds = FALSE], outcome))
  BY <1>2
<1>4. PICK t : t = Finish([r EXCEPT !.pc = "ended", !.run = FALSE, !.holds = FALSE], outcome)
  OBVIOUS
<1>5. Goes(r, t) /\ ~t.holds /\ Become(s, t)
  BY <1>1, <1>3, <1>4, FinishIs, FinishGoes, ZenonT(60)
<1>6. /\ ses' \in [Sessions -> Record] /\ \A x \in Sessions : Sound(ses'[x])
      /\ ses'[s] = t /\ \A x \in Sessions \ {s} : ses'[x] = ses[x]
      /\ AllFollow
  BY <1>5, OneGoes
<1>7. Holders' = Holders \ {s}
  BY <1>5, <1>6 DEF Holders
<1>8. reserved' = SumFunctionOnSet(Limit, Holders') /\ reserved' <= Capacity
  <2>1. CASE r.holds
    <3>1. s \in Holders /\ reserved' = reserved - Limit[s]
      BY <2>1 DEF Holders, RunClosed
    <3>2. SumFunctionOnSet(Limit, Holders) = Limit[s] + SumFunctionOnSet(Limit, Holders')
      BY <1>7, <3>1, HoldersFinite, SumWithout
    <3>3. SumFunctionOnSet(Limit, Holders') \in Nat /\ Limit[s] \in Nat
      <4>1. IsFiniteSet(Holders') /\ \A x \in Holders' : Limit[x] \in Nat
        BY <1>7, HoldersFinite, FS_Subset
      <4> QED
        BY <4>1, HoldersFinite, SumNat
    <3> QED
      BY <3>1, <3>2, <3>3, BoundsTyped DEF IInv
  <2>2. CASE ~r.holds
    <3>1. Holders' = Holders /\ UNCHANGED reserved
      BY <1>7, <2>2 DEF Holders, RunClosed
    <3> QED
      BY <3>1 DEF IInv
  <2> QED
    BY <2>1, <2>2
<1> QED
  BY <1>6, <1>8 DEF IInv, Kept

(* Every step keeps the invariant and follows the stream of every session. *)
LEMMA StepKeeps ==
  ASSUME IInv, [Next]_vars
  PROVE  Kept
<1>1. CASE UNCHANGED vars
  <2>1. UNCHANGED <<ses, reserved>> /\ Holders' = Holders
    BY <1>1 DEF vars, Holders
  <2> QED
    BY <2>1, FollowsItself DEF IInv, Kept, AllFollow
<1>2. CASE Close
  BY <1>2, CloseKeeps
<1>3. ASSUME NEW s \in Sessions,
             \/ \E mode \in Modes[s] : Open(s, mode)
             \/ Cancel(s) \/ ReaderNext(s) \/ (\E n \in Pieces : Publish(s, n)) \/ Machine(s)
      PROVE  Kept
  BY <1>3, ConsumerKeeps, PlannedKeeps, CreatedKeeps, PublishKeeps, DeliveredKeeps, ExecutedKeeps, RoomKeeps,
    RunClosedKeeps DEF Machine
<1> QED
  BY <1>1, <1>2, <1>3 DEF Next

(* The invariant holds at first. *)
LEMMA InvInit == Init => IInv
<1> SUFFICES ASSUME Init
             PROVE  IInv
  OBVIOUS
<1>1. \A s \in Sessions : ses[s] = Unopened
  BY DEF Init
<1>2. ses \in [Sessions -> Record]
  BY UnopenedSound DEF Init
<1>3. Holders = {}
  BY <1>1 DEF Holders, Unopened
<1>4. reserved = SumFunctionOnSet(Limit, Holders) /\ reserved <= Capacity
  BY <1>3, SumEmpty, BoundsTyped DEF Init
<1> QED
  BY <1>1, <1>2, <1>4, UnopenedSound DEF IInv

-----------------------------------------------------------------------------
(* Every session is sound in itself, and the reservations add up.          *)
THEOREM Invariant == Spec => []IInv
<1>1. IInv /\ [Next]_vars => IInv'
  BY StepKeeps DEF Kept
<1> QED
  BY <1>1, InvInit, PTL DEF Spec

(* The queue keeps both its bounds and its count, whatever is cancelled,   *)
(* read or pushed between the check for room and the push that follows.    *)
THEOREM QueueIsBounded == Spec => []QueueBounded
<1>1. IInv => QueueBounded
  BY DEF IInv, Sound, Queued, QueueBounded
<1> QED
  BY <1>1, Invariant, PTL

(* The idle timer runs while the consumer is waited for, and only then.    *)
THEOREM TimerIsRight == Spec => []IdleTimerRight
<1>1. IInv => IdleTimerRight
  BY DEF IInv, Sound, Timed, Streamed, IdleTimerRight
<1> QED
  BY <1>1, Invariant, PTL

(* The end of the stream is told only when the session has ended, and      *)
(* after every token of one that completed; nobody waits for more.         *)
THEOREM EndIsRight == Spec => []EndIsTheEnd
<1>1. IInv => EndIsTheEnd
  <2> SUFFICES ASSUME IInv, NEW s \in Sessions
               PROVE  LET r == ses[s] IN
                        /\ r.reader = "done" => r.state = "terminal"
                        /\ r.reader = "done" /\ r.outcome = "completed" => r.got = [i \in 1 .. r.committed |-> i]
                        /\ r.reader = "waiting" => r.queue = <<>> /\ r.state # "terminal"
    BY DEF EndIsTheEnd
  <2> DEFINE r == ses[s]
  <2>1. Sound(r) /\ r \in Record
    BY DEF IInv
  <2>2. ASSUME r.reader = "done", r.outcome = "completed"
        PROVE  r.got = Numbers(r.committed)
    <3>1. r.cause = NoCause /\ r.mode = "stream" /\ r.queue = <<>>
      BY <2>1, <2>2 DEF Sound, Staged, Queued, Streamed
    <3>2. r.got \o Flat(r.queue) = r.got
      <4>1. r.got \in Seq(Nat)
        BY <2>1 DEF Record
      <4> QED
        BY <3>1, <4>1, FlatNone, ConcatEmptySeq
    <3> QED
      BY <2>1, <3>1, <3>2 DEF Sound, Streamed
  <2> QED
    BY <2>1, <2>2 DEF Sound, Streamed, Numbers
<1> QED
  BY <1>1, Invariant, PTL

(* A session that is terminal holds nothing, and the reserved output is    *)
(* that of the sessions that hold some, within the engine's capacity.      *)
THEOREM TerminalIsFree == Spec => []TerminalHoldsNothing
<1>1. IInv => TerminalHoldsNothing
  <2> SUFFICES ASSUME IInv
               PROVE  TerminalHoldsNothing
    OBVIOUS
  <2>1. ASSUME NEW s \in Sessions, ses[s].state = "terminal"
        PROVE  ~ses[s].run /\ ~ses[s].holds /\ ses[s].pc \in {"none", "ended"}
    <3>1. Sound(ses[s]) /\ ses[s] \in Record
      BY DEF IInv
    <3>2. ses[s].pc \in {"none", "ended"}
      BY <2>1, <3>1 DEF Sound, Staged, Record, Points
    <3> QED
      BY <3>1, <3>2 DEF Sound, Staged, Executing
  <2>2. reserved = SumFunctionOnSet(Limit, {s \in Sessions : ses[s].holds}) /\ reserved <= Capacity
    BY DEF IInv, Holders
  <2> QED
    BY <2>1, <2>2 DEF TerminalHoldsNothing
<1> QED
  BY <1>1, Invariant, PTL

(* Refinement: what the consumer gets of every session is what TokenStream *)
(* promises, step by step: each committed token once, in order and none    *)
(* missing until a cancellation, and one more commit at the most after it. *)
THEOREM DeliversTheStream == Spec => ImplementsStream
<1>1. Init => \A s \in Sessions : Stream(s)!Init
  <2> SUFFICES ASSUME Init, NEW s \in Sessions
               PROVE  Stream(s)!Init
    OBVIOUS
  <2>1. ses[s] = Unopened
    BY DEF Init
  <2>2. Committed(ses[s]) = 0 /\ Flat(ses[s].queue) = <<>> /\ ses[s].got = <<>> /\ Phase(ses[s]) = "whole"
    BY <2>1, FlatNone DEF Unopened, Committed, Phase
  <2> QED
    BY <2>2 DEF Stream!Init, Committed, Phase
<1>2. IInv /\ [Next]_vars => [\A s \in Sessions : [Stream(s)!Next]_(Stream(s)!vars)]_vars
  <2> SUFFICES ASSUME IInv, [Next]_vars, NEW s \in Sessions
               PROVE  [Stream(s)!Next]_(Stream(s)!vars)
    OBVIOUS
  <2> QED
    BY StepKeeps, FollowsIsStep DEF Kept, AllFollow
<1> QED
  BY <1>1, <1>2, Invariant, PTL DEF Spec, ImplementsStream
=============================================================================
