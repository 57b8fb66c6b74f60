---------------------------- MODULE Checkpoints ----------------------------
(***************************************************************************)
(* Generation checkpoints: packages/inference/src/state/                   *)
(* continuation-persistence.ts over its SpillQueue (persistence.ts) and    *)
(* the checkpoint files of ssd-cache.ts, driven by cache-service.ts.       *)
(*                                                                         *)
(* A request that can be resumed opens an attempt under its key and writes *)
(* a checkpoint now and then, one file at a time, through a queue that     *)
(* sheds the oldest when it is full.  A completed response's files are     *)
(* unlinked through the same queue; until then its key restores nothing.   *)
(* The files share one store, and its cap, with the saved prefixes: every  *)
(* store of either kind may evict what is oldest, whosever it is.          *)
(* The process may crash: the files stay, everything else is gone.         *)
(***************************************************************************)
EXTENDS Naturals, Sequences, FiniteSets

CONSTANTS
  Attempts,     \* the attempts of requests, each used once
  KeyOf,        \* the key of each
  Cap,          \* maxBytes, in checkpoints
  Versions,     \* bound: the checkpoints each attempt writes
  MaxCrashes,   \* bound: crashes
  NoAttempt

ASSUME CheckpointsAssumption == NoAttempt \notin Attempts

VARIABLES
  request,     \* the lease of each attempt's request
  attempts,    \* #attempts: the attempt each key's checkpoints belong to
  pending, lagging, version,   \* ContinuationAttempt: pending, failed, version
  spills,      \* the SpillQueue: writes and unlinks, in order
  writing,     \* what its head is doing
  files,       \* the checkpoint files: <<attempt, version>>
  evicted,     \* history: those evictToCap took since the start
  unlinking, unlinkFailed, unlinked, barriers,  \* #cleanupPending, #cleanupFailures, #cleanupSucceeded, #nextBarrier
  finished,    \* the attempts completed while they had their key, since the start
  kept,        \* the version of each attempt's last write that succeeded
  crashes

ram == <<request, attempts, pending, lagging, version, unlinking, unlinkFailed, unlinked, barriers>>
checkpointVars == <<ram, spills, writing, files, evicted, finished, kept, crashes>>

Keys == {KeyOf[a] : a \in Attempts}

Write(a, v) == [attempt |-> a, version |-> v, barrier |-> 0]
Unlink(a, b) == [attempt |-> a, version |-> 0, barrier |-> b]
IsWrite(s) == s.barrier = 0

\* What a fresh process knows of each key, and of each attempt.
Fresh == [attempt |-> [k \in Keys |-> NoAttempt], none |-> [k \in Keys |-> {}], zero |-> [k \in Keys |-> 0]]
Zeros == [a \in Attempts |-> 0]

CheckpointsInit ==
  /\ request = [a \in Attempts |-> "none"] /\ attempts = Fresh.attempt
  /\ pending = Zeros /\ lagging = [a \in Attempts |-> FALSE] /\ version = Zeros /\ kept = Zeros
  /\ unlinking = Fresh.none /\ unlinkFailed = Fresh.none /\ unlinked = Fresh.zero /\ barriers = 0
  /\ spills = <<>> /\ writing = "no" /\ files = {} /\ evicted = {} /\ finished = {} /\ crashes = 0

FilesOf(k) == {f \in files : KeyOf[f[1]] = k}

\* A resumed request may look for a checkpoint under this key.
CanRestore(k) == unlinking[k] = {} /\ unlinkFailed[k] = {}

----------------------------------------------------------------------------
(* The SpillQueue.                                                         *)

\* Whoever is neither in flight nor excepted can be dropped; unlinks cannot.
Droppable(q, except) ==
  {i \in 1 .. Len(q) : IsWrite(q[i]) /\ i # except /\ ~(i = 1 /\ writing # "no")}

Bytes(q) == Cardinality({i \in 1 .. Len(q) : IsWrite(q[i])})

\* What the new last entry displaces: the oldest, down to the cap.
Shed(q) ==
  LET d == Droppable(q, Len(q))
  IN {i \in d : Cardinality({j \in d : j <= i}) <= Bytes(q) - Cap}

Drop(q, dropped) ==
  LET keep == {i \in 1 .. Len(q) : i \notin dropped}
      nth(n) == CHOOSE i \in keep : Cardinality({j \in keep : j <= i}) = n
  IN [n \in 1 .. Cardinality(keep) |-> q[nth(n)]]

----------------------------------------------------------------------------
(* The answer to a write: enqueue's continuation.                          *)

\* Bug: an older write's answer counts as the latest one's.
AnsweredLast(s, stored, rq) == [a \in Attempts |->
  IF (\E w \in s : w.attempt = a) /\ rq[a] # "completed" THEN ~stored ELSE lagging[a]]

\* The write of an attempt's latest version tells whether it lags behind.
Answered(s, stored, rq) == [a \in Attempts |->
  IF (\E w \in s : w.attempt = a /\ w.version = version[a]) /\ rq[a] # "completed"
    THEN ~stored ELSE lagging[a]]

Counted(s) == [a \in Attempts |-> pending[a] - Cardinality({w \in s : w.attempt = a})]

\* #releaseSettled, for the attempts of the writes answered.
ReleaseSettled(s, cur, rq) == [k \in Keys |->
  LET a == cur[k] IN
    IF a # NoAttempt /\ (\E w \in s : w.attempt = a) /\ rq[a] = "released"
       /\ pending'[a] = 0 /\ ~lagging'[a] THEN NoAttempt ELSE a]

\* The writes s are answered, given what #attempts and the requests have become.
Answer(s, stored, cur, rq) ==
  /\ pending' = Counted(s) /\ lagging' = Answered(s, stored, rq)
  /\ attempts' = ReleaseSettled(s, cur, rq)

----------------------------------------------------------------------------
(* The requests.                                                           *)

\* begin: the attempt takes its key over, and what others queued is dropped.
Begin(a) ==
  LET dropped == {i \in Droppable(spills, 0) : KeyOf[spills[i].attempt] = KeyOf[a]}
      rq == [request EXCEPT ![a] = "running"]
  IN
    /\ request[a] = "none" /\ request' = rq
    /\ spills' = Drop(spills, dropped)
    /\ Answer({spills[i] : i \in dropped}, FALSE, [attempts EXCEPT ![KeyOf[a]] = a], rq)
    /\ UNCHANGED <<version, writing, files, evicted, unlinking, unlinkFailed, unlinked, barriers, finished, kept, crashes>>

\* enqueue: a checkpoint of an attempt that lost its key is declined.
Checkpoint(a) ==
  LET v == version[a] + 1
      q == Append(spills, Write(a, v))
      gone == {q[i] : i \in Shed(q)}
  IN
    /\ request[a] = "running" /\ attempts[KeyOf[a]] = a /\ v <= Versions[a]
    /\ version' = [version EXCEPT ![a] = v]
    /\ spills' = Drop(q, Shed(q))
    /\ pending' = [Counted(gone) EXCEPT ![a] = @ + 1]
    /\ lagging' = [b \in Attempts |->
         IF b = a THEN lagging[b] ELSE Answered(gone, FALSE, request)[b]]
    /\ attempts' = ReleaseSettled(gone, attempts, request)
    /\ UNCHANGED <<request, writing, files, evicted, unlinking, unlinkFailed, unlinked, barriers, finished, kept, crashes>>

\* Bug: the key restores again before the files are gone.
CompleteQuietly(a) ==
  LET k == KeyOf[a]
      own == {i \in Droppable(spills, 0) : spills[i].attempt = a}
      q == Append(Drop(spills, own), Unlink(a, barriers + 1))
      rq == [request EXCEPT ![a] = "completed"]
  IN
    /\ request[a] = "running" /\ attempts[k] = a
    /\ request' = rq /\ spills' = q /\ barriers' = barriers + 1 /\ finished' = finished \cup {a}
    /\ Answer({spills[i] : i \in own}, FALSE, [attempts EXCEPT ![k] = NoAttempt], rq)
    /\ UNCHANGED <<version, writing, files, evicted, unlinking, unlinkFailed, unlinked, kept, crashes>>

\* complete: its queued writes are dropped; while it has its key, the key is
\* closed and an unlink queued, which may displace others.
Complete(a) ==
  LET k == KeyOf[a]
      own == {i \in Droppable(spills, 0) : spills[i].attempt = a}
      left == Drop(spills, own)
      q == Append(left, Unlink(a, barriers + 1))
      gone == {spills[i] : i \in own} \cup {q[i] : i \in Shed(q)}
      rq == [request EXCEPT ![a] = "completed"]
  IN
    /\ request[a] = "running" /\ request' = rq
    /\ IF attempts[k] = a
         THEN /\ spills' = Drop(q, Shed(q)) /\ barriers' = barriers + 1
              /\ unlinking' = [unlinking EXCEPT ![k] = @ \cup {barriers + 1}]
              /\ finished' = finished \cup {a}
              /\ Answer(gone, FALSE, [attempts EXCEPT ![k] = NoAttempt], rq)
         ELSE /\ spills' = left /\ Answer({spills[i] : i \in own}, FALSE, attempts, rq)
              /\ UNCHANGED <<unlinking, barriers, finished>>
    /\ UNCHANGED <<version, writing, files, evicted, unlinkFailed, unlinked, kept, crashes>>

\* release: a request cancelled or disposed keeps what it queued and wrote.
Release(a) ==
  LET k == KeyOf[a] IN
    /\ request[a] = "running" /\ request' = [request EXCEPT ![a] = "released"]
    /\ attempts' = IF attempts[k] = a /\ pending[a] = 0 /\ ~lagging[a]
                     THEN [attempts EXCEPT ![k] = NoAttempt] ELSE attempts
    /\ UNCHANGED <<pending, lagging, version, spills, writing, files, evicted,
                   unlinking, unlinkFailed, unlinked, barriers, finished, kept, crashes>>

----------------------------------------------------------------------------
(* The queue's turn: its head is written or unlinked.                      *)

\* current(): the attempt still has its key.
Current(s) == attempts[KeyOf[s.attempt]] = s.attempt /\ request[s.attempt] # "completed"

Done(stored) ==
  /\ spills' = Tail(spills) /\ writing' = "no"
  /\ Answer({Head(spills)}, stored, attempts, request)

\* Bug: the older checkpoints go before the new one is there.
StartWriteMakingRoom ==
  /\ spills # <<>> /\ writing = "no" /\ IsWrite(Head(spills)) /\ Current(Head(spills))
  /\ writing' = "storing" /\ files' = files \ FilesOf(KeyOf[Head(spills).attempt])
  /\ UNCHANGED <<ram, spills, evicted, finished, kept, crashes>>

\* A checkpoint nobody wants any more is not written; it counts as stored.
StartWrite ==
  /\ spills # <<>> /\ writing = "no" /\ IsWrite(Head(spills))
  /\ IF Current(Head(spills))
       THEN writing' = "storing" /\ UNCHANGED <<attempts, pending, lagging, spills>>
       ELSE Done(TRUE)
  /\ UNCHANGED <<request, version, files, evicted, unlinking, unlinkFailed, unlinked, barriers, finished, kept, crashes>>

\* The CPU worker has written and renamed the file; the parent does not know.
Renamed ==
  /\ writing = "storing" /\ writing' = "renamed"
  /\ files' = files \cup {<<Head(spills).attempt, Head(spills).version>>}
  /\ UNCHANGED <<ram, spills, evicted, finished, kept, crashes>>

\* A full disk, or a file over the store's limit.
WriteFails ==
  /\ writing \in {"storing", "renamed"} /\ Done(FALSE)
  /\ files' = files \ {<<Head(spills).attempt, Head(spills).version>>}
  /\ UNCHANGED <<request, version, evicted, unlinking, unlinkFailed, unlinked, barriers, finished, kept, crashes>>

\* evictToCap: whatever else is in the index may go, of any attempt; which are
\* the oldest, and how many must go, depends on dates and sizes.
EvictToCap(left, lost) ==
  /\ lost \subseteq left /\ files' = left \ lost /\ evicted' = evicted \cup lost

\* The older files of the key go; so does the new one if its attempt is over.
Landing(mine, file) ==
  (files \ FilesOf(KeyOf[mine.attempt])) \cup (IF Current(mine) THEN {file} ELSE {})

Stored ==
  LET h == Head(spills)
      file == <<h.attempt, h.version>>
  IN
    /\ writing = "renamed"
    /\ \E lost \in SUBSET (files \ FilesOf(KeyOf[h.attempt])) :
         \/ Done(TRUE) /\ EvictToCap(Landing(h, file), lost)
         \/ \* the hook that the removal runs in fails
            /\ ~Current(h) /\ Done(FALSE)
            /\ EvictToCap((files \ FilesOf(KeyOf[h.attempt])) \cup {file}, lost)
    /\ kept' = [kept EXCEPT ![h.attempt] = IF Current(h) THEN h.version ELSE @]
    /\ UNCHANGED <<request, version, unlinking, unlinkFailed, unlinked, barriers, finished, crashes>>

\* A saved prefix is stored under the same cap: it takes any checkpoint that is
\* in the index, which the file just renamed is not yet.
PrefixStored ==
  LET new == {f \in files : writing = "renamed" /\ f = <<Head(spills).attempt, Head(spills).version>>}
  IN
    /\ \E lost \in (SUBSET (files \ new)) \ {{}} : EvictToCap(files, lost)
    /\ UNCHANGED <<ram, spills, writing, finished, kept, crashes>>

\* The unlink of a completed response: it covers the failures before it, and
\* the key opens when no other is outstanding.  The hook it runs in may fail.
Unlinked ==
  LET h == Head(spills)
      k == KeyOf[h.attempt]
      left == unlinking[k] \ {h.barrier}
  IN
    /\ spills # <<>> /\ writing = "no" /\ ~IsWrite(h)
    /\ spills' = Tail(spills)
    /\ unlinking' = [unlinking EXCEPT ![k] = left]
    /\ \/ /\ files' = files \ FilesOf(k)
          /\ unlinkFailed' = [unlinkFailed EXCEPT ![k] = {b \in @ : b > h.barrier}]
          /\ unlinked' = [unlinked EXCEPT ![k] = IF left = {} THEN 0 ELSE h.barrier]
       \/ /\ UNCHANGED files
          /\ unlinkFailed' = [unlinkFailed EXCEPT ![k] =
                                IF h.barrier > unlinked[k] THEN @ \cup {h.barrier} ELSE @]
          /\ unlinked' = [unlinked EXCEPT ![k] = IF left = {} THEN 0 ELSE @]
    /\ UNCHANGED <<request, attempts, pending, lagging, version, writing, evicted, barriers, finished, kept, crashes>>

\* The process dies; the store's scan finds the files again.
Crash ==
  /\ crashes < MaxCrashes /\ crashes' = crashes + 1
  /\ request' = [a \in Attempts |-> IF request[a] = "none" THEN "none" ELSE "released"]
  /\ attempts' = Fresh.attempt
  /\ pending' = Zeros /\ lagging' = [a \in Attempts |-> FALSE] /\ version' = Zeros /\ kept' = Zeros
  /\ unlinking' = Fresh.none /\ unlinkFailed' = Fresh.none /\ unlinked' = Fresh.zero /\ barriers' = 0
  /\ spills' = <<>> /\ writing' = "no" /\ finished' = {} /\ evicted' = {} /\ UNCHANGED files

QueueStep == StartWrite \/ Renamed \/ WriteFails \/ Stored \/ Unlinked

CheckpointsNext ==
  \/ \E a \in Attempts : Begin(a) \/ Checkpoint(a) \/ Complete(a) \/ Release(a)
  \/ QueueStep \/ PrefixStored
  \/ Crash

CheckpointsSpec == CheckpointsInit /\ [][CheckpointsNext]_checkpointVars

\* The writer answers; no request is obliged to anything.
CheckpointsFairness == WF_checkpointVars(QueueStep)
CheckpointsFairSpec == CheckpointsSpec /\ CheckpointsFairness

----------------------------------------------------------------------------
(* Properties.                                                             *)

\* "A completed response is ineligible immediately, before queued unlink": as
\* long as a file of a response that completed is there, its key restores
\* nothing, whatever was in flight, failed, or began meanwhile.
CompletedIsIneligible ==
  \A f \in files : f[1] \in finished => ~CanRestore(KeyOf[f[1]])

\* flush's verdict: no attempt has a write outstanding or lost.
Durable == \A k \in Keys : LET a == attempts[k] IN
  /\ unlinkFailed[k] = {}
  /\ a # NoAttempt => pending[a] = 0 /\ ~lagging[a]

\* What is on disk, and what the cap of the shared store took from it since the
\* start.
Landed == files \cup evicted

\* What flush calls durable has reached the disk: nothing but the store's cap can
\* have taken the latest checkpoint of an attempt that has its key, no shedding,
\* no failed write and no other attempt's answer (ContinuationPersistence.flush,
\* SpillQueue, evictToCap).
DurableIsStored ==
  Durable => \A k \in Keys : LET a == attempts[k] IN
    a # NoAttempt /\ version[a] > 0 => <<a, version[a]>> \in Landed

\* "a crash during a write leaves the prior point": once an attempt has stored a
\* checkpoint there is one at least as new on disk, until it completes, another
\* attempt takes its key, or the store's cap takes the file; the write of a newer
\* one never does (storeGenerationCheckpoint, evictToCap).
PriorPointStays ==
  \A k \in Keys : LET a == attempts[k] IN
    a # NoAttempt /\ kept[a] > 0 => \E v \in kept[a] .. version[a] : <<a, v>> \in Landed

\* Every write is answered, and every key opens again or has failed to unlink.
WritesAreAnswered ==
  /\ \A a \in Attempts : pending[a] > 0 ~> pending[a] = 0
  /\ \A k \in Keys : unlinking[k] # {} ~> unlinking[k] = {}
=============================================================================
