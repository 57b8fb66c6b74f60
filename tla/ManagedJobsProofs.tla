------------------------- MODULE ManagedJobsProofs -------------------------
(***************************************************************************)
(* Proofs about ManagedJobs, for any jobs, stubborn or not, any restart    *)
(* budget and any number of workers.                                       *)
(*                                                                         *)
(* Every step is a step of the runner or leaves its variables alone, and   *)
(* likewise of the worker's supervisor.  What each keeps by itself is      *)
(* proved of its own actions; Linked ties a job's place to its lease.      *)
(***************************************************************************)
EXTENDS ManagedJobs, CollectionFacts

USE JobsAssumption

(* An instance has copies of the operators its module extends. *)
LEMMA RunnerWithout == \A q, g : R!Without(q, g) = Without(q, g)
BY DEF R!Without, Without

(* The jobs the runner finds in its queue are the members of it. *)
LEMMA RunnerRange ==
  ASSUME NEW q \in Seq(Jobs)
  PROVE  R!Range(q) = Members(q)
<1>1. DOMAIN q = 1..Len(q)
  OBVIOUS
<1> QED
  BY <1>1 DEF R!Range, Members

-----------------------------------------------------------------------------
(***************************************************************************)
(* The runner.                                                             *)
(***************************************************************************)
Places == {"none", "queued", "reserved", "acquiring", "arriving", "running", "exited", "ended"}
JobRecord == [at : Places, row : {"none", "open", "done", "failed"},
              lease : BOOLEAN, aborted : BOOLEAN, finished : BOOLEAN]

(* The job has the GPU, or waits for the lease of it. *)
HasTurn(r) ==
  \/ r.at \in {"reserved", "acquiring", "arriving"}
  \/ r.at \in {"running", "exited"} /\ ~r.finished

(* How a job's record, the queue and the holder of the GPU agree. *)
Standing(q, h, r, j) ==
  /\ r.at = "queued" <=> j \in Members(q)
  /\ h = j <=> HasTurn(r)
  /\ r.lease <=> r.at \in {"running", "exited"} /\ ~r.finished
  /\ r.finished => r.at = "ended" \/ (r.at \in {"running", "exited"} /\ j \in Stubborn)
  /\ r.at = "none" <=> r.row = "none"
  /\ r.at \in {"queued", "reserved", "acquiring", "arriving"} => r.row = "open"
  /\ r.at = "ended" => r.finished /\ r.row # "open"

Sound(q, h, js) ==
  /\ q \in Seq(Jobs) /\ Distinct(q)
  /\ h \in Jobs \cup {NoJob}
  /\ js \in [Jobs -> JobRecord]
  /\ \A j \in Jobs : Standing(q, h, js[j], j)

JobsSound == Sound(queue, holder, job) /\ active = holder

(* What is known of the job a caller stops. *)
StopsSound ==
  /\ stop \in [R!Callers -> {"none", "exit", "finished", "done"}]
  /\ target \in Jobs \cup {NoJob} /\ shut \in BOOLEAN
  /\ ~shut => stop[Host] = "none"
  /\ stop[Host] \in {"exit", "finished"} => target \in Jobs
  /\ \A c \in R!Callers : stop[c] = "done" /\ R!Stops(c) # NoJob => job[R!Stops(c)].finished

(* A job whose lease has been asked for, or granted. *)
Asks(r) == r.at = "acquiring"
Owns(r) == r.lease \/ r.at = "arriving"
Alike(r, s) == (Asks(r) <=> Asks(s)) /\ (Owns(r) <=> Owns(s))

(* Drain gives the first job of the queue its turn, and changes no other. *)
LEMMA DrainKeeps ==
  ASSUME NEW q, NEW h, NEW js, Sound(q, h, js), R!Drain(q, h, h, js)
  PROVE  /\ JobsSound'
         /\ \A j \in Jobs : /\ job'[j].row = js[j].row /\ job'[j].finished = js[j].finished
                            /\ Alike(job'[j], js[j])
<1>1. CASE ~(h = NoJob /\ q # <<>>)
  BY <1>1 DEF R!Drain, JobsSound, Sound, Alike
<1>2. CASE h = NoJob /\ q # <<>>
  <2> DEFINE n == Head(q)
  <2>1. q \in Seq(Jobs) /\ Distinct(q) /\ js \in [Jobs -> JobRecord]
    BY DEF Sound
  <2>2. /\ n \in Jobs /\ n \in Members(q) /\ Tail(q) \in Seq(Jobs) /\ Distinct(Tail(q))
        /\ Members(q) = Members(Tail(q)) \cup {n} /\ n \notin Members(Tail(q))
    BY <1>2, <2>1, TailMembers
  <2>3. queue' = Tail(q) /\ holder' = n /\ active' = n /\ job' = [js EXCEPT ![n].at = "reserved"]
    BY <1>2 DEF R!Drain
  <2> HIDE DEF n
  <2>4. \A j \in Jobs \ {n} : job'[j] = js[j]
    BY <2>1, <2>3
  <2>5. job'[n] = [js[n] EXCEPT !.at = "reserved"] /\ js[n] \in JobRecord
    BY <2>1, <2>2, <2>3
  <2>6. /\ job'[n].at = "reserved" /\ job'[n].row = js[n].row /\ job'[n].lease = js[n].lease
        /\ job'[n].finished = js[n].finished /\ job'[n] \in JobRecord
    BY <2>5 DEF JobRecord, Places
  <2>7. job' \in [Jobs -> JobRecord]
    BY <2>1, <2>2, <2>3, <2>6
  <2>8. Standing(q, h, js[n], n)
    BY <2>2 DEF Sound
  <2>9. Standing(queue', holder', job'[n], n)
    BY <2>2, <2>3, <2>6, <2>8 DEF Standing, HasTurn
  <2>10. ASSUME NEW j \in Jobs \ {n}
         PROVE  Standing(queue', holder', job'[j], j)
    <3>1. Standing(q, h, js[j], j) /\ job'[j] = js[j]
      BY <2>4 DEF Sound
    <3>2. h # j /\ holder' # j /\ (j \in Members(q) <=> j \in Members(queue'))
      BY <1>2, <2>2, <2>3
    <3> QED
      BY <3>1, <3>2 DEF Standing
  <2>11. Sound(queue', holder', job')
    BY <2>2, <2>3, <2>7, <2>9, <2>10 DEF Sound
  <2>12. Alike(job'[n], js[n])
    BY <2>2, <2>6, <2>8 DEF Alike, Asks, Owns, Standing
  <2>13. \A j \in Jobs \ {n} : Alike(job'[j], js[j])
    BY <2>4 DEF Alike
  <2> QED
    BY <2>3, <2>4, <2>6, <2>11, <2>12, <2>13 DEF JobsSound
<1> QED
  BY <1>1, <1>2

(* One job's record changes, and perhaps the queue and the holder with it. *)
LEMMA OneJobChanges ==
  ASSUME NEW q, NEW h, NEW js, Sound(q, h, js), NEW j \in Jobs,
         NEW q2 \in Seq(Jobs), Distinct(q2), NEW h2 \in Jobs \cup {NoJob}, NEW r \in JobRecord,
         \A i \in Jobs \ {j} : (h2 = i <=> h = i) /\ (i \in Members(q2) <=> i \in Members(q)),
         Standing(q2, h2, r, j)
  PROVE  Sound(q2, h2, [js EXCEPT ![j] = r])
<1> DEFINE new == [js EXCEPT ![j] = r]
<1>1. new \in [Jobs -> JobRecord] /\ new[j] = r /\ \A i \in Jobs \ {j} : new[i] = js[i]
  BY DEF Sound
<1> HIDE DEF new
<1>2. ASSUME NEW i \in Jobs \ {j}
      PROVE  Standing(q2, h2, new[i], i)
  BY <1>1 DEF Sound, Standing
<1>3. Sound(q2, h2, new)
  BY <1>1, <1>2 DEF Sound
<1> QED
  BY <1>3 DEF new

(* A job that has ended, or that was given up, no longer holds the GPU. *)
LEMMA FreedIs ==
  ASSUME NEW h \in Jobs \cup {NoJob}, NEW j \in Jobs
  PROVE  /\ R!Freed(h, j) \in Jobs \cup {NoJob} /\ R!Freed(h, j) # j
         /\ \A i \in Jobs \ {j} : R!Freed(h, j) = i <=> h = i
BY DEF R!Freed

(* The runner's invariants hold at the start. *)
LEMMA RunnerInit ==
  ASSUME R!Init
  PROVE  JobsSound /\ StopsSound
<1>1. queue \in Seq(Jobs) /\ Distinct(queue) /\ Members(queue) = {}
  BY EmptyMembers DEF R!Init
<1>2. R!Unknown \in JobRecord /\ R!Unknown.at = "none" /\ R!Unknown.row = "none" /\ ~R!Unknown.lease /\ ~R!Unknown.finished
  BY DEF R!Unknown, JobRecord, Places
<1>3. job \in [Jobs -> JobRecord] /\ \A j \in Jobs : job[j] = R!Unknown
  BY <1>2 DEF R!Init
<1>4. holder = NoJob /\ active = NoJob /\ target = NoJob /\ shut = FALSE
  BY DEF R!Init
<1>5. \A j \in Jobs : Standing(queue, holder, job[j], j)
  BY <1>1, <1>2, <1>3, <1>4 DEF Standing, HasTurn
<1>6. JobsSound
  BY <1>1, <1>3, <1>4, <1>5 DEF JobsSound, Sound
<1>7. stop = [c \in R!Callers |-> "none"] /\ Host \in R!Callers
  BY DEF R!Init, R!Callers
<1>8. StopsSound
  BY <1>4, <1>7 DEF StopsSound
<1> QED
  BY <1>6, <1>8

(* What a step may never undo: the end a row records, and a job's finish. *)
Follows(r, s) ==
  /\ s.row \in {"done", "failed"} => r.row = s.row
  /\ s.finished => r.finished

(* A step of job j. *)
Moves(j) ==
  /\ JobsSound'
  /\ \A i \in Jobs : Follows(job'[i], job[i])
  /\ \A i \in Jobs \ {j} : Alike(job'[i], job[i])

(* A change of one job, followed by a drain that may start the next, keeps the runner's
   invariant and says what became of the others. *)
LEMMA ChangeAndDrain ==
  ASSUME JobsSound, NEW j \in Jobs,
         NEW q2 \in Seq(Jobs), Distinct(q2), NEW h2 \in Jobs \cup {NoJob}, NEW r \in JobRecord,
         \A i \in Jobs \ {j} : (h2 = i <=> holder = i) /\ (i \in Members(q2) <=> i \in Members(queue)),
         Standing(q2, h2, r, j), Follows(r, job[j]),
         R!Drain(q2, h2, h2, [job EXCEPT ![j] = r])
  PROVE  Moves(j) /\ Alike(job'[j], r)
<1> DEFINE js == [job EXCEPT ![j] = r]
<1>1. Sound(queue, holder, job)
  BY DEF JobsSound
<1>2. Sound(q2, h2, js)
  BY <1>1, OneJobChanges
<1>3. js[j] = r /\ \A i \in Jobs \ {j} : js[i] = job[i]
  BY <1>1 DEF Sound
<1>4. R!Drain(q2, h2, h2, js)
  OBVIOUS
<1> HIDE DEF js
<1>5. /\ JobsSound'
      /\ \A i \in Jobs : /\ job'[i].row = js[i].row /\ job'[i].finished = js[i].finished
                         /\ Alike(job'[i], js[i])
  BY <1>2, <1>4, DrainKeeps
<1>6. \A i \in Jobs : Follows(job'[i], job[i])
  BY <1>3, <1>5 DEF Follows
<1>7. \A i \in Jobs \ {j} : Alike(job'[i], job[i])
  BY <1>3, <1>5 DEF Alike
<1> QED
  BY <1>3, <1>5, <1>6, <1>7 DEF Moves

(* A change of one job that leaves queue, holder and child alone keeps the runner's invariant. *)
LEMMA ChangeOne ==
  ASSUME JobsSound, NEW j \in Jobs, NEW r \in JobRecord,
         Standing(queue, holder, r, j), Follows(r, job[j]),
         job' = [job EXCEPT ![j] = r], UNCHANGED <<queue, holder, active>>
  PROVE  Moves(j) /\ job'[j] = r
<1>1. Sound(queue, holder, job) /\ holder \in Jobs \cup {NoJob} /\ queue \in Seq(Jobs) /\ Distinct(queue)
  BY DEF JobsSound, Sound
<1>2. Sound(queue, holder, job')
  BY <1>1, OneJobChanges
<1>3. job'[j] = r /\ \A i \in Jobs \ {j} : job'[i] = job[i]
  BY <1>1 DEF Sound
<1>4. \A i \in Jobs : Follows(job'[i], job[i])
  BY <1>3 DEF Follows
<1> QED
  BY <1>2, <1>3, <1>4 DEF Moves, JobsSound, Alike

(* The job at j, as JobsSound knows it. *)
LEMMA JobIs ==
  ASSUME JobsSound, NEW j \in Jobs
  PROVE  /\ job[j] \in JobRecord /\ Standing(queue, holder, job[j], j) /\ job \in [Jobs -> JobRecord]
         /\ queue \in Seq(Jobs) /\ Distinct(queue) /\ holder \in Jobs \cup {NoJob} /\ active = holder
BY DEF JobsSound, Sound

(***************************************************************************)
(* The steps of a job that has, or waits for, the GPU.                     *)
(***************************************************************************)
LEMMA AcquireMoves ==
  ASSUME JobsSound, NEW j \in Jobs, R!Acquire(j)
  PROVE  /\ Moves(j) /\ UNCHANGED <<stop, target, shut>>
         /\ Asks(job'[j]) /\ ~Owns(job'[j])
<1> DEFINE r == [job[j] EXCEPT !.at = "acquiring"]
<1>1. job[j] \in JobRecord /\ Standing(queue, holder, job[j], j) /\ job \in [Jobs -> JobRecord]
  BY JobIs
<1>2. /\ r \in JobRecord /\ r.at = "acquiring" /\ r.row = job[j].row
      /\ r.lease = job[j].lease /\ r.finished = job[j].finished
  BY <1>1 DEF JobRecord, Places
<1>3. /\ job[j].at = "reserved"
      /\ job' = [job EXCEPT ![j] = r] /\ UNCHANGED <<queue, holder, active, stop, target, shut>>
  BY <1>1 DEF R!Acquire
<1> HIDE DEF r
<1>4. Standing(queue, holder, r, j) /\ Follows(r, job[j])
  BY <1>1, <1>2, <1>3 DEF Standing, HasTurn, Follows
<1>5. Moves(j) /\ job'[j] = r
  BY <1>2, <1>3, <1>4, ChangeOne
<1> QED
  BY <1>1, <1>2, <1>3, <1>5 DEF Asks, Owns, Alike, Standing

(* A granted lease makes its job the owner of it, and no job asks any more. *)
LEMMA GrantMoves ==
  ASSUME JobsSound, NEW j \in Jobs, R!LeaseGranted(j)
  PROVE  /\ Moves(j) /\ UNCHANGED <<stop, target, shut>>
         /\ Owns(job'[j]) /\ ~Asks(job'[j])
<1> DEFINE r == [job[j] EXCEPT !.at = "arriving"]
<1>1. job[j] \in JobRecord /\ Standing(queue, holder, job[j], j) /\ job \in [Jobs -> JobRecord]
  BY JobIs
<1>2. /\ r \in JobRecord /\ r.at = "arriving" /\ r.row = job[j].row
      /\ r.lease = job[j].lease /\ r.finished = job[j].finished
  BY <1>1 DEF JobRecord, Places
<1>3. /\ job[j].at = "acquiring"
      /\ job' = [job EXCEPT ![j] = r] /\ UNCHANGED <<queue, holder, active, stop, target, shut>>
  BY <1>1 DEF R!LeaseGranted
<1> HIDE DEF r
<1>4. Standing(queue, holder, r, j) /\ Follows(r, job[j])
  BY <1>1, <1>2, <1>3 DEF Standing, HasTurn, Follows
<1>5. Moves(j) /\ job'[j] = r
  BY <1>2, <1>3, <1>4, ChangeOne
<1> QED
  BY <1>1, <1>2, <1>3, <1>5 DEF Asks, Owns, Alike, Standing

(* Starting a child keeps who asks and who owns. *)
LEMMA StartMoves ==
  ASSUME JobsSound, NEW j \in Jobs, R!Start(j)
  PROVE  /\ Moves(j) /\ UNCHANGED <<stop, target, shut>>
         /\ Alike(job'[j], job[j])
<1> DEFINE r == [job[j] EXCEPT !.at = "running", !.lease = TRUE]
<1>1. job[j] \in JobRecord /\ Standing(queue, holder, job[j], j) /\ job \in [Jobs -> JobRecord]
  BY JobIs
<1>2. /\ r \in JobRecord /\ r.at = "running" /\ r.row = job[j].row
      /\ r.lease = TRUE /\ r.finished = job[j].finished
  BY <1>1 DEF JobRecord, Places
<1>3. /\ job[j].at = "arriving"
      /\ job' = [job EXCEPT ![j] = r] /\ UNCHANGED <<queue, holder, active, stop, target, shut>>
  BY <1>1 DEF R!Start
<1> HIDE DEF r
<1>4. Standing(queue, holder, r, j) /\ Follows(r, job[j])
  BY <1>1, <1>2, <1>3 DEF Standing, HasTurn, Follows
<1>5. Moves(j) /\ job'[j] = r
  BY <1>2, <1>3, <1>4, ChangeOne
<1> QED
  BY <1>1, <1>2, <1>3, <1>5 DEF Asks, Owns, Alike, Standing

(* A child that writes its end keeps who asks and who owns. *)
LEMMA WriteMoves ==
  ASSUME JobsSound, NEW j \in Jobs, NEW row \in {"done", "failed"}, R!ChildWrites(j, row)
  PROVE  /\ Moves(j) /\ UNCHANGED <<stop, target, shut>>
         /\ Alike(job'[j], job[j])
<1> DEFINE r == [job[j] EXCEPT !.row = row]
<1>1. job[j] \in JobRecord /\ Standing(queue, holder, job[j], j) /\ job \in [Jobs -> JobRecord]
  BY JobIs
<1>2. /\ r \in JobRecord /\ r.at = job[j].at /\ r.row = row
      /\ r.lease = job[j].lease /\ r.finished = job[j].finished
  BY <1>1 DEF JobRecord, Places
<1>3. /\ job[j].at = "running" /\ job[j].row = "open"
      /\ job' = [job EXCEPT ![j] = r] /\ UNCHANGED <<queue, holder, active, stop, target, shut>>
  BY <1>1 DEF R!ChildWrites
<1> HIDE DEF r
<1>4. Standing(queue, holder, r, j) /\ Follows(r, job[j])
  BY <1>1, <1>2, <1>3 DEF Standing, HasTurn, Follows
<1>5. Moves(j) /\ job'[j] = r
  BY <1>2, <1>3, <1>4, ChangeOne
<1> QED
  BY <1>1, <1>2, <1>3, <1>5 DEF Asks, Owns, Alike, Standing

(* A child that exits keeps who asks and who owns, until its end is joined. *)
LEMMA ExitMoves ==
  ASSUME JobsSound, NEW j \in Jobs, R!Exit(j)
  PROVE  /\ Moves(j) /\ UNCHANGED <<stop, target, shut>>
         /\ Alike(job'[j], job[j])
<1> DEFINE r == [job[j] EXCEPT !.at = "exited"]
<1>1. job[j] \in JobRecord /\ Standing(queue, holder, job[j], j) /\ job \in [Jobs -> JobRecord]
  BY JobIs
<1>2. /\ r \in JobRecord /\ r.at = "exited" /\ r.row = job[j].row
      /\ r.lease = job[j].lease /\ r.finished = job[j].finished
  BY <1>1 DEF JobRecord, Places
<1>3. /\ job[j].at = "running"
      /\ job' = [job EXCEPT ![j] = r] /\ UNCHANGED <<queue, holder, active, stop, target, shut>>
  BY <1>1 DEF R!Exit
<1> HIDE DEF r
<1>4. Standing(queue, holder, r, j) /\ Follows(r, job[j])
  BY <1>1, <1>2, <1>3 DEF Standing, HasTurn, Follows
<1>5. Moves(j) /\ job'[j] = r
  BY <1>2, <1>3, <1>4, ChangeOne
<1> QED
  BY <1>1, <1>2, <1>3, <1>5 DEF Asks, Owns, Alike, Standing

(***************************************************************************)
(* The steps after which the queue is drained.                             *)
(***************************************************************************)
LEMMA SubmitMoves ==
  ASSUME JobsSound, NEW j \in Jobs, R!Submit(j)
  PROVE  /\ Moves(j) /\ UNCHANGED <<stop, target, shut>>
         /\ Alike(job'[j], job[j])
<1> DEFINE r == [job[j] EXCEPT !.at = "queued", !.row = "open"]
<1>1. /\ job[j] \in JobRecord /\ Standing(queue, holder, job[j], j) /\ job \in [Jobs -> JobRecord]
      /\ queue \in Seq(Jobs) /\ Distinct(queue) /\ holder \in Jobs \cup {NoJob} /\ active = holder
  BY JobIs
<1>2. /\ r \in JobRecord /\ r.at = "queued" /\ r.row = "open"
      /\ r.lease = job[j].lease /\ r.finished = job[j].finished
  BY <1>1 DEF JobRecord, Places
<1>3. /\ job[j].at = "none" /\ UNCHANGED <<stop, target, shut>>
      /\ R!Drain(Append(queue, j), holder, holder, [job EXCEPT ![j] = r])
  BY <1>1 DEF R!Submit
<1> HIDE DEF r
<1>4. j \notin Members(queue)
  BY <1>1, <1>3 DEF Standing
<1>5. /\ Append(queue, j) \in Seq(Jobs) /\ Distinct(Append(queue, j))
      /\ Members(Append(queue, j)) = Members(queue) \cup {j}
  BY <1>1, <1>4, AppendMembers
<1>6. Standing(Append(queue, j), holder, r, j) /\ Follows(r, job[j])
  BY <1>1, <1>2, <1>3, <1>5 DEF Standing, HasTurn, Follows
<1>7. Moves(j) /\ Alike(job'[j], r)
  BY <1>1, <1>2, <1>3, <1>5, <1>6, ChangeAndDrain
<1> QED
  BY <1>1, <1>2, <1>3, <1>7 DEF Asks, Owns, Alike, Standing

(* The job ends, and gives back what it held. *)
LEMMA EndMoves ==
  ASSUME JobsSound, NEW j \in Jobs, NEW row \in {"done", "failed"},
         job[j].at \in {"acquiring", "arriving", "exited"},
         job[j].row \in {"done", "failed"} => row = job[j].row,
         R!Drain(queue, R!Freed(holder, j), R!Freed(active, j),
                 R!Released([job EXCEPT ![j].at = "ended", ![j].row = row], j))
  PROVE  Moves(j) /\ ~Asks(job'[j]) /\ ~Owns(job'[j])
<1> DEFINE r == [job[j] EXCEPT !.at = "ended", !.row = row, !.lease = FALSE, !.finished = TRUE, !.aborted = FALSE]
<1>1. /\ job[j] \in JobRecord /\ Standing(queue, holder, job[j], j) /\ job \in [Jobs -> JobRecord]
      /\ queue \in Seq(Jobs) /\ Distinct(queue) /\ holder \in Jobs \cup {NoJob} /\ active = holder
  BY JobIs
<1>2. r \in JobRecord /\ r.at = "ended" /\ r.row = row /\ r.lease = FALSE /\ r.finished = TRUE
  BY <1>1 DEF JobRecord, Places
<1>3. R!Released([job EXCEPT ![j].at = "ended", ![j].row = row], j) = [job EXCEPT ![j] = r]
  BY <1>1 DEF R!Released, JobRecord
<1>4. /\ R!Freed(holder, j) \in Jobs \cup {NoJob} /\ R!Freed(holder, j) # j
      /\ \A i \in Jobs \ {j} : R!Freed(holder, j) = i <=> holder = i
  BY <1>1, FreedIs
<1> HIDE DEF r
<1>5. Standing(queue, R!Freed(holder, j), r, j) /\ Follows(r, job[j])
  BY <1>1, <1>2, <1>4 DEF Standing, HasTurn, Follows
<1>6. Moves(j) /\ Alike(job'[j], r)
  BY <1>1, <1>2, <1>3, <1>4, <1>5, ChangeAndDrain
<1> QED
  BY <1>2, <1>6 DEF Asks, Owns, Alike

(* A refused lease, or a child that cannot be started, ends its job, which then neither asks
   nor owns. *)
LEMMA FailMoves ==
  ASSUME JobsSound, NEW j \in Jobs, R!LeaseRefused(j) \/ R!NotStarted(j)
  PROVE  /\ Moves(j) /\ UNCHANGED <<stop, target, shut>>
         /\ ~Asks(job'[j]) /\ ~Owns(job'[j])
<1>1. job[j].at \in {"acquiring", "arriving"} /\ R!FailEarly(j) /\ UNCHANGED <<stop, target, shut>>
  BY DEF R!LeaseRefused, R!NotStarted
<1>2. job[j].row = "open"
  BY <1>1, JobIs DEF Standing
<1>3. R!Drain(queue, R!Freed(holder, j), R!Freed(active, j),
              R!Released([job EXCEPT ![j].at = "ended", ![j].row = "failed"], j))
  BY <1>1 DEF R!FailEarly
<1> QED
  BY <1>1, <1>2, <1>3, EndMoves

(* The end of a job gives back the lease if it still had one. *)
LEMMA JoinMoves ==
  ASSUME JobsSound, NEW j \in Jobs, R!Join(j)
  PROVE  /\ Moves(j) /\ UNCHANGED <<stop, target, shut>>
         /\ ~Asks(job'[j]) /\ ~Owns(job'[j]) /\ ~Asks(job[j]) /\ (Owns(job[j]) <=> job[j].lease)
<1> DEFINE row == R!Failed(job[j].row)
<1>1. job[j] \in JobRecord /\ Standing(queue, holder, job[j], j) /\ job \in [Jobs -> JobRecord]
  BY JobIs
<1>2. job[j].at = "exited" /\ UNCHANGED <<stop, target, shut>>
  BY DEF R!Join
<1>3. row \in {"done", "failed"} /\ (job[j].row \in {"done", "failed"} => row = job[j].row)
  BY <1>1, <1>2 DEF R!Failed, JobRecord, Standing
<1>4. R!Drain(queue, R!Freed(holder, j), R!Freed(active, j),
              R!Released([job EXCEPT ![j].at = "ended", ![j].row = row], j))
  BY <1>1 DEF R!Join
<1> HIDE DEF row
<1>5. Moves(j) /\ ~Asks(job'[j]) /\ ~Owns(job'[j])
  BY <1>2, <1>3, <1>4, EndMoves
<1> QED
  BY <1>2, <1>5 DEF Asks, Owns

(***************************************************************************)
(* Stopping.                                                               *)
(***************************************************************************)
LEMMA CancelQueuedMoves ==
  ASSUME JobsSound, NEW j \in Jobs, R!CancelQueued(j)
  PROVE  /\ Moves(j) /\ UNCHANGED <<stop, target, shut>>
         /\ Alike(job'[j], job[j])
<1> DEFINE r == [job[j] EXCEPT !.at = "ended", !.row = "failed", !.finished = TRUE]
           rest == Without(queue, {j})
<1>1. /\ job[j] \in JobRecord /\ Standing(queue, holder, job[j], j) /\ job \in [Jobs -> JobRecord]
      /\ queue \in Seq(Jobs) /\ Distinct(queue) /\ holder \in Jobs \cup {NoJob} /\ active = holder
  BY JobIs
<1>2. /\ r \in JobRecord /\ r.at = "ended" /\ r.row = "failed"
      /\ r.lease = job[j].lease /\ r.finished = TRUE
  BY <1>1 DEF JobRecord, Places
<1>3. /\ j \in Members(queue) /\ queue' = rest /\ UNCHANGED <<holder, active, stop, target, shut>>
      /\ job' = [job EXCEPT ![j] = r]
  BY <1>1, RunnerRange, RunnerWithout DEF R!CancelQueued
<1>4. rest \in Seq(Jobs) /\ Members(rest) = Members(queue) \ {j} /\ Distinct(rest)
  BY <1>1, WithoutMembers
<1> HIDE DEF r, rest
<1>5. Standing(rest, holder, r, j) /\ Follows(r, job[j])
  BY <1>1, <1>2, <1>3, <1>4 DEF Standing, HasTurn, Follows
<1>6. Sound(rest, holder, [job EXCEPT ![j] = r])
  BY <1>1, <1>2, <1>4, <1>5, OneJobChanges DEF JobsSound
<1>7. job'[j] = r /\ \A i \in Jobs \ {j} : job'[i] = job[i]
  BY <1>1, <1>3
<1>8. \A i \in Jobs : Follows(job'[i], job[i])
  BY <1>5, <1>7 DEF Follows
<1> QED
  BY <1>1, <1>2, <1>3, <1>6, <1>7, <1>8 DEF Moves, JobsSound, Asks, Owns, Alike, Standing

(* A cancellation of the active job begins a stopActive of it and keeps who asks and owns. *)
LEMMA CancelActiveMoves ==
  ASSUME JobsSound, NEW j \in Jobs, R!CancelActive(j)
  PROVE  /\ Moves(j) /\ UNCHANGED <<target, shut>> /\ stop[j] = "none"
         /\ \E point \in {"exit", "finished"} : stop' = [stop EXCEPT ![j] = point]
         /\ Alike(job'[j], job[j])
<1> DEFINE r == [job[j] EXCEPT !.aborted = TRUE]
<1>1. job[j] \in JobRecord /\ Standing(queue, holder, job[j], j) /\ job \in [Jobs -> JobRecord]
  BY JobIs
<1>2. /\ r \in JobRecord /\ r.at = job[j].at /\ r.row = job[j].row
      /\ r.lease = job[j].lease /\ r.finished = job[j].finished
  BY <1>1 DEF JobRecord, Places
<1>3. /\ job' = [job EXCEPT ![j] = r] \/ job' = [job EXCEPT ![j] = job[j]]
      /\ UNCHANGED <<queue, holder, active, target, shut>>
  BY <1>1 DEF R!CancelActive
<1>4. stop[j] = "none" /\ \E point \in {"exit", "finished"} : stop' = [stop EXCEPT ![j] = point]
  BY DEF R!CancelActive, R!StopPoint
<1> HIDE DEF r
<1>5. Standing(queue, holder, r, j) /\ Follows(r, job[j]) /\ Follows(job[j], job[j])
  BY <1>1, <1>2 DEF Standing, HasTurn, Follows
<1>6. Moves(j) /\ job'[j] \in {r, job[j]}
  <2>1. CASE job' = [job EXCEPT ![j] = r]
    BY <1>2, <1>3, <1>5, <2>1, ChangeOne
  <2>2. CASE job' = [job EXCEPT ![j] = job[j]]
    BY <1>1, <1>3, <1>5, <2>2, ChangeOne
  <2> QED
    BY <1>3, <2>1, <2>2
<1> QED
  BY <1>2, <1>3, <1>4, <1>6 DEF Asks, Owns, Alike

(* A stopActive that gives the child up ends its job and gives the lease back if it still had
   one. *)
LEMMA GiveUpMoves ==
  ASSUME JobsSound, NEW c, NEW j \in Jobs, R!Stops(c) = j, R!GiveUp(c)
  PROVE  /\ Moves(j) /\ UNCHANGED <<target, shut>> /\ stop' = [stop EXCEPT ![c] = "finished"]
         /\ ~Asks(job'[j]) /\ ~Owns(job'[j]) /\ ~Asks(job[j]) /\ (Owns(job[j]) <=> job[j].lease)
<1> DEFINE r == [job[j] EXCEPT !.lease = FALSE, !.finished = TRUE, !.aborted = FALSE]
<1>1. /\ job[j] \in JobRecord /\ Standing(queue, holder, job[j], j) /\ job \in [Jobs -> JobRecord]
      /\ queue \in Seq(Jobs) /\ Distinct(queue) /\ holder \in Jobs \cup {NoJob} /\ active = holder
  BY JobIs
<1>2. /\ r \in JobRecord /\ r.at = job[j].at /\ r.row = job[j].row /\ r.lease = FALSE /\ r.finished = TRUE
  BY <1>1 DEF JobRecord, Places
<1>3. /\ job[j].at = "running" /\ j \in Stubborn /\ UNCHANGED <<queue, target, shut>>
      /\ stop' = [stop EXCEPT ![c] = "finished"]
      /\ holder' = R!Freed(holder, j) /\ active' = R!Freed(active, j) /\ job' = [job EXCEPT ![j] = r]
  BY <1>1 DEF R!GiveUp, R!Released
<1>4. /\ R!Freed(holder, j) \in Jobs \cup {NoJob} /\ R!Freed(holder, j) # j
      /\ \A i \in Jobs \ {j} : R!Freed(holder, j) = i <=> holder = i
  BY <1>1, FreedIs
<1> HIDE DEF r
<1>5. Standing(queue, R!Freed(holder, j), r, j) /\ Follows(r, job[j])
  BY <1>1, <1>2, <1>3, <1>4 DEF Standing, HasTurn, Follows
<1>6. Sound(queue, R!Freed(holder, j), [job EXCEPT ![j] = r])
  BY <1>1, <1>2, <1>4, <1>5, OneJobChanges DEF JobsSound
<1>7. job'[j] = r /\ \A i \in Jobs \ {j} : job'[i] = job[i]
  BY <1>1, <1>3
<1>8. \A i \in Jobs : Follows(job'[i], job[i])
  BY <1>5, <1>7 DEF Follows
<1> QED
  BY <1>1, <1>2, <1>3, <1>6, <1>7, <1>8 DEF Moves, JobsSound, Asks, Owns, Alike

(* Closing the host empties the queue and stops the active job like a cancellation does. *)
LEMMA CloseMoves ==
  ASSUME JobsSound, R!Close
  PROVE  /\ JobsSound' /\ shut' /\ target' = active
         /\ \A i \in Jobs : Follows(job'[i], job[i]) /\ Alike(job'[i], job[i])
         /\ \/ active = NoJob /\ stop' = [stop EXCEPT ![Host] = "done"]
            \/ active \in Jobs /\ \E point \in {"exit", "finished"} : stop' = [stop EXCEPT ![Host] = point]
<1>1. /\ job \in [Jobs -> JobRecord] /\ queue \in Seq(Jobs) /\ holder \in Jobs \cup {NoJob} /\ active = holder
      /\ \A j \in Jobs : job[j] \in JobRecord /\ Standing(queue, holder, job[j], j)
  BY JobIs DEF JobsSound, Sound
<1>2. /\ queue' = <<>> /\ UNCHANGED <<holder, active>> /\ shut' /\ target' = active
      /\ stop' = [stop EXCEPT ![Host] = IF active = NoJob THEN "done" ELSE R!StopPoint(active)]
  BY DEF R!Close
<1>3. job' = [j \in Jobs |-> R!AtClose(j)]
  BY DEF R!Close
<1>4. <<>> \in Seq(Jobs) /\ Members(<<>>) = {} /\ Distinct(<<>>)
  BY EmptyMembers
<1>5. ASSUME NEW j \in Jobs
      PROVE  /\ job'[j] \in JobRecord /\ Standing(<<>>, holder, job'[j], j)
             /\ Follows(job'[j], job[j]) /\ Alike(job'[j], job[j])
  <2>1. job[j] \in JobRecord /\ Standing(queue, holder, job[j], j)
    BY <1>1
  <2>2. CASE j \in Members(queue)
    <3>1. j \in R!Range(queue) /\ j # active
      BY <1>1, <2>1, <2>2, RunnerRange DEF Standing, HasTurn
    <3>2. job'[j] = [job[j] EXCEPT !.at = "ended", !.row = "failed", !.finished = TRUE]
      BY <1>3, <3>1 DEF R!AtClose
    <3>3. /\ job'[j] \in JobRecord /\ job'[j].at = "ended" /\ job'[j].row = "failed"
          /\ job'[j].lease = job[j].lease /\ job'[j].finished
      BY <2>1, <3>2 DEF JobRecord, Places
    <3> QED
      BY <1>4, <2>1, <2>2, <3>3 DEF Standing, HasTurn, Follows, Alike, Asks, Owns
  <2>3. CASE j \notin Members(queue)
    <3>1. job'[j] = [job[j] EXCEPT !.aborted = TRUE] \/ job'[j] = job[j]
      BY <1>1, <1>3, <2>3, RunnerRange DEF R!AtClose
    <3>2. /\ job'[j] \in JobRecord /\ job'[j].at = job[j].at /\ job'[j].row = job[j].row
          /\ job'[j].lease = job[j].lease /\ job'[j].finished = job[j].finished
      BY <2>1, <3>1 DEF JobRecord, Places
    <3> QED
      BY <1>4, <2>1, <2>3, <3>2 DEF Standing, HasTurn, Follows, Alike, Asks, Owns
  <2> QED
    BY <2>2, <2>3
<1>6. job' \in [Jobs -> JobRecord]
  BY <1>3, <1>5
<1>7. JobsSound'
  BY <1>1, <1>2, <1>4, <1>5, <1>6 DEF JobsSound, Sound
<1>8. \/ active = NoJob /\ stop' = [stop EXCEPT ![Host] = "done"]
      \/ active \in Jobs /\ \E point \in {"exit", "finished"} : stop' = [stop EXCEPT ![Host] = point]
  BY <1>1, <1>2 DEF R!StopPoint
<1> QED
  BY <1>2, <1>5, <1>7, <1>8

(* A caller's job, when there is one. *)
LEMMA StopsIs ==
  ASSUME StopsSound, NEW c \in R!Callers
  PROVE  /\ R!Stops(c) \in Jobs \cup {NoJob}
         /\ c # Host => R!Stops(c) = c /\ c \in Jobs
         /\ c = Host => R!Stops(c) = target
         /\ stop[c] \in {"exit", "finished"} => R!Stops(c) \in Jobs
BY DEF R!Stops, R!Callers, StopsSound

(* A step that takes no stopActive on and unfinishes no job keeps where they are sound. *)
LEMMA StopsKept ==
  ASSUME StopsSound, UNCHANGED <<stop, target, shut>>,
         \A i \in Jobs : job[i].finished => job'[i].finished
  PROVE  StopsSound'
<1>1. \A c \in R!Callers : R!Stops(c)' = R!Stops(c)
  BY DEF R!Stops
<1> QED
  BY <1>1, StopsIs DEF StopsSound

(* A stopActive that goes on, and returns only when its job has finished, keeps them sound. *)
LEMMA StopGoesOn ==
  ASSUME StopsSound, NEW c \in R!Callers, R!Stops(c) \in Jobs, c = Host => shut,
         NEW next \in {"exit", "finished", "done"}, stop' = [stop EXCEPT ![c] = next],
         UNCHANGED <<target, shut>>, next = "done" => job[R!Stops(c)].finished,
         \A i \in Jobs : job[i].finished => job'[i].finished
  PROVE  StopsSound'
<1>1. \A d \in R!Callers : R!Stops(d)' = R!Stops(d) /\ R!Stops(d) \in Jobs \cup {NoJob}
  BY StopsIs DEF R!Stops
<1>2. stop' \in [R!Callers -> {"none", "exit", "finished", "done"}]
  BY DEF StopsSound
<1>3. stop'[c] = next /\ \A d \in R!Callers \ {c} : stop'[d] = stop[d]
  BY DEF StopsSound
<1>4. c = Host => target \in Jobs
  BY StopsIs
<1>5. Host \in R!Callers
  BY DEF R!Callers
<1>6. \A d \in R!Callers : stop'[d] = "done" /\ R!Stops(d)' # NoJob => job'[R!Stops(d)'].finished
  BY <1>1, <1>3 DEF StopsSound
<1> QED
  BY <1>2, <1>3, <1>4, <1>5, <1>6 DEF StopsSound

-----------------------------------------------------------------------------
(***************************************************************************)
(* The worker's supervisor.                                                *)
(***************************************************************************)
States == {"starting", "ready", "restarting", "exhausted", "closed"}
Processes == {"none", "loading", "serving", "dead", "gone"}
Respawns == {"none", "backoff", "idle", "woken", "handshake", "joining", "done"}
InFlight == {"waiting", "awake", "asking", "answered", "refused"}

WorkerTypes ==
  /\ state \in States /\ started \in BOOLEAN
  /\ proc \in [W!Workers -> Processes]
  /\ worker \in W!Workers /\ exits \in Nat
  /\ respawn \in [W!Workers -> Respawns]
  /\ held \in Nat
  /\ lease \in [Jobs -> InFlight \cup {"none", "holding"}]
  /\ from \in [Jobs -> {0} \cup W!Workers]
  /\ closing \in {"no", "stopping", "joining", "done"}

(* A respawn goes on to spawn only while nothing is held. *)
WokenWhenIdle == (\E w \in W!Workers : respawn[w] = "woken") => held = 0

WorkerSound == WorkerTypes /\ W!HeldCounted /\ WokenWhenIdle

Holders == {j \in Jobs : lease[j] = "holding"}

(* The supervisor's count says how many hold a lease, before the step and after it. *)
LEMMA HeldIs ==
  /\ W!HeldCounted <=> held = Cardinality(Holders)
  /\ W!HeldCounted' <=> held' = Cardinality(Holders')
<1>1. \A S : W!Cardinality(S) = Cardinality(S)
  BY DEF W!Cardinality, Cardinality
<1> QED
  BY <1>1 DEF W!HeldCounted, Holders

(* Those who hold a lease are finitely many. *)
LEMMA HoldersFinite == IsFiniteSet(Holders) /\ Cardinality(Holders) \in Nat
<1>1. IsFiniteSet(Holders)
  BY FS_Subset DEF Holders
<1> QED
  BY <1>1, FS_CardinalityType

(* No lease is asked for, granted, refused or given back. *)
Quiet ==
  \A j \in Jobs : /\ lease'[j] \in InFlight <=> lease[j] \in InFlight
                  /\ lease'[j] = "holding" <=> lease[j] = "holding"

(* A step after which the same hold a lease, and the count is the same, keeps the count exact. *)
LEMMA HeldKept ==
  ASSUME WorkerSound, held' = held,
         \A j \in Jobs : lease'[j] = "holding" <=> lease[j] = "holding"
  PROVE  W!HeldCounted'
<1>1. Holders' = Holders
  BY DEF Holders
<1>2. held = Cardinality(Holders)
  BY HeldIs DEF WorkerSound
<1> QED
  BY <1>1, <1>2, HeldIs

(* A change of the supervisor's state wakes its waiters and touches no lease that is held or
   answered. *)
LEMMA SetStateIs ==
  ASSUME WorkerTypes, NEW next \in States, W!SetState(next)
  PROVE  /\ state' = next /\ lease' \in [Jobs -> InFlight \cup {"none", "holding"}]
         /\ Quiet
<1>1. state' = next /\ lease' = [j \in Jobs |->
        CASE lease[j] = "waiting" /\ next = "ready" -> "awake"
          [] lease[j] = "waiting" /\ next \in {"exhausted", "closed"} -> "refused"
          [] OTHER -> lease[j]]
  BY DEF W!SetState, W!Waiters
<1>2. ASSUME NEW j \in Jobs
      PROVE  lease'[j] = lease[j] \/ (lease[j] = "waiting" /\ lease'[j] \in {"awake", "refused"})
  BY <1>1
<1> QED
  BY <1>1, <1>2 DEF WorkerTypes, Quiet, InFlight

(* The supervisor's invariant holds at the start, and nobody has asked for a lease. *)
LEMMA WorkerInit ==
  ASSUME W!Init
  PROVE  WorkerSound /\ \A j \in Jobs : lease[j] = "none"
<1>1. 1 \in W!Workers
  BY DEF W!Workers
<1>2. lease = [j \in Jobs |-> "none"] /\ held = 0
  BY DEF W!Init
<1>3. Holders = {}
  BY <1>2 DEF Holders
<1>4. W!HeldCounted
  BY <1>2, <1>3, HeldIs, FS_EmptySet
<1>5. WorkerTypes
  BY <1>1 DEF W!Init, WorkerTypes, States, Processes, Respawns, InFlight
<1> QED
  BY <1>2, <1>4, <1>5 DEF WorkerSound, WokenWhenIdle

(***************************************************************************)
(* The worker's process exits, is ready, is respawned.                     *)
(***************************************************************************)
LEMMA ReadyKeeps ==
  ASSUME WorkerSound, W!ReadyFirst \/ \E w \in W!Workers : W!ReadyAgain(w)
  PROVE  WorkerSound' /\ Quiet
<1>1. WorkerTypes
  BY DEF WorkerSound
<1>2. /\ state' \in States /\ lease' \in [Jobs -> InFlight \cup {"none", "holding"}] /\ Quiet
  <2>1. W!SetState("ready") \/ UNCHANGED <<state, lease>>
    BY DEF W!ReadyFirst, W!ReadyAgain
  <2> QED
    BY <1>1, <2>1, SetStateIs DEF States, WorkerTypes, Quiet
<1>3. 1 \in W!Workers
  BY DEF W!Workers
<1>4. /\ proc' \in [W!Workers -> Processes] /\ started' \in BOOLEAN
      /\ UNCHANGED <<worker, exits, held, from, closing>>
  BY <1>1, <1>3 DEF W!ReadyFirst, W!ReadyAgain, WorkerTypes, Processes
<1>5. /\ respawn' \in [W!Workers -> Respawns]
      /\ \A w \in W!Workers : respawn'[w] = "woken" => respawn[w] = "woken"
  BY <1>1 DEF W!ReadyFirst, W!ReadyAgain, WorkerTypes, Respawns
<1>6. WorkerTypes'
  BY <1>1, <1>2, <1>4, <1>5 DEF WorkerTypes
<1>7. W!HeldCounted'
  BY <1>2, <1>4, HeldKept DEF Quiet
<1>8. WokenWhenIdle'
  BY <1>4, <1>5 DEF WorkerSound, WokenWhenIdle
<1> QED
  BY <1>2, <1>6, <1>7, <1>8 DEF WorkerSound

(* A worker's exit keeps the supervisor's invariant and who holds. *)
LEMMA OnExitKeeps ==
  ASSUME WorkerSound, NEW w \in W!Workers, W!OnExit(w)
  PROVE  WorkerSound' /\ Quiet
<1>1. WorkerTypes
  BY DEF WorkerSound
<1>2. UNCHANGED <<started, worker, held, from, closing>> /\ proc' = [proc EXCEPT ![w] = "gone"]
  BY DEF W!OnExit
<1>3. \/ UNCHANGED <<state, lease, exits, respawn>>
      \/ W!SetState("exhausted") /\ UNCHANGED <<exits, respawn>>
      \/ /\ w # MaxWorkers /\ exits' = exits + 1 /\ W!SetState("restarting")
         /\ respawn' = [respawn EXCEPT ![w + 1] = "backoff"]
  BY DEF W!OnExit
<1>4. /\ state' \in States /\ lease' \in [Jobs -> InFlight \cup {"none", "holding"}] /\ Quiet
  BY <1>1, <1>3, SetStateIs DEF States, WorkerTypes, Quiet
<1>5. /\ respawn' \in [W!Workers -> Respawns] /\ exits' \in Nat
      /\ \A x \in W!Workers : respawn'[x] = "woken" => respawn[x] = "woken"
  <2>1. w # MaxWorkers => w + 1 \in W!Workers
    BY DEF W!Workers
  <2> QED
    BY <1>1, <1>3, <2>1 DEF WorkerTypes, Respawns
<1>6. proc' \in [W!Workers -> Processes]
  BY <1>1, <1>2 DEF WorkerTypes, Processes
<1>7. WorkerTypes'
  BY <1>1, <1>2, <1>4, <1>5, <1>6 DEF WorkerTypes
<1>8. W!HeldCounted'
  BY <1>2, <1>4, HeldKept DEF Quiet
<1>9. WokenWhenIdle'
  BY <1>2, <1>5 DEF WorkerSound, WokenWhenIdle
<1> QED
  BY <1>4, <1>7, <1>8, <1>9 DEF WorkerSound

(* A respawn's step keeps the supervisor's invariant, and goes on only when nobody holds a
   lease. *)
LEMMA RespawnKeeps ==
  ASSUME WorkerSound, NEW w \in W!Workers, W!Respawn(w)
  PROVE  WorkerSound' /\ Quiet /\ Holders = {}
<1>1. WorkerTypes
  BY DEF WorkerSound
<1>2. UNCHANGED <<started, exits, held, from, closing>> /\ respawn[w] = "woken"
  BY DEF W!Respawn
<1>3. /\ state' \in States /\ lease' \in [Jobs -> InFlight \cup {"none", "holding"}] /\ Quiet
  <2>1. W!SetState("exhausted") \/ UNCHANGED <<state, lease>>
    BY DEF W!Respawn
  <2> QED
    BY <1>1, <2>1, SetStateIs DEF States, WorkerTypes, Quiet
<1>4. /\ proc' \in [W!Workers -> Processes] /\ worker' \in W!Workers
  BY <1>1 DEF W!Respawn, WorkerTypes, Processes
<1>5. /\ respawn' \in [W!Workers -> Respawns]
      /\ \A x \in W!Workers : respawn'[x] = "woken" => respawn[x] = "woken"
  BY <1>1 DEF W!Respawn, WorkerTypes, Respawns
<1>6. WorkerTypes'
  BY <1>1, <1>2, <1>3, <1>4, <1>5 DEF WorkerTypes
<1>7. W!HeldCounted'
  BY <1>2, <1>3, HeldKept DEF Quiet
<1>8. WokenWhenIdle'
  BY <1>2, <1>5 DEF WorkerSound, WokenWhenIdle
<1>9. held = 0 /\ held = Cardinality(Holders)
  BY <1>2, HeldIs DEF WorkerSound, WokenWhenIdle
<1>10. Holders = {}
  BY <1>9, HoldersFinite, FS_EmptySet
<1> QED
  BY <1>3, <1>6, <1>7, <1>8, <1>10 DEF WorkerSound

(* What the worker processes do of themselves keeps the supervisor's invariant and who holds. *)
LEMMA ProcessKeeps ==
  ASSUME WorkerSound, W!ProcessStep
  PROVE  WorkerSound' /\ Quiet
<1>1. WorkerTypes /\ WokenWhenIdle
  BY DEF WorkerSound
<1>2. ASSUME held' = held, lease' = lease, WorkerTypes',
             \A w \in W!Workers : respawn'[w] = "woken" => respawn[w] = "woken" \/ held = 0
      PROVE  WorkerSound' /\ Quiet
  <2>1. W!HeldCounted'
    BY <1>2, HeldKept
  <2> QED
    BY <1>1, <1>2, <2>1 DEF WorkerSound, WokenWhenIdle, Quiet
<1>3. CASE W!WindowPasses
  BY <1>1, <1>2, <1>3 DEF W!WindowPasses, WorkerTypes
<1>4. ASSUME NEW w \in W!Workers, W!Die(w)
      PROVE  WorkerSound' /\ Quiet
  BY <1>1, <1>2, <1>4 DEF W!Die, WorkerTypes, Processes
<1>5. ASSUME NEW w \in W!Workers, W!HandshakeFails(w) \/ W!Joined(w)
      PROVE  WorkerSound' /\ Quiet
  BY <1>1, <1>2, <1>5 DEF W!HandshakeFails, W!Joined, WorkerTypes, Respawns
<1>6. ASSUME NEW w \in W!Workers, W!BackedOff(w)
      PROVE  WorkerSound' /\ Quiet
  BY <1>1, <1>2, <1>6 DEF W!BackedOff, W!AfterBackoff, WorkerTypes, Respawns
<1> QED
  BY <1>3, <1>4, <1>5, <1>6, ReadyKeeps, OnExitKeeps, RespawnKeeps DEF W!ProcessStep

(***************************************************************************)
(* A client's lease.                                                       *)
(***************************************************************************)
LEMMA LeaseChanges ==
  ASSUME WorkerSound, NEW j \in Jobs, NEW new \in InFlight \cup {"none"},
         lease' = [lease EXCEPT ![j] = new], from' \in [Jobs -> {0} \cup W!Workers],
         lease[j] # "holding",
         UNCHANGED <<state, started, proc, worker, exits, respawn, held, closing>>
  PROVE  /\ WorkerSound' /\ lease'[j] = new /\ \A i \in Jobs \ {j} : lease'[i] = lease[i]
         /\ (new \in InFlight <=> lease[j] \in InFlight) => Quiet
<1>1. WorkerTypes
  BY DEF WorkerSound
<1>2. lease'[j] = new /\ \A i \in Jobs \ {j} : lease'[i] = lease[i]
  BY <1>1 DEF WorkerTypes
<1>3. WorkerTypes'
  BY <1>1, <1>2 DEF WorkerTypes
<1>4. new # "holding"
  BY DEF InFlight
<1>5. W!HeldCounted'
  BY <1>2, <1>4, HeldKept
<1> QED
  BY <1>2, <1>3, <1>4, <1>5 DEF WorkerSound, WokenWhenIdle, Quiet

(* What happens to a request for a lease in flight keeps the supervisor's invariant and who
   holds. *)
LEMMA AskedKeeps ==
  ASSUME WorkerSound, NEW j \in Jobs,
         W!Ask(j) \/ W!Answer(j) \/ W!Broken(j) \/ W!Abort(j)
  PROVE  WorkerSound' /\ Quiet
<1>1. WorkerTypes
  BY DEF WorkerSound
<1>2. lease[j] \in InFlight
  BY DEF W!Ask, W!Answer, W!Broken, W!Abort, InFlight
<1>3. \E new \in InFlight : lease' = [lease EXCEPT ![j] = new]
  BY DEF W!Ask, W!Answer, W!Broken, W!Abort, InFlight
<1>4. from' \in [Jobs -> {0} \cup W!Workers]
  BY <1>1 DEF W!Ask, W!Answer, W!Broken, W!Abort, WorkerTypes
<1>5. UNCHANGED <<state, started, proc, worker, exits, respawn, held, closing>>
  BY DEF W!Ask, W!Answer, W!Broken, W!Abort
<1>6. lease[j] # "holding"
  BY <1>2 DEF InFlight
<1> QED
  BY <1>2, <1>3, <1>4, <1>5, <1>6, LeaseChanges

(* A call of acquire is in flight after it, and nothing changes for the others. *)
LEMMA AcquireKeeps ==
  ASSUME WorkerSound, NEW j \in Jobs, W!Acquire(j)
  PROVE  WorkerSound' /\ lease'[j] \in InFlight /\ \A i \in Jobs \ {j} : lease'[i] = lease[i]
<1>1. WorkerTypes
  BY DEF WorkerSound
<1>2. \E new \in InFlight : lease' = [lease EXCEPT ![j] = new]
  BY DEF W!Acquire, InFlight
<1>3. /\ lease[j] = "none" /\ UNCHANGED <<state, started, proc, worker, exits, respawn, held, closing>>
      /\ from' \in [Jobs -> {0} \cup W!Workers]
  BY <1>1 DEF W!Acquire, WorkerTypes
<1> QED
  BY <1>2, <1>3, LeaseChanges

(* A refusal that is read ends the request, and nothing changes for the others. *)
LEMMA SeenKeeps ==
  ASSUME WorkerSound, NEW j \in Jobs, W!Seen(j)
  PROVE  WorkerSound' /\ lease'[j] = "none" /\ \A i \in Jobs \ {j} : lease'[i] = lease[i]
<1>1. WorkerTypes
  BY DEF WorkerSound
<1>2. /\ lease[j] = "refused" /\ UNCHANGED <<state, started, proc, worker, exits, respawn, held, closing>>
      /\ from' \in [Jobs -> {0} \cup W!Workers] /\ lease' = [lease EXCEPT ![j] = "none"]
  BY <1>1 DEF W!Seen, WorkerTypes
<1> QED
  BY <1>2, LeaseChanges

(* An answer that is read is a lease or a refusal, and nothing changes for the others. *)
LEMMA ArriveKeeps ==
  ASSUME WorkerSound, NEW j \in Jobs, W!Arrive(j)
  PROVE  /\ WorkerSound' /\ lease[j] = "answered" /\ \A i \in Jobs \ {j} : lease'[i] = lease[i]
         /\ lease'[j] \in {"holding", "refused"}
<1>1. WorkerTypes /\ WokenWhenIdle
  BY DEF WorkerSound
<1>2. /\ lease[j] = "answered" /\ \A w \in W!Workers : respawn[w] # "woken"
      /\ UNCHANGED <<state, started, proc, worker, exits, respawn, from, closing>>
  BY DEF W!Arrive
<1>3. CASE lease' = [lease EXCEPT ![j] = "refused"] /\ held' = held
  <2>1. from' \in [Jobs -> {0} \cup W!Workers] /\ "refused" \in InFlight
    BY <1>1, <1>2 DEF WorkerTypes, InFlight
  <2> QED
    BY <1>2, <1>3, <2>1, LeaseChanges
<1>4. CASE lease' = [lease EXCEPT ![j] = "holding"] /\ held' = held + 1
  <2>1. lease'[j] = "holding" /\ \A i \in Jobs \ {j} : lease'[i] = lease[i]
    BY <1>1, <1>4 DEF WorkerTypes
  <2>2. Holders' = Holders \cup {j} /\ j \notin Holders
    BY <1>2, <2>1 DEF Holders
  <2>3. Cardinality(Holders') = Cardinality(Holders) + 1
    BY <2>2, HoldersFinite, FS_AddElement
  <2>4. W!HeldCounted'
    BY <1>4, <2>3, HeldIs DEF WorkerSound
  <2>5. WorkerTypes'
    BY <1>1, <1>2, <1>4 DEF WorkerTypes
  <2> QED
    BY <1>2, <2>1, <2>4, <2>5 DEF WorkerSound, WokenWhenIdle
<1> QED
  BY <1>3, <1>4 DEF W!Arrive

(* A lease that is given back was held, is not any more, and nothing changes for the others. *)
LEMMA DisposeKeeps ==
  ASSUME WorkerSound, NEW j \in Jobs, W!Dispose(j)
  PROVE  /\ WorkerSound' /\ lease[j] = "holding" /\ lease'[j] = "none"
         /\ \A i \in Jobs \ {j} : lease'[i] = lease[i]
<1>1. WorkerTypes /\ WokenWhenIdle
  BY DEF WorkerSound
<1>2. /\ lease[j] = "holding" /\ held' = held - 1
      /\ lease' = [lease EXCEPT ![j] = "none"] /\ from' = [from EXCEPT ![j] = 0]
      /\ respawn' = [w \in W!Workers |-> IF respawn[w] = "idle" /\ held = 1 THEN "woken" ELSE respawn[w]]
      /\ UNCHANGED <<state, started, proc, worker, exits, closing>>
  BY DEF W!Dispose
<1>3. lease'[j] = "none" /\ \A i \in Jobs \ {j} : lease'[i] = lease[i]
  BY <1>1, <1>2 DEF WorkerTypes
<1>4. Holders' = Holders \ {j} /\ j \in Holders
  BY <1>2, <1>3 DEF Holders
<1>5. Cardinality(Holders') = Cardinality(Holders) - 1 /\ Holders # {}
  BY <1>4, HoldersFinite, FS_RemoveElement
<1>6. held = Cardinality(Holders) /\ held # 0
  BY <1>5, HeldIs, HoldersFinite, FS_EmptySet DEF WorkerSound
<1>7. W!HeldCounted'
  BY <1>2, <1>5, <1>6, HeldIs
<1>8. held' \in Nat
  BY <1>1, <1>2, <1>6 DEF WorkerTypes
<1>9. respawn' \in [W!Workers -> Respawns] /\ from' \in [Jobs -> {0} \cup W!Workers]
      /\ lease' \in [Jobs -> InFlight \cup {"none", "holding"}]
  BY <1>1, <1>2 DEF WorkerTypes, Respawns
<1>10. WorkerTypes'
  BY <1>1, <1>2, <1>8, <1>9 DEF WorkerTypes
<1>11. WokenWhenIdle'
  <2>1. \A w \in W!Workers : respawn[w] # "woken"
    BY <1>1, <1>6 DEF WokenWhenIdle
  <2>2. (\E w \in W!Workers : respawn'[w] = "woken") => held = 1
    BY <1>2, <2>1
  <2> QED
    BY <1>2, <2>2 DEF WokenWhenIdle
<1> QED
  BY <1>2, <1>3, <1>7, <1>10, <1>11 DEF WorkerSound

(* Closing the supervisor keeps its invariant and who holds. *)
LEMMA WorkerCloseKeeps ==
  ASSUME WorkerSound, W!Close \/ W!Stopped \/ W!CloseDone
  PROVE  WorkerSound' /\ Quiet
<1>1. WorkerTypes /\ WokenWhenIdle
  BY DEF WorkerSound
<1>2. /\ state' \in States /\ lease' \in [Jobs -> InFlight \cup {"none", "holding"}] /\ Quiet
  <2>1. W!SetState("closed") \/ UNCHANGED <<state, lease>>
    BY DEF W!Close, W!Stopped, W!CloseDone
  <2> QED
    BY <1>1, <2>1, SetStateIs DEF States, WorkerTypes, Quiet
<1>3. /\ respawn' \in [W!Workers -> Respawns]
      /\ \A x \in W!Workers : respawn'[x] = "woken" => respawn[x] = "woken"
  BY <1>1 DEF W!Close, W!Stopped, W!CloseDone, WorkerTypes, Respawns
<1>4. /\ UNCHANGED <<started, proc, worker, exits, held, from>>
      /\ closing' \in {"stopping", "joining", "done"}
  BY DEF W!Close, W!Stopped, W!CloseDone
<1>5. WorkerTypes'
  BY <1>1, <1>2, <1>3, <1>4 DEF WorkerTypes
<1>6. W!HeldCounted'
  BY <1>2, <1>4, HeldKept DEF Quiet
<1> QED
  BY <1>1, <1>2, <1>3, <1>4, <1>5, <1>6 DEF WorkerSound, WokenWhenIdle

-----------------------------------------------------------------------------
(***************************************************************************)
(* The two together.                                                       *)
(***************************************************************************)
(* A job is at its place in the runner just when its lease is in the state *)
(* that belongs to it in the supervisor.                                   *)
Linked ==
  \A j \in Jobs : /\ lease[j] \in InFlight <=> Asks(job[j])
                  /\ lease[j] = "holding" <=> Owns(job[j])

IInv == JobsSound /\ StopsSound /\ WorkerSound /\ Linked

(* What every step keeps, and leads to. *)
Kept == IInv' /\ \A i \in Jobs : Follows(job'[i], job[i])

(* The inductive invariant holds at the start. *)
LEMMA InvInit ==
  ASSUME Init
  PROVE  IInv
<1>1. JobsSound /\ StopsSound
  BY RunnerInit DEF Init
<1>2. WorkerSound /\ \A j \in Jobs : lease[j] = "none"
  BY WorkerInit DEF Init
<1>3. \A j \in Jobs : ~Asks(job[j]) /\ ~Owns(job[j])
  BY DEF Init, R!Init, R!Unknown, Asks, Owns
<1> QED
  BY <1>1, <1>2, <1>3 DEF IInv, Linked, InFlight

(* A move of one job, with no stopActive touched, keeps both of the runner's invariants. *)
LEMMA MovesFollow ==
  ASSUME StopsSound, NEW j \in Jobs, Moves(j), UNCHANGED <<stop, target, shut>>
  PROVE  JobsSound' /\ StopsSound' /\ \A i \in Jobs : Follows(job'[i], job[i])
<1>1. \A i \in Jobs : job[i].finished => job'[i].finished
  BY DEF Moves, Follows
<1> QED
  BY <1>1, StopsKept DEF Moves

(* A joint step that moves one job and its lease in agreement keeps runner and supervisor
   linked. *)
LEMMA LinkKept ==
  ASSUME Linked, NEW j \in Jobs,
         \A i \in Jobs \ {j} : lease'[i] = lease[i] /\ Alike(job'[i], job[i]),
         lease'[j] \in InFlight <=> Asks(job'[j]), lease'[j] = "holding" <=> Owns(job'[j])
  PROVE  Linked'
<1> SUFFICES ASSUME NEW i \in Jobs
             PROVE  /\ lease'[i] \in InFlight <=> Asks(job'[i])
                    /\ lease'[i] = "holding" <=> Owns(job'[i])
  BY DEF Linked, Asks, Owns
<1>1. i = j \/ (lease'[i] = lease[i] /\ Alike(job'[i], job[i]))
  OBVIOUS
<1> QED
  BY <1>1 DEF Linked, Alike

(* A step of the runner alone that changes nobody's asking or owning keeps the invariant. *)
LEMMA RunnerAlone ==
  ASSUME IInv, UNCHANGED workerVars, JobsSound', StopsSound',
         \A i \in Jobs : Follows(job'[i], job[i]) /\ Alike(job'[i], job[i])
  PROVE  Kept
<1>1. WorkerSound'
  <2>1. WorkerTypes' /\ WokenWhenIdle'
    BY DEF IInv, WorkerSound, WorkerTypes, WokenWhenIdle, workerVars
  <2>2. W!HeldCounted'
    BY HeldKept DEF IInv, workerVars
  <2> QED
    BY <2>1, <2>2 DEF WorkerSound
<1>2. lease' = lease
  BY DEF workerVars
<1>3. Linked'
  BY <1>2 DEF IInv, Linked, Alike, Asks, Owns
<1> QED
  BY <1>1, <1>3 DEF Kept, IInv

(* A step of the supervisor alone that changes nobody's lease keeps the invariant. *)
LEMMA WorkerAlone ==
  ASSUME IInv, UNCHANGED runnerVars, WorkerSound', Quiet
  PROVE  Kept
<1>1. JobsSound'
  BY DEF IInv, JobsSound, Sound, runnerVars
<1>2. StopsSound'
  BY StopsKept DEF IInv, runnerVars
<1>3. job' = job
  BY DEF runnerVars
<1>4. Linked'
  BY <1>3 DEF IInv, Linked, Quiet, Asks, Owns
<1> QED
  BY <1>1, <1>2, <1>3, <1>4 DEF Kept, IInv, Follows

(* A step of both: the runner's job j moves, and its lease with it. *)
LEMMA Together ==
  ASSUME IInv, NEW j \in Jobs, JobsSound', StopsSound', WorkerSound',
         \A i \in Jobs : Follows(job'[i], job[i]),
         \A i \in Jobs \ {j} : lease'[i] = lease[i] /\ Alike(job'[i], job[i]),
         lease'[j] \in InFlight <=> Asks(job'[j]), lease'[j] = "holding" <=> Owns(job'[j])
  PROVE  Kept
<1>1. Linked'
  BY LinkKept DEF IInv
<1> QED
  BY <1>1 DEF Kept, IInv

(* The lease of a job that has ended is given back, if it had one. *)
LEMMA GivenBack ==
  ASSUME IInv, NEW j \in Jobs, Owns(job[j]) <=> job[j].lease, ~Asks(job[j]),
         ~Owns(job'[j]), ~Asks(job'[j]),
         JobsSound', StopsSound',
         \A i \in Jobs : Follows(job'[i], job[i]),
         \A i \in Jobs \ {j} : Alike(job'[i], job[i]),
         IF job[j].lease THEN W!Dispose(j) ELSE UNCHANGED workerVars
  PROVE  Kept
<1>1. CASE job[j].lease
  <2>1. WorkerSound' /\ lease'[j] = "none" /\ \A i \in Jobs \ {j} : lease'[i] = lease[i]
    BY <1>1, DisposeKeeps DEF IInv
  <2> QED
    BY <2>1, Together DEF InFlight
<1>2. CASE ~job[j].lease
  <2>1. Alike(job'[j], job[j])
    BY <1>2 DEF Alike
  <2> QED
    BY <1>2, <2>1, RunnerAlone
<1> QED
  BY <1>1, <1>2

(* A step of one job keeps the invariant. *)
LEMMA JobStepKeeps ==
  ASSUME IInv, NEW j \in Jobs, JobStep(j)
  PROVE  Kept
<1>1. JobsSound /\ StopsSound /\ WorkerSound /\ Linked
  BY DEF IInv
<1>2. CASE Ask(j)
  <2>1. /\ Moves(j) /\ UNCHANGED <<stop, target, shut>> /\ Asks(job'[j]) /\ ~Owns(job'[j])
    BY <1>1, <1>2, AcquireMoves DEF Ask
  <2>2. WorkerSound' /\ lease'[j] \in InFlight /\ \A i \in Jobs \ {j} : lease'[i] = lease[i]
    BY <1>1, <1>2, AcquireKeeps DEF Ask
  <2>3. lease'[j] # "holding"
    BY <2>2 DEF InFlight
  <2> QED
    BY <1>1, <2>1, <2>2, <2>3, MovesFollow, Together DEF Moves
<1>3. CASE Granted(j)
  <2>1. /\ Moves(j) /\ UNCHANGED <<stop, target, shut>> /\ Owns(job'[j]) /\ ~Asks(job'[j])
    BY <1>1, <1>3, GrantMoves DEF Granted
  <2>2. WorkerSound' /\ lease'[j] = "holding" /\ \A i \in Jobs \ {j} : lease'[i] = lease[i]
    BY <1>1, <1>3, ArriveKeeps DEF Granted
  <2>3. lease'[j] \notin InFlight
    BY <2>2 DEF InFlight
  <2> QED
    BY <1>1, <2>1, <2>2, <2>3, MovesFollow, Together DEF Moves
<1>4. CASE ArrivesLate(j)
  <2>1. /\ W!Arrive(j) /\ lease'[j] # "holding" /\ UNCHANGED runnerVars
    BY <1>4 DEF ArrivesLate, WorkerOnly
  <2>2. /\ WorkerSound' /\ lease[j] = "answered" /\ lease'[j] = "refused"
        /\ \A i \in Jobs \ {j} : lease'[i] = lease[i]
    BY <1>1, <2>1, ArriveKeeps
  <2>3. Quiet
    BY <2>2 DEF Quiet, InFlight
  <2> QED
    BY <2>1, <2>2, <2>3, WorkerAlone
<1>5. CASE Refused(j)
  <2>1. /\ Moves(j) /\ UNCHANGED <<stop, target, shut>> /\ ~Asks(job'[j]) /\ ~Owns(job'[j])
    BY <1>1, <1>5, FailMoves DEF Refused
  <2>2. WorkerSound' /\ lease'[j] = "none" /\ \A i \in Jobs \ {j} : lease'[i] = lease[i]
    BY <1>1, <1>5, SeenKeeps DEF Refused
  <2>3. lease'[j] \notin InFlight \cup {"holding"}
    BY <2>2 DEF InFlight
  <2> QED
    BY <1>1, <2>1, <2>2, <2>3, MovesFollow, Together DEF Moves
<1>6. CASE Aborted(j)
  BY <1>1, <1>6, AskedKeeps, WorkerAlone DEF Aborted, WorkerOnly
<1>7. CASE NotStarted(j)
  <2>1. /\ Moves(j) /\ UNCHANGED <<stop, target, shut>> /\ ~Asks(job'[j]) /\ ~Owns(job'[j])
    BY <1>1, <1>7, FailMoves DEF NotStarted
  <2>2. WorkerSound' /\ lease'[j] = "none" /\ \A i \in Jobs \ {j} : lease'[i] = lease[i]
    BY <1>1, <1>7, DisposeKeeps DEF NotStarted
  <2>3. lease'[j] \notin InFlight \cup {"holding"}
    BY <2>2 DEF InFlight
  <2> QED
    BY <1>1, <2>1, <2>2, <2>3, MovesFollow, Together DEF Moves
<1>8. CASE Join(j)
  <2>1. /\ Moves(j) /\ UNCHANGED <<stop, target, shut>>
        /\ ~Asks(job'[j]) /\ ~Owns(job'[j]) /\ ~Asks(job[j]) /\ (Owns(job[j]) <=> job[j].lease)
    BY <1>1, <1>8, JoinMoves DEF Join
  <2> QED
    BY <1>1, <1>8, <2>1, MovesFollow, GivenBack DEF Join, Moves
<1>9. ASSUME RunnerOnly(R!Start(j)) \/ RunnerOnly(R!Exit(j))
               \/ \E row \in {"done", "failed"} : RunnerOnly(R!ChildWrites(j, row))
      PROVE  Kept
  <2>1. UNCHANGED workerVars
    BY <1>9 DEF RunnerOnly
  <2>2. Moves(j) /\ UNCHANGED <<stop, target, shut>> /\ Alike(job'[j], job[j])
    BY <1>1, <1>9, StartMoves, ExitMoves, WriteMoves DEF RunnerOnly
  <2> QED
    BY <1>1, <2>1, <2>2, MovesFollow, RunnerAlone DEF Moves
<1> QED
  BY <1>2, <1>3, <1>4, <1>5, <1>6, <1>7, <1>8, <1>9 DEF JobStep

(* A call of submit, cancel or close keeps the invariant. *)
LEMMA CallStepKeeps ==
  ASSUME IInv, CallStep
  PROVE  Kept
<1>1. JobsSound /\ StopsSound /\ WorkerSound /\ Linked
  BY DEF IInv
<1>2. UNCHANGED workerVars
  BY DEF CallStep, RunnerOnly
<1>3. ASSUME NEW j \in Jobs, R!Submit(j) \/ R!CancelQueued(j)
      PROVE  Kept
  <2>1. Moves(j) /\ UNCHANGED <<stop, target, shut>> /\ Alike(job'[j], job[j])
    BY <1>1, <1>3, SubmitMoves, CancelQueuedMoves
  <2> QED
    BY <1>1, <1>2, <2>1, MovesFollow, RunnerAlone DEF Moves
<1>4. ASSUME NEW j \in Jobs, R!CancelActive(j)
      PROVE  Kept
  <2>1. /\ Moves(j) /\ UNCHANGED <<target, shut>> /\ stop[j] = "none"
        /\ \E point \in {"exit", "finished"} : stop' = [stop EXCEPT ![j] = point]
        /\ Alike(job'[j], job[j])
    BY <1>1, <1>4, CancelActiveMoves
  <2>2. j \in R!Callers /\ R!Stops(j) = j /\ j # Host
    BY DEF R!Callers, R!Stops
  <2>3. \A i \in Jobs : job[i].finished => job'[i].finished
    BY <2>1 DEF Moves, Follows
  <2>4. StopsSound'
    BY <1>1, <2>1, <2>2, <2>3, StopGoesOn
  <2> QED
    BY <1>1, <1>2, <2>1, <2>4, RunnerAlone DEF Moves
<1>5. CASE R!Close
  <2>1. /\ JobsSound' /\ shut' /\ target' = active
        /\ \A i \in Jobs : Follows(job'[i], job[i]) /\ Alike(job'[i], job[i])
        /\ \/ active = NoJob /\ stop' = [stop EXCEPT ![Host] = "done"]
           \/ active \in Jobs /\ \E point \in {"exit", "finished"} : stop' = [stop EXCEPT ![Host] = point]
    BY <1>1, <1>5, CloseMoves
  <2>2. shut' \in BOOLEAN /\ Host \in R!Callers
    BY <1>5 DEF R!Close, R!Callers
  <2>3. stop' \in [R!Callers -> {"none", "exit", "finished", "done"}]
    BY <1>1, <2>1 DEF StopsSound
  <2>4. \A c \in R!Callers \ {Host} : stop'[c] = stop[c] /\ R!Stops(c)' = c /\ R!Stops(c) = c /\ c \in Jobs
    BY <1>1, <2>1 DEF StopsSound, R!Stops, R!Callers
  <2>5. R!Stops(Host)' = active /\ (stop'[Host] = "done" => active = NoJob)
        /\ (stop'[Host] \in {"exit", "finished"} => active \in Jobs)
    BY <1>1, <2>1, <2>2 DEF StopsSound, R!Stops
  <2>6. \A c \in R!Callers : stop'[c] = "done" /\ R!Stops(c)' # NoJob => job'[R!Stops(c)'].finished
    BY <1>1, <2>1, <2>4, <2>5 DEF StopsSound, Follows
  <2>7. target' \in Jobs \cup {NoJob}
    BY <2>1
  <2>8. StopsSound'
    BY <2>1, <2>2, <2>3, <2>5, <2>6, <2>7 DEF StopsSound
  <2> QED
    BY <1>2, <2>1, <2>8, RunnerAlone
<1> QED
  BY <1>3, <1>4, <1>5 DEF CallStep, RunnerOnly

(* A step of a stopActive keeps the invariant. *)
LEMMA StopStepKeeps ==
  ASSUME IInv, NEW c \in R!Callers, StopStep(c)
  PROVE  Kept
<1> DEFINE j == R!Stops(c)
<1>1. JobsSound /\ StopsSound /\ WorkerSound /\ Linked
  BY DEF IInv
<1>2. stop[c] \in {"exit", "finished"}
  BY DEF StopStep, RunnerOnly, R!ChildGone, R!StopDone, GiveUp, R!GiveUp
<1>3. j \in Jobs /\ (c = Host => shut)
  BY <1>1, <1>2, StopsIs DEF StopsSound
<1>4. CASE RunnerOnly(R!ChildGone(c)) \/ RunnerOnly(R!StopDone(c))
  <2>1. UNCHANGED workerVars /\ UNCHANGED <<queue, holder, active, job, target, shut>>
    BY <1>4 DEF RunnerOnly, R!ChildGone, R!StopDone
  <2>2. \E next \in {"finished", "done"} :
          stop' = [stop EXCEPT ![c] = next] /\ (next = "done" => job[R!Stops(c)].finished)
    BY <1>4 DEF RunnerOnly, R!ChildGone, R!StopDone
  <2>3. StopsSound'
    BY <1>1, <1>3, <2>1, <2>2, StopGoesOn
  <2>4. JobsSound'
    BY <1>1, <2>1 DEF JobsSound, Sound
  <2> QED
    BY <2>1, <2>3, <2>4, RunnerAlone DEF Follows, Alike
<1>5. CASE GiveUp(c)
  <2>1. R!GiveUp(c) /\ IF job[j].lease THEN W!Dispose(j) ELSE UNCHANGED workerVars
    BY <1>5 DEF GiveUp
  <2>2. /\ Moves(j) /\ UNCHANGED <<target, shut>> /\ stop' = [stop EXCEPT ![c] = "finished"]
        /\ ~Asks(job'[j]) /\ ~Owns(job'[j]) /\ ~Asks(job[j]) /\ (Owns(job[j]) <=> job[j].lease)
    BY <1>1, <1>3, <2>1, GiveUpMoves
  <2>3. \A i \in Jobs : job[i].finished => job'[i].finished
    BY <2>2 DEF Moves, Follows
  <2>4. StopsSound'
    BY <1>1, <1>3, <2>2, <2>3, StopGoesOn
  <2> HIDE DEF j
  <2> QED
    BY <1>3, <2>1, <2>2, <2>4, GivenBack DEF Moves
<1> QED
  BY <1>4, <1>5 DEF StopStep

(* Every step keeps the inductive invariant. *)
LEMMA InvKept ==
  ASSUME IInv, [Next]_vars
  PROVE  Kept
<1>1. WorkerSound
  BY DEF IInv
<1>2. ASSUME NEW c \in Jobs, WorkerOnly(W!LeaseStep(c)) \/ WorkerOnly(W!Broken(c))
      PROVE  Kept
  BY <1>1, <1>2, AskedKeeps, WorkerAlone DEF WorkerOnly, W!LeaseStep
<1>3. CASE WorkerOnly(W!ProcessStep)
  BY <1>1, <1>3, ProcessKeeps, WorkerAlone DEF WorkerOnly
<1>4. CASE UnitCloses \/ WorkerOnly(W!Stopped) \/ WorkerOnly(W!CloseDone)
  BY <1>1, <1>4, WorkerCloseKeeps, WorkerAlone DEF UnitCloses, WorkerOnly
<1>5. CASE UNCHANGED vars
  <2>1. UNCHANGED runnerVars /\ UNCHANGED workerVars
    BY <1>5 DEF vars
  <2>2. JobsSound' /\ StopsSound'
    <3>1. JobsSound'
      BY <2>1 DEF IInv, JobsSound, Sound, runnerVars
    <3>2. StopsSound'
      BY <2>1, StopsKept DEF IInv, runnerVars
    <3> QED
      BY <3>1, <3>2
  <2> QED
    BY <2>1, <2>2, RunnerAlone DEF runnerVars, Follows, Alike
<1> QED
  BY <1>2, <1>3, <1>4, <1>5, JobStepKeeps, CallStepKeeps, StopStepKeeps DEF Next

(* The runner and the supervisor agree on every job and every lease.              *)
THEOREM Invariant == Spec => []IInv
<1>1. IInv /\ [Next]_vars => IInv'
  BY InvKept DEF Kept
<1> QED
  BY <1>1, InvInit, PTL DEF Spec

(* One managed child at a time: a child that has not been given up runs under the *)
(* lease of its own job, which is the holder and the active one, and no lease     *)
(* outlives its job.                                                              *)
THEOREM OneChild == Spec => []OneChildAtATime
<1>1. IInv => OneChildAtATime
  BY DEF IInv, JobsSound, Sound, Standing, HasTurn, OneChildAtATime, R!OneChildAtATime
<1> QED
  BY <1>1, Invariant, PTL

(* The supervisor's count is that of the leases not yet disposed, and each of     *)
(* these belongs to a job that will dispose it.                                   *)
THEOREM LeasesHaveOwners == Spec => []LeasesOwned
<1>1. IInv => LeasesOwned
  BY DEF IInv, WorkerSound, Linked, Owns, LeasesOwned
<1> QED
  BY <1>1, Invariant, PTL

(* Whoever asked for a job to be stopped, by a cancellation or by the host's      *)
(* close, is told so only after the job has finished and lost the GPU; and, but   *)
(* for a child that outlives its SIGKILL, after its end was recorded.             *)
THEOREM StopsAreGone == Spec => []StoppedIsGone
<1>1. IInv => StoppedIsGone
  <2> SUFFICES ASSUME IInv, NEW c \in R!Callers, stop[c] = "done", R!Stops(c) # NoJob
               PROVE  /\ job[R!Stops(c)].finished /\ holder # R!Stops(c)
                      /\ R!Stops(c) \notin Stubborn =>
                           job[R!Stops(c)].at = "ended" /\ job[R!Stops(c)].row # "open"
    BY DEF StoppedIsGone, R!StoppedIsGone
  <2>1. R!Stops(c) \in Jobs /\ job[R!Stops(c)].finished
    BY StopsIs DEF IInv, StopsSound
  <2>2. Standing(queue, holder, job[R!Stops(c)], R!Stops(c))
    BY <2>1, JobIs DEF IInv
  <2> QED
    BY <2>1, <2>2 DEF Standing, HasTurn
<1> QED
  BY <1>1, Invariant, PTL

(* The end that a job's row records is never overwritten, neither by its exit, by *)
(* a cancellation or a close, nor by the failure of its start.                    *)
THEOREM RowsStay == Spec => RowsFinal
<1>1. IInv /\ [Next]_vars =>
        [\A j \in Jobs : job[j].row \in {"done", "failed"} => job'[j].row = job[j].row]_(R!vars)
  BY InvKept DEF Kept, Follows
<1> QED
  BY <1>1, Invariant, PTL DEF Spec, RowsFinal, R!RowsFinal

(* A worker is spawned only while no job holds a lease. *)
LEMMA SpawnsWhenIdle ==
  ASSUME IInv, [Next]_vars, NEW w \in W!Workers, proc[w] = "none", proc'[w] = "loading"
  PROVE  \A c \in Jobs : lease[c] # "holding"
<1>1. proc \in [W!Workers -> Processes] /\ WorkerSound
  BY DEF IInv, WorkerSound, WorkerTypes
<1>2. \E x \in W!Workers : W!Respawn(x)
  <2>1. proc' # proc
    OBVIOUS
  <2>2. ASSUME NEW j \in Jobs, JobStep(j)
        PROVE  proc' = proc
    BY <2>2 DEF JobStep, Ask, Granted, ArrivesLate, Refused, Aborted, NotStarted, Join, RunnerOnly,
                WorkerOnly, W!Acquire, W!Arrive, W!Seen, W!Abort, W!Dispose, workerVars
  <2>3. ASSUME CallStep \/ UNCHANGED vars
        PROVE  proc' = proc
    BY <2>3 DEF CallStep, RunnerOnly, workerVars, vars
  <2>4. ASSUME NEW c \in R!Callers, StopStep(c)
        PROVE  proc' = proc
    BY <2>4 DEF StopStep, GiveUp, RunnerOnly, W!Dispose, workerVars
  <2>5. ASSUME NEW c \in Jobs, WorkerOnly(W!LeaseStep(c)) \/ WorkerOnly(W!Broken(c))
        PROVE  proc' = proc
    BY <2>5 DEF WorkerOnly, W!LeaseStep, W!Ask, W!Answer, W!Broken
  <2>6. ASSUME UnitCloses \/ WorkerOnly(W!Stopped) \/ WorkerOnly(W!CloseDone)
        PROVE  proc' = proc
    BY <2>6 DEF UnitCloses, WorkerOnly, W!Close, W!Stopped, W!CloseDone
  <2>7. W!ProcessStep
    BY <2>1, <2>2, <2>3, <2>4, <2>5, <2>6 DEF Next, WorkerOnly
  <2> QED
    BY <1>1, <2>7 DEF W!ProcessStep, W!ReadyFirst, W!WindowPasses, W!Die, W!ReadyAgain,
                      W!HandshakeFails, W!Joined, W!OnExit, W!BackedOff
<1>3. Holders = {}
  BY <1>1, <1>2, RespawnKeeps
<1> QED
  BY <1>3 DEF Holders

(* No worker is spawned while any client holds an execution lease, whichever      *)
(* worker granted it: a restart does not take the GPU from a running job.         *)
THEOREM RestartsWait == Spec => RespawnWaits
<1>1. IInv /\ [Next]_vars =>
        [(\E w \in W!Workers : proc[w] = "none" /\ proc'[w] = "loading")
           => \A c \in Jobs : lease[c] # "holding"]_(W!vars)
  BY SpawnsWhenIdle
<1> QED
  BY <1>1, Invariant, PTL DEF Spec, RespawnWaits, W!RespawnWaits
=============================================================================
