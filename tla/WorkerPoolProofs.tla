-------------------------- MODULE WorkerPoolProofs --------------------------
(***************************************************************************)
(* Safety of WorkerPool for every set of jobs, width and number of          *)
(* processes: the pool keeps its width, leases are exclusive, answers are   *)
(* not mixed up and no worker outlives close.                               *)
(***************************************************************************)
EXTENDS WorkerPool, FiniteSetTheorems, TLAPS

-----------------------------------------------------------------------------
(* The inductive invariant.                                                 *)

\* The sums of SlotsConserved are sums.
KeepsWidth == SlotsConserved /\ IsFiniteSet(Holders)

\* Leases and slots name processes that were spawned.
Spawned ==
  /\ \A j \in Job : mine[j] \in 1 .. spawned \cup {NoWorker}
  /\ \A i \in 1 .. Len(slots) : slots[i] \in 1 .. spawned \cup {NoWorker}

\* Nothing of any job is left in worker w.
Clean(w) ==
  /\ request[w] = NoJob /\ serving[w] = NoJob
  /\ \A i \in 1 .. Len(frames[w]) : frames[w][i] \notin Job

\* Worker w has at most one thing of a job, and that of job j: a request, a running
\* payload or a result.
Owes(w, j) ==
  /\ request[w] \in {NoJob, j} /\ serving[w] \in {NoJob, j}
  /\ request[w] = j => serving[w] = NoJob
  /\ \A i \in 1 .. Len(frames[w]) : frames[w][i] \in Job =>
       /\ frames[w][i] = j /\ request[w] = NoJob /\ serving[w] = NoJob
       /\ \A h \in 1 .. Len(frames[w]) : frames[w][h] \in Job => h = i

Spare == {w \in Worker : Clean(w)}

Debtors(j) == {w \in Worker : Owes(w, j)}

Unasked == {"leased", "registering", "readying", "sending", "releasing", "parking"}

\* A worker that is unborn, idle in a slot, or leased and not yet asked or done, is
\* clean.  Only a job that waits for its result has anything in its worker.
Residues ==
  /\ \A w \in Worker : proc[w] = "serving" <=> serving[w] # NoJob
  /\ \A w \in spawned + 1 .. MaxSpawns : w \in Spare
  /\ \A i \in 1 .. Len(slots) : slots[i] \in Spare \cup {NoWorker}
  /\ \A j \in Job : /\ at[j] \in Unasked => mine[j] \in Spare
                    /\ at[j] = "receiving" => mine[j] \in Debtors(j)

\* Whoever is to kill a process knows it: the registry, the list of close, or the
\* job that has just spawned or retired it.
Known(w) ==
  \/ w \in live
  \/ \E i \in 1 .. Len(victims) : victims[i] = w
  \/ \E j \in Job : mine[j] = w /\ at[j] \in {"registering", "killing"}

\* A snapshot empties the registry, for good, and close goes on only when its list
\* is done.
Registry ==
  closer # "gone" =>
    /\ closed <=> closer # "open"
    /\ closer \in {"terminating", "draining", "closed"} => live = {}
    /\ closer # "terminating" => victims = <<>>
    /\ \A w \in Worker : Alive(w) => Known(w)

PoolInv ==
  TypeOK /\ KeepsWidth /\ Spawned /\ LeasesAreExclusive /\ Residues /\ AnswersMatch /\ Registry
-----------------------------------------------------------------------------
(* Steps.                                                                   *)

\* Workers are numbered; tokens are no jobs and differ from each other.
LEMMA Tokens ==
  /\ Worker \subseteq Nat /\ NoWorker \notin Worker
  /\ NoJob \notin Job /\ Ready \notin Job /\ Eof \notin Job
  BY WidthAssumption, TokenAssumption DEF Worker

\* get on a queue that is not empty.
LEMMA GetEffect ==
  ASSUME NEW T, NEW q \in Seq(T), q # <<>>
  PROVE  /\ Head(q) \in T /\ Head(q) = q[1] /\ 1 \in 1 .. Len(q)
         /\ Tail(q) \in Seq(T) /\ Len(q) \in Nat /\ Len(Tail(q)) = Len(q) - 1
         /\ \A i \in 1 .. Len(q) - 1 : Tail(q)[i] = q[i + 1] /\ i + 1 \in 1 .. Len(q)
  OBVIOUS

\* put on a queue.
LEMMA PutEffect ==
  ASSUME NEW T, NEW q \in Seq(T), NEW x \in T
  PROVE  /\ Append(q, x) \in Seq(T) /\ Len(q) \in Nat /\ Len(Append(q, x)) = Len(q) + 1
         /\ \A i \in 1 .. Len(q) : Append(q, x)[i] = q[i]
         /\ Append(q, x)[Len(q) + 1] = x
         /\ \A i \in 1 .. Len(q) + 1 : i \in 1 .. Len(q) \/ i = Len(q) + 1
  OBVIOUS

\* The registry can be counted.
LEMMA LiveFinite ==
  ASSUME live \subseteq Worker
  PROVE  IsFiniteSet(live) /\ Cardinality(live) \in Nat
  <1>1. IsFiniteSet(Worker)
    BY FS_Interval, WidthAssumption DEF Worker
  <1> QED
    BY <1>1, FS_Subset, FS_CardinalityType

\* The snapshot of close lists exactly the registry.
LEMMA SnapshotEffect ==
  ASSUME live \subseteq Worker, NEW o \in Orders(live)
  PROVE  /\ o \in Seq(Worker)
         /\ \A w \in live : \E i \in 1 .. Len(o) : o[i] = w
  <1>1. PICK n \in Nat : n = Cardinality(live)
    BY LiveFinite
  <1>2. o \in [1 .. n -> live] /\ \A x \in live : \E i \in DOMAIN o : o[i] = x
    BY <1>1 DEF Orders
  <1>3. o \in [1 .. n -> Worker]
    BY <1>2
  <1>4. o \in Seq(Worker) /\ Len(o) = n
    BY <1>3
  <1> QED
    BY <1>2, <1>4

\* What terminate does to a process keeps its types.
LEMMA KillTypes ==
  ASSUME TypeOK, NEW w \in Worker, Kill(w)
  PROVE  /\ proc' \in [Worker -> {"unborn", "importing", "idle", "serving", "exited"}]
         /\ serving' \in [Worker -> Job \cup {NoJob}]
         /\ kin' \in [Worker -> {"none", "group", "left", "escaped"}]
         /\ UNCHANGED <<spawned, request, frames, ready, reader, shut, ran>>
  BY DEF TypeOK, Kill, Escaped

\* begin, with the look at the closed event resolved.
LEMMA BeginEffect ==
  ASSUME NEW j \in Job, Begin(j)
  PROVE  /\ at[j] = "idle"
         /\ \E x \in {"done", "leasing"} : at' = [at EXCEPT ![j] = x]
         /\ outcome' = [outcome EXCEPT ![j] = "closed"] \/ outcome' = outcome
         /\ UNCHANGED <<slots, live, closed, lock, mine, answer, procVars, closeVars>>
  BY DEF Begin, Moves, Outcome

\* The same for an idle worker that was taken.
LEMMA LeaseIdleEffect ==
  ASSUME NEW j \in Job, LeaseIdle(j)
  PROVE  /\ at[j] = "leased"
         /\ \E x \in {"retiring", "readying"} : at' = [at EXCEPT ![j] = x]
         /\ outcome' = [outcome EXCEPT ![j] = "closed"] \/ outcome' = outcome
         /\ UNCHANGED <<slots, live, closed, lock, mine, answer, procVars, closeVars>>
  BY DEF LeaseIdle, Moves, Outcome

\* A new worker is registered, or killed because the pool is closed.
LEMMA RegisterEffect ==
  ASSUME NEW j \in Job, Register(j)
  PROVE  /\ at[j] = "registering"
         /\ UNCHANGED <<slots, closed, mine, answer, closeVars>>
         /\ \/ /\ closed /\ Kill(mine[j])
               /\ at' = [at EXCEPT ![j] = "scrapping"]
               /\ outcome' = [outcome EXCEPT ![j] = "closed"]
               /\ lock' = j /\ UNCHANGED live
            \/ /\ ~closed
               /\ at' = [at EXCEPT ![j] = "readying"]
               /\ live' = live \cup {mine[j]}
               /\ UNCHANGED <<outcome, lock, procVars>>
  BY Zenon DEF Register, Moves, Outcome

\* The worker was ready, or its READY frame is taken.
LEMMA AwaitReadyEffect ==
  ASSUME NEW j \in Job, AwaitReady(j)
  PROVE  /\ at[j] = "readying" /\ at' = [at EXCEPT ![j] = "sending"]
         /\ UNCHANGED <<slots, live, closed, lock, mine, outcome, answer, closeVars>>
         /\ \/ UNCHANGED procVars
            \/ /\ HasFrame(j, Ready) /\ TakesFrame(j)
               /\ ready' = [ready EXCEPT ![mine[j]] = TRUE]
  BY Zenon DEF AwaitReady, Moves

\* The types are preserved.
LEMMA TypeStep ==
  ASSUME TypeOK, Residues, Next
  PROVE  TypeOK'
  <1> USE Tokens, WidthAssumption DEF TypeOK, Moves, Outcome, jobVars, procVars, closeVars, Holding
  <1>1. ASSUME NEW j \in Job, Begin(j)
        PROVE  TypeOK'
    <2>1. PICK x \in {"done", "leasing"} : at' = [at EXCEPT ![j] = x]
      BY <1>1, BeginEffect
    <2>2. /\ outcome' = [outcome EXCEPT ![j] = "closed"] \/ outcome' = outcome
          /\ UNCHANGED <<slots, live, closed, lock, mine, answer, procVars, closeVars>>
      BY <1>1, BeginEffect
    <2> QED
      BY <2>1, <2>2
  <1>2. ASSUME NEW j \in Job, AlreadyCancelled(j)
        PROVE  TypeOK'
    BY <1>2 DEF AlreadyCancelled
  <1>3. ASSUME NEW j \in Job, TakeSlot(j)
        PROVE  TypeOK'
    <2>1. Head(slots) \in Worker \cup {NoWorker} /\ Tail(slots) \in Seq(Worker \cup {NoWorker})
      BY <1>3, GetEffect DEF TakeSlot
    <2> QED
      BY <1>3, <2>1 DEF TakeSlot
  <1>4. ASSUME NEW j \in Job, StopLeasing(j)
        PROVE  TypeOK'
    BY <1>4 DEF StopLeasing
  <1>5. ASSUME NEW j \in Job, LeaseIdle(j)
        PROVE  TypeOK'
    <2>1. PICK x \in {"retiring", "readying"} : at' = [at EXCEPT ![j] = x]
      BY <1>5, LeaseIdleEffect
    <2>2. /\ outcome' = [outcome EXCEPT ![j] = "closed"] \/ outcome' = outcome
          /\ UNCHANGED <<slots, live, closed, lock, mine, answer, procVars, closeVars>>
      BY <1>5, LeaseIdleEffect
    <2> QED
      BY <1>5, <2>1, <2>2, LeaseIdleEffect
  <1>6. ASSUME NEW j \in Job, SpawnWorker(j)
        PROVE  TypeOK'
    <2>1. spawned + 1 \in Worker /\ spawned + 1 \in 0 .. MaxSpawns
      BY <1>6 DEF SpawnWorker, Worker
    <2> QED
      BY <1>6, <2>1 DEF SpawnWorker
  <1>7. ASSUME NEW j \in Job, SpawnFails(j)
        PROVE  TypeOK'
    BY <1>7 DEF SpawnFails
  <1>8. ASSUME NEW j \in Job, Register(j)
        PROVE  TypeOK'
    <2>1. at[j] = "registering" /\ mine[j] \in Worker
      BY <1>8, RegisterEffect
    <2>2. CASE Kill(mine[j]) /\ at' = [at EXCEPT ![j] = "scrapping"] /\ lock' = j /\ UNCHANGED live
               /\ outcome' = [outcome EXCEPT ![j] = "closed"]
      <3>1. UNCHANGED <<slots, closed, mine, answer, closeVars>>
        BY <1>8, RegisterEffect
      <3> QED
        BY <2>1, <2>2, <3>1, KillTypes
    <2>3. CASE /\ at' = [at EXCEPT ![j] = "readying"] /\ live' = live \cup {mine[j]}
               /\ UNCHANGED <<outcome, lock, procVars>>
      BY <1>8, <2>1, <2>3, RegisterEffect
    <2> QED
      BY <1>8, <2>2, <2>3, RegisterEffect, Zenon
  <1>9. ASSUME NEW j \in Job, Scrap(j)
        PROVE  TypeOK'
    <2>1. mine[j] \in Worker /\ Append(slots, NoWorker) \in Seq(Worker \cup {NoWorker})
      BY <1>9, PutEffect DEF Scrap
    <2> QED
      BY <1>9, <2>1 DEF Scrap, Joins
  <1>10. ASSUME NEW j \in Job, AwaitReady(j)
        PROVE  TypeOK'
    <2>1. at[j] = "readying" /\ mine[j] \in Worker
      BY <1>10, AwaitReadyEffect
    <2>2. CASE UNCHANGED procVars
      BY <1>10, <2>1, <2>2, AwaitReadyEffect
    <2>3. CASE /\ HasFrame(j, Ready) /\ TakesFrame(j)
               /\ ready' = [ready EXCEPT ![mine[j]] = TRUE]
      <3>1. Tail(frames[mine[j]]) \in Seq(Job \cup {Ready, Eof})
        BY <2>1, <2>3, GetEffect DEF HasFrame
      <3>2. /\ at' = [at EXCEPT ![j] = "sending"]
            /\ UNCHANGED <<slots, live, closed, lock, mine, outcome, answer, closeVars>>
        BY <1>10, AwaitReadyEffect
      <3> QED
        BY <2>1, <2>3, <3>1, <3>2 DEF TakesFrame
    <2> QED
      BY <1>10, <2>2, <2>3, AwaitReadyEffect, Zenon
  <1>11. ASSUME NEW j \in Job, StartupFails(j)
        PROVE  TypeOK'
    <2>1. mine[j] \in Worker
      BY <1>11 DEF StartupFails
    <2>2. frames' # frames => frames[mine[j]] # <<>>
      BY <1>11 DEF StartupFails, HasFrame
    <2>3. frames' \in [Worker -> Seq(Job \cup {Ready, Eof})]
      BY <1>11, <2>1, <2>2, GetEffect DEF StartupFails, TakesFrame
    <2> QED
      BY <1>11, <2>1, <2>3 DEF StartupFails, TakesFrame
  <1>12. ASSUME NEW j \in Job, StopReadying(j)
        PROVE  TypeOK'
    BY <1>12 DEF StopReadying
  <1>13. ASSUME NEW j \in Job, Writes(j)
        PROVE  TypeOK'
    BY <1>13 DEF Writes
  <1>14. ASSUME NEW j \in Job, SendFails(j)
        PROVE  TypeOK'
    BY <1>14 DEF SendFails
  <1>15. ASSUME NEW j \in Job, ReceiveResult(j)
        PROVE  TypeOK'
    <2>1. mine[j] \in Worker
      BY <1>15 DEF ReceiveResult
    <2>2. frames' # frames => frames[mine[j]] # <<>>
      BY <1>15 DEF ReceiveResult, HasFrame
    <2>3. frames' \in [Worker -> Seq(Job \cup {Ready, Eof})]
      BY <1>15, <2>1, <2>2, GetEffect DEF ReceiveResult, TakesFrame
    <2> QED
      BY <1>15, <2>1, <2>3 DEF ReceiveResult, TakesFrame
  <1>16. ASSUME NEW j \in Job, ReceiveDeath(j)
        PROVE  TypeOK'
    <2>1. mine[j] \in Worker
      BY <1>16 DEF ReceiveDeath
    <2>2. frames' # frames => frames[mine[j]] # <<>>
      BY <1>16 DEF ReceiveDeath, HasFrame
    <2>3. frames' \in [Worker -> Seq(Job \cup {Ready, Eof})]
      BY <1>16, <2>1, <2>2, GetEffect DEF ReceiveDeath, TakesFrame
    <2> QED
      BY <1>16, <2>1, <2>3 DEF ReceiveDeath, TakesFrame
  <1>17. ASSUME NEW j \in Job, StopReceiving(j)
        PROVE  TypeOK'
    BY <1>17 DEF StopReceiving
  <1>18. ASSUME NEW j \in Job, Release(j)
        PROVE  TypeOK'
    BY <1>18 DEF Release
  <1>19. ASSUME NEW j \in Job, Park(j)
        PROVE  TypeOK'
    BY <1>19 DEF Park
  <1>20. ASSUME NEW j \in Job, Retire(j)
        PROVE  TypeOK'
    BY <1>20 DEF Retire
  <1>21. ASSUME NEW j \in Job, RetireKills(j)
        PROVE  TypeOK'
    <2>1. Kill(mine[j]) /\ mine[j] \in Worker
      BY <1>21 DEF RetireKills
    <2> QED
      BY <1>21, <2>1, KillTypes DEF RetireKills
  <1>22. ASSUME NEW j \in Job, RetireJoins(j)
        PROVE  TypeOK'
    BY <1>22 DEF RetireJoins, Joins
  <1>23. ASSUME NEW j \in Job, Free(j)
        PROVE  TypeOK'
    BY <1>23 DEF Free
  <1>24. ASSUME CloseBegins
        PROVE  TypeOK'
    BY <1>24 DEF CloseBegins
  <1>25. ASSUME CloseSnapshots
        PROVE  TypeOK'
    <2>1. victims' \in Seq(Worker)
      BY <1>25, SnapshotEffect DEF CloseSnapshots
    <2> QED
      BY <1>25, <2>1 DEF CloseSnapshots
  <1>26. ASSUME CloseKills
        PROVE  TypeOK'
    <2>1. Kill(Head(victims)) /\ Head(victims) \in Worker
      BY <1>26, GetEffect DEF CloseKills
    <2> QED
      BY <1>26, <2>1, KillTypes DEF CloseKills
  <1>27. ASSUME CloseJoins
        PROVE  TypeOK'
    <2>1. Head(victims) \in Worker /\ Tail(victims) \in Seq(Worker)
      BY <1>27, GetEffect DEF CloseJoins
    <2> QED
      BY <1>27, <2>1 DEF CloseJoins, Joins
  <1>28. ASSUME CloseDrains
        PROVE  TypeOK'
    <2>1. CASE slots = <<>>
      BY <1>28, <2>1 DEF CloseDrains
    <2>2. CASE slots # <<>>
      <3>1. Head(slots) \in Worker \cup {NoWorker} /\ Tail(slots) \in Seq(Worker \cup {NoWorker})
        BY <2>2, GetEffect
      <3>2. Append(drained, Head(slots)) \in Seq(Worker \cup {NoWorker})
        BY <3>1, PutEffect
      <3> QED
        BY <1>28, <2>2, <3>1, <3>2 DEF CloseDrains
    <2> QED
      BY <2>1, <2>2
  <1>29. ASSUME CloseRefills
        PROVE  TypeOK'
    <2>1. Head(drained) \in Worker \cup {NoWorker} /\ Tail(drained) \in Seq(Worker \cup {NoWorker})
      BY <1>29, GetEffect DEF CloseRefills
    <2>2. CASE Head(drained) # NoWorker /\ Killable(Head(drained))
      <3>1. Kill(Head(drained)) /\ Head(drained) \in Worker
        BY <1>29, <2>1, <2>2 DEF CloseRefills
      <3> QED
        BY <1>29, <2>2, <3>1, KillTypes DEF CloseRefills
    <2>3. CASE ~(Head(drained) # NoWorker /\ Killable(Head(drained)))
      <3>1. Append(slots, NoWorker) \in Seq(Worker \cup {NoWorker})
        BY PutEffect
      <3>0. /\ slots' = Append(slots, NoWorker) /\ drained' = Tail(drained)
            /\ UNCHANGED <<live, closed, lock, jobVars, closer, victims>>
            /\ \/ Head(drained) \in Worker /\ Joins(Head(drained))
               \/ UNCHANGED procVars
        BY <1>29, <2>1, <2>3 DEF CloseRefills
      <3>2. /\ slots' = Append(slots, NoWorker) /\ drained' = Tail(drained)
            /\ UNCHANGED <<live, closed, lock, jobVars, closer, victims>>
            /\ UNCHANGED <<spawned, proc, serving, request, frames, ready, reader, ran, kin>>
            /\ shut' \subseteq Worker
        BY <3>0 DEF Joins
      <3>3. slots' \in Seq(Worker \cup {NoWorker}) /\ drained' \in Seq(Worker \cup {NoWorker})
        BY <2>1, <3>1, <3>2
      <3> QED
        BY <3>2, <3>3
    <2> QED
      BY <2>2, <2>3
  <1>30. ASSUME CloseEnds
        PROVE  TypeOK'
    BY <1>30 DEF CloseEnds
  <1>31. ASSUME NEW w \in Worker, ImportEnds(w)
        PROVE  TypeOK'
    <2>1. Ready \in Job \cup {Ready, Eof}
      BY <1>31 DEF ImportEnds, Residues
    <2>2. Append(frames[w], Ready) \in Seq(Job \cup {Ready, Eof})
      BY <2>1, PutEffect
    <2>3. /\ proc' \in [Worker -> {"unborn", "importing", "idle", "serving", "exited"}]
          /\ frames' \in [Worker -> Seq(Job \cup {Ready, Eof})]
      BY <1>31, <2>2 DEF ImportEnds
    <2>4. UNCHANGED <<slots, live, closed, lock, jobVars, spawned, ready, shut, closeVars,
                      serving, request, reader, ran, kin>>
      BY <1>31 DEF ImportEnds, ParentUntouched
    <2> QED
      BY <2>3, <2>4
  <1>32. ASSUME NEW w \in Worker, Serve(w)
        PROVE  TypeOK'
    <2>1. request[w] \in Job
      BY <1>32 DEF Serve
    <2>2. ran' \subseteq Job
      BY <1>32, <2>1 DEF Serve
    <2>3. /\ proc' \in [Worker -> {"unborn", "importing", "idle", "serving", "exited"}]
          /\ serving' \in [Worker -> Job \cup {NoJob}]
          /\ request' \in [Worker -> Job \cup {NoJob}]
      BY <1>32, <2>1 DEF Serve
    <2>4. UNCHANGED <<slots, live, closed, lock, jobVars, spawned, ready, shut, closeVars, frames, reader, kin>>
      BY <1>32 DEF Serve, ParentUntouched
    <2> QED
      BY <2>2, <2>3, <2>4
  <1>33. ASSUME NEW w \in Worker, Answer(w)
        PROVE  TypeOK'
    <2>1. serving[w] \in Job \cup {Ready, Eof}
      BY <1>33 DEF Answer, Residues
    <2>2. Append(frames[w], serving[w]) \in Seq(Job \cup {Ready, Eof})
      BY <2>1, PutEffect
    <2> QED
      BY <1>33, <2>2 DEF Answer, ParentUntouched
  <1>34. ASSUME NEW w \in Worker, Dies(w)
        PROVE  TypeOK'
    BY <1>34 DEF Dies, Escaped, ParentUntouched
  <1>35. ASSUME NEW w \in Worker, KinMoves(w)
        PROVE  TypeOK'
    BY <1>35 DEF KinMoves, ParentUntouched
  <1>36. ASSUME NEW w \in Worker, ReaderEnds(w)
        PROVE  TypeOK'
    BY <1>36 DEF ReaderEnds, ParentUntouched
  <1>37. ASSUME NEW w \in Worker, OrphanEnds(w)
        PROVE  TypeOK'
    BY <1>37, KillTypes DEF OrphanEnds
  <1>38. ASSUME ParentDies
        PROVE  TypeOK'
    <2>1. \A T : <<>> \in Seq(T)
      OBVIOUS
    <2>2. frames' \in [Worker -> Seq(Job \cup {Ready, Eof})]
      BY <1>38, <2>1 DEF ParentDies
    <2> QED
      BY <1>38, <2>1, <2>2 DEF ParentDies
  <1>39. ASSUME NEW j \in Job, SendRaises(j)
        PROVE  TypeOK'
    BY <1>39 DEF SendRaises
  <1> QED
    BY <1>1, <1>2, <1>3, <1>4, <1>5, <1>6, <1>7, <1>8, <1>9, <1>10, <1>11, <1>12, <1>13,
       <1>14, <1>15, <1>16, <1>17, <1>18, <1>19, <1>20, <1>21, <1>22, <1>23, <1>24, <1>25,
       <1>26, <1>27, <1>28, <1>29, <1>30, <1>31, <1>32, <1>33, <1>34, <1>35, <1>36, <1>37,
       <1>38, <1>39
       DEF Next, Send, SendUnread, JobAdvances, JobStops, CloseAdvances, ProcessSteps

-----------------------------------------------------------------------------
(* The width of the pool.                                                   *)

\* Who holds a slot after job j has moved to x.
LEMMA HoldersMove ==
  ASSUME TypeOK, NEW j \in Job, NEW x, at' = [at EXCEPT ![j] = x]
  PROVE  /\ x \in Holding \cup {"spawning"} => Holders' = Holders \cup {j}
         /\ x \notin Holding \cup {"spawning"} => Holders' = Holders \ {j}
         /\ j \in Holders <=> at[j] \in Holding \cup {"spawning"}
  BY DEF TypeOK, Holders

\* A step that moves no slot.
LEMMA WidthQuiet ==
  ASSUME KeepsWidth, Holders' = Holders, UNCHANGED <<slots, drained>>,
         closer' = closer \/ closer # "gone"
  PROVE  KeepsWidth'
  BY DEF KeepsWidth, SlotsConserved

\* A slot moves from job j to the end of the queue.
LEMMA SlotReturned ==
  ASSUME TypeOK, KeepsWidth, NEW j \in Holders, Holders' = Holders \ {j},
         NEW x \in Worker \cup {NoWorker}, slots' = Append(slots, x), UNCHANGED <<drained, closer>>
  PROVE  KeepsWidth'
  <1>1. IsFiniteSet(Holders') /\ Cardinality(Holders') = Cardinality(Holders) - 1
        /\ Cardinality(Holders) \in Nat
    BY FS_RemoveElement, FS_CardinalityType DEF KeepsWidth
  <1>2. Len(slots') = Len(slots) + 1 /\ Len(slots) \in Nat /\ Len(drained) \in Nat
    BY PutEffect DEF TypeOK
  <1> QED
    BY <1>1, <1>2, WidthAssumption DEF KeepsWidth, SlotsConserved

\* No step loses a slot or makes one.
LEMMA WidthStep ==
  ASSUME TypeOK, KeepsWidth, Next
  PROVE  KeepsWidth'
  <1>1. ASSUME NEW j \in Job, Begin(j)
        PROVE  KeepsWidth'
    <2>1. Holders' = Holders
      BY <1>1, BeginEffect, HoldersMove DEF Holding
    <2>2. UNCHANGED <<slots, drained, closer>>
      BY <1>1, BeginEffect DEF closeVars
    <2> QED
      BY <2>1, <2>2, WidthQuiet
  <1>2. ASSUME NEW j \in Job, AlreadyCancelled(j)
        PROVE  KeepsWidth'
    <2>0. at[j] = "idle" /\ at' = [at EXCEPT ![j] = "done"]
      BY <1>2 DEF AlreadyCancelled, Moves
    <2>1. Holders' = Holders
      BY <2>0 DEF Holders, Holding, TypeOK
    <2>2. UNCHANGED <<slots, drained, closer>>
      BY <1>2 DEF AlreadyCancelled, Moves, closeVars
    <2> QED
      BY <2>1, <2>2, WidthQuiet
  <1>3. ASSUME NEW j \in Job, TakeSlot(j)
        PROVE  KeepsWidth'
    <2>1. j \notin Holders /\ Holders' = Holders \cup {j}
      BY <1>3, HoldersMove DEF TakeSlot, Moves, Holding
    <2>2. /\ IsFiniteSet(Holders') /\ Cardinality(Holders') = Cardinality(Holders) + 1
          /\ Cardinality(Holders) \in Nat
      BY <2>1, FS_AddElement, FS_CardinalityType DEF KeepsWidth
    <2>3. Len(slots') = Len(slots) - 1 /\ Len(slots) \in Nat /\ Len(drained) \in Nat
      BY <1>3, GetEffect DEF TakeSlot, TypeOK
    <2>4. UNCHANGED <<drained, closer>>
      BY <1>3 DEF TakeSlot, closeVars
    <2> QED
      BY <2>2, <2>3, <2>4, WidthAssumption DEF KeepsWidth, SlotsConserved
  <1>4. ASSUME NEW j \in Job, StopLeasing(j)
        PROVE  KeepsWidth'
    <2>0. at[j] = "leasing" /\ at' = [at EXCEPT ![j] = "done"]
      BY <1>4 DEF StopLeasing, Moves
    <2>1. Holders' = Holders
      BY <2>0 DEF Holders, Holding, TypeOK
    <2>2. UNCHANGED <<slots, drained, closer>>
      BY <1>4 DEF StopLeasing, Moves, closeVars
    <2> QED
      BY <2>1, <2>2, WidthQuiet
  <1>5. ASSUME NEW j \in Job, LeaseIdle(j)
        PROVE  KeepsWidth'
    <2>1. Holders' = Holders
      BY <1>5, LeaseIdleEffect, HoldersMove DEF Holding
    <2>2. UNCHANGED <<slots, drained, closer>>
      BY <1>5, LeaseIdleEffect DEF closeVars
    <2> QED
      BY <2>1, <2>2, WidthQuiet
  <1>6. ASSUME NEW j \in Job, SpawnWorker(j)
        PROVE  KeepsWidth'
    <2>1. Holders' = Holders
      BY <1>6, HoldersMove DEF SpawnWorker, Moves, Holding
    <2>2. UNCHANGED <<slots, drained, closer>>
      BY <1>6 DEF SpawnWorker, Moves, closeVars
    <2> QED
      BY <2>1, <2>2, WidthQuiet
  <1>7. ASSUME NEW j \in Job, SpawnFails(j)
        PROVE  KeepsWidth'
    <2>0. at[j] = "spawning" /\ at' = [at EXCEPT ![j] = "done"]
      BY <1>7 DEF SpawnFails, Moves
    <2>1. j \in Holders /\ Holders' = Holders \ {j}
      BY <2>0 DEF Holders, Holding, TypeOK
    <2>2. slots' = Append(slots, NoWorker) /\ UNCHANGED <<drained, closer>>
      BY <1>7 DEF SpawnFails, closeVars
    <2> QED
      BY <2>1, <2>2, SlotReturned
  <1>8. ASSUME NEW j \in Job, Register(j)
        PROVE  KeepsWidth'
    <2>1. Holders' = Holders
      BY <1>8, RegisterEffect, HoldersMove DEF Holding
    <2>2. UNCHANGED <<slots, drained, closer>>
      BY <1>8, RegisterEffect DEF closeVars
    <2> QED
      BY <2>1, <2>2, WidthQuiet
  <1>9. ASSUME NEW j \in Job, Scrap(j)
        PROVE  KeepsWidth'
    <2>0. at[j] = "scrapping" /\ at' = [at EXCEPT ![j] = "done"]
      BY <1>9 DEF Scrap, Joins, Moves
    <2>1. j \in Holders /\ Holders' = Holders \ {j}
      BY <2>0 DEF Holders, Holding, TypeOK
    <2>2. slots' = Append(slots, NoWorker) /\ UNCHANGED <<drained, closer>>
      BY <1>9 DEF Scrap, Joins, closeVars
    <2> QED
      BY <2>1, <2>2, SlotReturned
  <1>10. ASSUME NEW j \in Job, AwaitReady(j)
        PROVE  KeepsWidth'
    <2>1. Holders' = Holders
      BY <1>10, AwaitReadyEffect, HoldersMove DEF Holding
    <2>2. UNCHANGED <<slots, drained, closer>>
      BY <1>10, AwaitReadyEffect DEF closeVars
    <2> QED
      BY <2>1, <2>2, WidthQuiet
  <1>11. ASSUME NEW j \in Job, StartupFails(j)
        PROVE  KeepsWidth'
    <2>1. Holders' = Holders
      BY <1>11, HoldersMove DEF StartupFails, Moves, Holding
    <2>2. UNCHANGED <<slots, drained, closer>>
      BY <1>11 DEF StartupFails, Moves, closeVars
    <2> QED
      BY <2>1, <2>2, WidthQuiet
  <1>12. ASSUME NEW j \in Job, StopReadying(j)
        PROVE  KeepsWidth'
    <2>1. Holders' = Holders
      BY <1>12, HoldersMove DEF StopReadying, Moves, Holding
    <2>2. UNCHANGED <<slots, drained, closer>>
      BY <1>12 DEF StopReadying, Moves, closeVars
    <2> QED
      BY <2>1, <2>2, WidthQuiet
  <1>13. ASSUME NEW j \in Job, Writes(j)
        PROVE  KeepsWidth'
    <2>1. Holders' = Holders
      BY <1>13, HoldersMove DEF Writes, Moves, Holding
    <2>2. UNCHANGED <<slots, drained, closer>>
      BY <1>13 DEF Writes, Moves, closeVars
    <2> QED
      BY <2>1, <2>2, WidthQuiet
  <1>14. ASSUME NEW j \in Job, SendFails(j)
        PROVE  KeepsWidth'
    <2>0. at[j] = "sending" /\ at' = [at EXCEPT ![j] = "retiring"]
      BY <1>14 DEF SendFails, Moves
    <2>1. Holders' = Holders
      BY <2>0, HoldersMove DEF Holding
    <2>2. UNCHANGED <<slots, drained, closer>>
      BY <1>14 DEF SendFails, Moves, closeVars
    <2> QED
      BY <2>1, <2>2, WidthQuiet
  <1>15. ASSUME NEW j \in Job, ReceiveResult(j)
        PROVE  KeepsWidth'
    <2>0. at[j] = "receiving" /\ at' = [at EXCEPT ![j] = "releasing"]
      BY <1>15 DEF ReceiveResult, Moves
    <2>1. Holders' = Holders
      BY <2>0 DEF Holders, Holding, TypeOK
    <2>2. UNCHANGED <<slots, drained, closer>>
      BY <1>15 DEF ReceiveResult, Moves, closeVars
    <2> QED
      BY <2>1, <2>2, WidthQuiet
  <1>16. ASSUME NEW j \in Job, ReceiveDeath(j)
        PROVE  KeepsWidth'
    <2>1. Holders' = Holders
      BY <1>16, HoldersMove DEF ReceiveDeath, Moves, Holding
    <2>2. UNCHANGED <<slots, drained, closer>>
      BY <1>16 DEF ReceiveDeath, Moves, closeVars
    <2> QED
      BY <2>1, <2>2, WidthQuiet
  <1>17. ASSUME NEW j \in Job, StopReceiving(j)
        PROVE  KeepsWidth'
    <2>1. Holders' = Holders
      BY <1>17, HoldersMove DEF StopReceiving, Moves, Holding
    <2>2. UNCHANGED <<slots, drained, closer>>
      BY <1>17 DEF StopReceiving, Moves, closeVars
    <2> QED
      BY <2>1, <2>2, WidthQuiet
  <1>18. ASSUME NEW j \in Job, Release(j)
        PROVE  KeepsWidth'
    <2>1. Holders' = Holders
      BY <1>18, HoldersMove DEF Release, Moves, Holding
    <2>2. UNCHANGED <<slots, drained, closer>>
      BY <1>18 DEF Release, Moves, closeVars
    <2> QED
      BY <2>1, <2>2, WidthQuiet
  <1>19. ASSUME NEW j \in Job, Park(j)
        PROVE  KeepsWidth'
    <2>0. at[j] = "parking" /\ at' = [at EXCEPT ![j] = "done"]
      BY <1>19 DEF Park, Moves
    <2>1. j \in Holders /\ Holders' = Holders \ {j}
      BY <2>0 DEF Holders, Holding, TypeOK
    <2>2. slots' = Append(slots, mine[j]) /\ UNCHANGED <<drained, closer>>
      BY <1>19 DEF Park, closeVars
    <2> QED
      BY <2>1, <2>2, SlotReturned DEF TypeOK
  <1>20. ASSUME NEW j \in Job, Retire(j)
        PROVE  KeepsWidth'
    <2>1. Holders' = Holders
      BY <1>20, HoldersMove DEF Retire, Moves, Holding
    <2>2. UNCHANGED <<slots, drained, closer>>
      BY <1>20 DEF Retire, Moves, closeVars
    <2> QED
      BY <2>1, <2>2, WidthQuiet
  <1>21. ASSUME NEW j \in Job, RetireKills(j)
        PROVE  KeepsWidth'
    <2>1. Holders' = Holders
      BY <1>21, HoldersMove DEF RetireKills, Moves, Holding
    <2>2. UNCHANGED <<slots, drained, closer>>
      BY <1>21 DEF RetireKills, Moves, closeVars
    <2> QED
      BY <2>1, <2>2, WidthQuiet
  <1>22. ASSUME NEW j \in Job, RetireJoins(j)
        PROVE  KeepsWidth'
    <2>1. Holders' = Holders
      BY <1>22, HoldersMove DEF RetireJoins, Joins, Moves, Holding
    <2>2. UNCHANGED <<slots, drained, closer>>
      BY <1>22 DEF RetireJoins, Joins, Moves, closeVars
    <2> QED
      BY <2>1, <2>2, WidthQuiet
  <1>23. ASSUME NEW j \in Job, Free(j)
        PROVE  KeepsWidth'
    <2>0. at[j] = "freeing" /\ at' = [at EXCEPT ![j] = "done"]
      BY <1>23 DEF Free, Moves
    <2>1. j \in Holders /\ Holders' = Holders \ {j}
      BY <2>0 DEF Holders, Holding, TypeOK
    <2>2. slots' = Append(slots, NoWorker) /\ UNCHANGED <<drained, closer>>
      BY <1>23 DEF Free, closeVars
    <2> QED
      BY <2>1, <2>2, SlotReturned
  <1>24. ASSUME CloseBegins
        PROVE  KeepsWidth'
    <2>1. UNCHANGED <<at, slots, drained>> /\ closer # "gone"
      BY <1>24 DEF CloseBegins, jobVars, closeVars
    <2> QED
      BY <2>1, WidthQuiet DEF Holders
  <1>25. ASSUME CloseSnapshots
        PROVE  KeepsWidth'
    <2>1. UNCHANGED <<at, slots, drained>> /\ closer # "gone"
      BY <1>25 DEF CloseSnapshots, jobVars, closeVars
    <2> QED
      BY <2>1, WidthQuiet DEF Holders
  <1>26. ASSUME CloseKills
        PROVE  KeepsWidth'
    <2>1. UNCHANGED <<at, slots, drained>> /\ closer # "gone"
      BY <1>26 DEF CloseKills, jobVars, closeVars
    <2> QED
      BY <2>1, WidthQuiet DEF Holders
  <1>27. ASSUME CloseJoins
        PROVE  KeepsWidth'
    <2>1. UNCHANGED <<at, slots, drained>> /\ closer # "gone"
      BY <1>27 DEF CloseJoins, Joins, jobVars, closeVars
    <2> QED
      BY <2>1, WidthQuiet DEF Holders
  <1>28. ASSUME CloseDrains
        PROVE  KeepsWidth'
    <2>1. Holders' = Holders /\ closer' # "gone" /\ closer # "gone"
      BY <1>28 DEF CloseDrains, jobVars, Holders
    <2>2. CASE slots = <<>>
      BY <1>28, <2>1, <2>2, WidthQuiet DEF CloseDrains
    <2>3. CASE slots # <<>>
      <3>1. /\ Len(slots') = Len(slots) - 1 /\ Len(slots) \in Nat
            /\ Len(drained') = Len(drained) + 1 /\ Len(drained) \in Nat
        BY <1>28, <2>3, GetEffect, PutEffect DEF CloseDrains, TypeOK
      <3>2. Cardinality(Holders) \in Nat
        BY FS_CardinalityType DEF KeepsWidth
      <3> QED
        BY <2>1, <3>1, <3>2, WidthAssumption DEF KeepsWidth, SlotsConserved
    <2> QED
      BY <2>2, <2>3
  <1>29. ASSUME CloseRefills
        PROVE  KeepsWidth'
    <2>1. Holders' = Holders /\ UNCHANGED closer
      BY <1>29 DEF CloseRefills, jobVars, Holders
    <2>2. CASE Head(drained) # NoWorker /\ Killable(Head(drained))
      BY <1>29, <2>1, <2>2, WidthQuiet DEF CloseRefills
    <2>3. CASE ~(Head(drained) # NoWorker /\ Killable(Head(drained)))
      <3>1. drained # <<>> /\ slots' = Append(slots, NoWorker) /\ drained' = Tail(drained)
        BY <1>29, <2>3 DEF CloseRefills
      <3>2. /\ Len(slots') = Len(slots) + 1 /\ Len(slots) \in Nat
            /\ Len(drained') = Len(drained) - 1 /\ Len(drained) \in Nat
        BY <3>1, GetEffect, PutEffect DEF TypeOK
      <3>3. Cardinality(Holders) \in Nat
        BY FS_CardinalityType DEF KeepsWidth
      <3> QED
        BY <2>1, <3>2, <3>3, WidthAssumption DEF KeepsWidth, SlotsConserved
    <2> QED
      BY <2>2, <2>3
  <1>30. ASSUME CloseEnds
        PROVE  KeepsWidth'
    <2>1. UNCHANGED <<at, slots, drained>> /\ closer # "gone"
      BY <1>30 DEF CloseEnds, jobVars, closeVars
    <2> QED
      BY <2>1, WidthQuiet DEF Holders
  <1>31. ASSUME NEW w \in Worker, ImportEnds(w)
        PROVE  KeepsWidth'
    <2>1. UNCHANGED <<at, slots, drained, closer>>
      BY <1>31 DEF ImportEnds, ParentUntouched, jobVars, closeVars
    <2> QED
      BY <2>1, WidthQuiet DEF Holders
  <1>32. ASSUME NEW w \in Worker, Serve(w)
        PROVE  KeepsWidth'
    <2>1. UNCHANGED <<at, slots, drained, closer>>
      BY <1>32 DEF Serve, ParentUntouched, jobVars, closeVars
    <2> QED
      BY <2>1, WidthQuiet DEF Holders
  <1>33. ASSUME NEW w \in Worker, Answer(w)
        PROVE  KeepsWidth'
    <2>1. UNCHANGED <<at, slots, drained, closer>>
      BY <1>33 DEF Answer, ParentUntouched, jobVars, closeVars
    <2> QED
      BY <2>1, WidthQuiet DEF Holders
  <1>34. ASSUME NEW w \in Worker, Dies(w)
        PROVE  KeepsWidth'
    <2>1. UNCHANGED <<at, slots, drained, closer>>
      BY <1>34 DEF Dies, ParentUntouched, jobVars, closeVars
    <2> QED
      BY <2>1, WidthQuiet DEF Holders
  <1>35. ASSUME NEW w \in Worker, KinMoves(w)
        PROVE  KeepsWidth'
    <2>1. UNCHANGED <<at, slots, drained, closer>>
      BY <1>35 DEF KinMoves, ParentUntouched, jobVars, closeVars
    <2> QED
      BY <2>1, WidthQuiet DEF Holders
  <1>36. ASSUME NEW w \in Worker, ReaderEnds(w)
        PROVE  KeepsWidth'
    <2>1. UNCHANGED <<at, slots, drained, closer>>
      BY <1>36 DEF ReaderEnds, ParentUntouched, jobVars, closeVars
    <2> QED
      BY <2>1, WidthQuiet DEF Holders
  <1>37. ASSUME NEW w \in Worker, OrphanEnds(w)
        PROVE  KeepsWidth'
    <2>1. UNCHANGED <<at, slots, drained, closer>>
      BY <1>37 DEF OrphanEnds, ParentUntouched, jobVars, closeVars
    <2> QED
      BY <2>1, WidthQuiet DEF Holders
  <1>38. ASSUME ParentDies
        PROVE  KeepsWidth'
    <2>1. Holders' = {} /\ closer' = "gone"
      BY <1>38 DEF ParentDies, Holders, Holding
    <2> QED
      BY <2>1, FS_EmptySet DEF KeepsWidth, SlotsConserved
  <1>39. ASSUME NEW j \in Job, SendRaises(j)
        PROVE  KeepsWidth'
    <2>1. Holders' = Holders
      BY <1>39, HoldersMove DEF SendRaises, Moves, Holding
    <2>2. UNCHANGED <<slots, drained, closer>>
      BY <1>39 DEF SendRaises, Moves, closeVars
    <2> QED
      BY <2>1, <2>2, WidthQuiet
  <1> QED
    BY <1>1, <1>2, <1>3, <1>4, <1>5, <1>6, <1>7, <1>8, <1>9, <1>10, <1>11, <1>12, <1>13,
       <1>14, <1>15, <1>16, <1>17, <1>18, <1>19, <1>20, <1>21, <1>22, <1>23, <1>24, <1>25,
       <1>26, <1>27, <1>28, <1>29, <1>30, <1>31, <1>32, <1>33, <1>34, <1>35, <1>36, <1>37,
       <1>38, <1>39
       DEF Next, Send, SendUnread, JobAdvances, JobStops, CloseAdvances, ProcessSteps

-----------------------------------------------------------------------------
(* Leases.                                                                  *)

\* The queue after a put of an empty slot, with or without the end of a lease.
LEMMA EmptySlotReturned ==
  ASSUME TypeOK, Spawned, LeasesAreExclusive, slots' = Append(slots, NoWorker), UNCHANGED spawned,
         mine' = mine \/ \E j \in Job : mine' = [mine EXCEPT ![j] = NoWorker]
  PROVE  Spawned' /\ LeasesAreExclusive'
  <1>1. /\ Len(slots') = Len(slots) + 1 /\ Len(slots) \in Nat
        /\ \A i \in 1 .. Len(slots) + 1 : slots'[i] = IF i = Len(slots) + 1 THEN NoWorker ELSE slots[i]
    BY PutEffect DEF TypeOK
  <1>2. \A j \in Job : mine'[j] \in {mine[j], NoWorker}
    BY DEF TypeOK
  <1> QED
    BY <1>1, <1>2 DEF Spawned, LeasesAreExclusive

\* A step never makes two owners of one worker.
LEMMA LeaseStep ==
  ASSUME TypeOK, Spawned, LeasesAreExclusive, Next
  PROVE  Spawned' /\ LeasesAreExclusive'
  <1>1. ASSUME NEW j \in Job, 
               \/ Begin(j) \/ AlreadyCancelled(j) \/ StopLeasing(j) \/ LeaseIdle(j)
               \/ Register(j) \/ AwaitReady(j) \/ StartupFails(j) \/ StopReadying(j)
               \/ Writes(j) \/ SendFails(j) \/ SendRaises(j) \/ ReceiveResult(j) \/ ReceiveDeath(j)
               \/ StopReceiving(j) \/ Release(j) \/ Retire(j) \/ RetireKills(j)
               \/ RetireJoins(j)
        PROVE  Spawned' /\ LeasesAreExclusive'
    <2>1. UNCHANGED <<mine, slots, spawned>>
      BY <1>1 DEF Begin, AlreadyCancelled, StopLeasing, LeaseIdle, Register, Kill, AwaitReady,
          TakesFrame, StartupFails, StopReadying, Writes, SendFails, SendRaises, ReceiveResult, ReceiveDeath,
          StopReceiving, Release, Retire, RetireKills, RetireJoins, Joins, jobVars, procVars
    <2> QED
      BY <2>1 DEF Spawned, LeasesAreExclusive
  <1>2. ASSUME NEW w \in Worker, 
               \/ ImportEnds(w) \/ Serve(w) \/ Answer(w) \/ Dies(w) \/ KinMoves(w)
               \/ ReaderEnds(w) \/ OrphanEnds(w)
        PROVE  Spawned' /\ LeasesAreExclusive'
    <2>1. UNCHANGED <<mine, slots, spawned>>
      BY <1>2 DEF ImportEnds, ParentUntouched, Serve, Answer, Dies, KinMoves, ReaderEnds,
          OrphanEnds, Kill, jobVars, procVars
    <2> QED
      BY <2>1 DEF Spawned, LeasesAreExclusive
  <1>3. ASSUME \/ CloseBegins \/ CloseSnapshots \/ CloseKills \/ CloseJoins
               \/ CloseEnds
        PROVE  Spawned' /\ LeasesAreExclusive'
    <2>1. UNCHANGED <<mine, slots, spawned>>
      BY <1>3 DEF CloseBegins, CloseSnapshots, CloseKills, Kill, CloseJoins, Joins, CloseEnds, jobVars,
          procVars
    <2> QED
      BY <2>1 DEF Spawned, LeasesAreExclusive
  <1>4. ASSUME NEW j \in Job, TakeSlot(j)
        PROVE  Spawned' /\ LeasesAreExclusive'
    <2>1. /\ Head(slots) = slots[1] /\ 1 \in 1 .. Len(slots) /\ Len(slots) \in Nat
          /\ Len(slots') = Len(slots) - 1
          /\ \A i \in 1 .. Len(slots) - 1 : slots'[i] = slots[i + 1] /\ i + 1 \in 1 .. Len(slots)
      BY <1>4, GetEffect DEF TakeSlot, TypeOK
    <2>2. mine' = [mine EXCEPT ![j] = slots[1]] /\ spawned' = spawned
      BY <1>4, <2>1 DEF TakeSlot, procVars
    <2>3. Spawned'
      BY <2>1, <2>2 DEF TypeOK, Spawned
    <2>4. LeasesAreExclusive'
      <3>1. \A k \in Job : mine'[k] = IF k = j THEN slots[1] ELSE mine[k]
        BY <2>2 DEF TypeOK
      <3>2. \A k \in Job : mine[k] = slots[1] => mine[k] = NoWorker
        BY <2>1 DEF LeasesAreExclusive
      <3>3. \A h, k \in Job : h # k /\ mine'[h] = mine'[k] => mine'[h] = NoWorker
        BY <3>1, <3>2 DEF LeasesAreExclusive
      <3>4. \A i \in 1 .. Len(slots') : /\ slots'[i] = slots[i + 1] /\ i + 1 \in 1 .. Len(slots)
                                        /\ i + 1 # 1
        BY <2>1
      <3>5. \A k \in Job, i \in 1 .. Len(slots') : slots'[i] = mine'[k] => mine'[k] = NoWorker
        BY <2>1, <3>1, <3>4 DEF LeasesAreExclusive
      <3>6. \A h, i \in 1 .. Len(slots') : h # i /\ slots'[h] = slots'[i] => slots'[i] = NoWorker
        BY <2>1, <3>4 DEF LeasesAreExclusive
      <3> QED
        BY <3>3, <3>5, <3>6 DEF LeasesAreExclusive
    <2> QED
      BY <2>3, <2>4
  <1>5. ASSUME NEW j \in Job, SpawnWorker(j)
        PROVE  Spawned' /\ LeasesAreExclusive'
    <2>1. /\ mine' = [mine EXCEPT ![j] = spawned + 1] /\ spawned' = spawned + 1
          /\ spawned \in Nat /\ UNCHANGED slots
      BY <1>5 DEF SpawnWorker, TypeOK
    <2>2. /\ spawned + 1 # NoWorker
          /\ \A k \in Job : mine[k] # spawned + 1
          /\ \A i \in 1 .. Len(slots) : slots[i] # spawned + 1
      <3>1. spawned + 1 \in Worker
        BY <1>5, <2>1, WidthAssumption DEF SpawnWorker, Worker
      <3> QED
        BY <2>1, <3>1, Tokens DEF Spawned
    <2>3. Spawned'
      BY <2>1 DEF TypeOK, Spawned
    <2>4. LeasesAreExclusive'
      BY <2>1, <2>2 DEF TypeOK, LeasesAreExclusive
    <2> QED
      BY <2>3, <2>4
  <1>6. ASSUME NEW j \in Job, SpawnFails(j)
        PROVE  Spawned' /\ LeasesAreExclusive'
    BY <1>6, EmptySlotReturned DEF SpawnFails, procVars
  <1>7. ASSUME NEW j \in Job, Scrap(j)
        PROVE  Spawned' /\ LeasesAreExclusive'
    BY <1>7, EmptySlotReturned DEF Scrap, Joins, procVars
  <1>8. ASSUME NEW j \in Job, Park(j)
        PROVE  Spawned' /\ LeasesAreExclusive'
    <2>1. mine[j] \in Worker \cup {NoWorker} /\ slots' = Append(slots, mine[j])
          /\ mine' = [mine EXCEPT ![j] = NoWorker] /\ spawned' = spawned
      BY <1>8 DEF Park, TypeOK, procVars
    <2>2. /\ Len(slots') = Len(slots) + 1 /\ Len(slots) \in Nat
          /\ \A i \in 1 .. Len(slots) + 1 :
               slots'[i] = IF i = Len(slots) + 1 THEN mine[j] ELSE slots[i]
      BY <2>1, PutEffect DEF TypeOK
    <2>3. Spawned'
      BY <2>1, <2>2 DEF TypeOK, Spawned
    <2>4. LeasesAreExclusive'
      <3>1. \A k \in Job : mine'[k] = IF k = j THEN NoWorker ELSE mine[k]
        BY <2>1 DEF TypeOK
      <3> QED
        BY <2>2, <3>1 DEF LeasesAreExclusive
    <2> QED
      BY <2>3, <2>4
  <1>9. ASSUME NEW j \in Job, Free(j)
        PROVE  Spawned' /\ LeasesAreExclusive'
    BY <1>9, EmptySlotReturned DEF Free, procVars
  <1>10. ASSUME CloseDrains
        PROVE  Spawned' /\ LeasesAreExclusive'
    <2>1. UNCHANGED <<mine, spawned>>
      BY <1>10 DEF CloseDrains, jobVars, procVars
    <2>2. CASE slots = <<>>
      BY <1>10, <2>1, <2>2 DEF CloseDrains, Spawned, LeasesAreExclusive
    <2>3. CASE slots # <<>>
      <3>0. slots' = Tail(slots)
        BY <1>10, <2>3 DEF CloseDrains
      <3>1. /\ Len(slots) \in Nat /\ Len(slots') = Len(slots) - 1
            /\ \A i \in 1 .. Len(slots) - 1 : slots'[i] = slots[i + 1] /\ i + 1 \in 1 .. Len(slots)
        BY <2>3, <3>0, GetEffect DEF TypeOK
      <3> QED
        BY <2>1, <3>1 DEF Spawned, LeasesAreExclusive
    <2> QED
      BY <2>2, <2>3
  <1>11. ASSUME CloseRefills
        PROVE  Spawned' /\ LeasesAreExclusive'
    <2>1. UNCHANGED <<mine, spawned>>
      BY <1>11 DEF CloseRefills, Kill, Joins, jobVars, procVars
    <2>2. CASE UNCHANGED slots
      BY <2>1, <2>2 DEF Spawned, LeasesAreExclusive
    <2>3. CASE slots' = Append(slots, NoWorker)
      BY <2>1, <2>3, EmptySlotReturned
    <2> QED
      BY <1>11, <2>2, <2>3 DEF CloseRefills
  <1>12. ASSUME ParentDies
        PROVE  Spawned' /\ LeasesAreExclusive'
    BY <1>12 DEF ParentDies, Spawned, LeasesAreExclusive
  <1> QED
    BY <1>1, <1>2, <1>3, <1>4, <1>5, <1>6, <1>7, <1>8, <1>9, <1>10, <1>11, <1>12
       DEF Next, Send, SendUnread, JobAdvances, JobStops, CloseAdvances, ProcessSteps

-----------------------------------------------------------------------------
(* Requests and results.                                                    *)

\* A step that puts nothing of a job into a worker that had nothing of it.
Tidy ==
  /\ \A v \in Worker : proc'[v] = "serving" <=> serving'[v] # NoJob
  /\ Spare \subseteq Spare'
  /\ \A k \in Job : Debtors(k) \subseteq Debtors(k)'

\* Such a step keeps the residues where they are, if the jobs that move and the
\* workers that are put back are entitled to it.
LEMMA TidyKeeps ==
  ASSUME TypeOK, Residues, Tidy, spawned' \in {spawned, spawned + 1},
         \A i \in 1 .. Len(slots') : slots'[i] \in Spare \cup {NoWorker},
         \A k \in Job : \/ at'[k] = at[k] /\ mine'[k] = mine[k]
                        \/ /\ at'[k] # "receiving"
                           /\ at'[k] \in Unasked => mine'[k] \in Spare \cup Spare'
  PROVE  Residues'
  <1>1. \A w \in spawned' + 1 .. MaxSpawns : w \in Spare'
    <2>1. \A w \in spawned' + 1 .. MaxSpawns : w \in spawned + 1 .. MaxSpawns
      <3>1. spawned \in Nat /\ MaxSpawns \in Nat /\ (spawned' = spawned \/ spawned' = spawned + 1)
        BY WidthAssumption DEF TypeOK
      <3>2. CASE spawned' = spawned
        BY <3>1, <3>2
      <3>3. CASE spawned' = spawned + 1
        BY <3>1, <3>3
      <3> QED
        BY <3>1, <3>2, <3>3
    <2> QED
      BY <2>1 DEF Residues, Tidy
  <1>2. \A i \in 1 .. Len(slots') : slots'[i] \in Spare' \cup {NoWorker}
    BY DEF Tidy
  <1>3. \A k \in Job : at'[k] \in Unasked => mine'[k] \in Spare'
    BY DEF Residues, Tidy
  <1>4. \A k \in Job : at'[k] = "receiving" => mine'[k] \in Debtors(k)'
    BY DEF Residues, Tidy
  <1> QED
    BY <1>1, <1>2, <1>3, <1>4 DEF Residues, Tidy

\* The same where neither leases nor slots change.
LEMMA TidyMoves ==
  ASSUME TypeOK, Residues, Tidy, UNCHANGED <<slots, spawned, mine>>,
         \A k \in Job : \/ at'[k] = at[k]
                        \/ at'[k] # "receiving" /\ (at'[k] \in Unasked => at[k] \in Unasked)
  PROVE  Residues'
  <1>1. \A i \in 1 .. Len(slots') : slots'[i] \in Spare \cup {NoWorker}
    BY DEF Residues
  <1>2. \A k \in Job : \/ at'[k] = at[k] /\ mine'[k] = mine[k]
                       \/ /\ at'[k] # "receiving"
                          /\ at'[k] \in Unasked => mine'[k] \in Spare \cup Spare'
    BY DEF Residues
  <1> QED
    BY <1>1, <1>2, TidyKeeps

\* Nothing happens to the processes.
LEMMA TidyQuiet ==
  ASSUME Residues, UNCHANGED <<proc, serving, request, frames>>
  PROVE  Tidy
  BY DEF Residues, Tidy, Spare, Debtors, Clean, Owes

\* One process is killed.
LEMMA TidyKill ==
  ASSUME TypeOK, Residues, NEW w \in Worker, Kill(w)
  PROVE  Tidy
  BY DEF TypeOK, Residues, Tidy, Spare, Debtors, Clean, Owes, Kill

\* Tidiness, worker by worker.
LEMMA TidyEach ==
  ASSUME \A v \in Worker : proc'[v] = "serving" <=> serving'[v] # NoJob,
         \A v \in Worker : Clean(v) => Clean(v)',
         \A v \in Worker : \A k \in Job : Owes(v, k) => Owes(v, k)'
  PROVE  Tidy
  BY DEF Tidy, Spare, Debtors

\* Workers whose pipes do not change keep what they have.
LEMMA Elsewhere ==
  ASSUME NEW v \in Worker, request'[v] = request[v], serving'[v] = serving[v],
         frames'[v] = frames[v]
  PROVE  (Clean(v) => Clean(v)') /\ \A k \in Job : Owes(v, k) => Owes(v, k)'
  BY DEF Clean, Owes

\* One frame is taken from the result queue of worker w.
LEMMA TidyGet ==
  ASSUME TypeOK, Residues, NEW w \in Worker, frames[w] # <<>>,
         frames' = [frames EXCEPT ![w] = Tail(@)], UNCHANGED <<proc, serving, request>>
  PROVE  Tidy
  <1>1. PICK q \in Seq(Job \cup {Ready, Eof}) : q = frames[w] /\ q # <<>>
    BY DEF TypeOK
  <1>2. frames'[w] = Tail(q) /\ \A v \in Worker \ {w} : frames'[v] = frames[v]
    BY <1>1 DEF TypeOK
  <1>3. /\ Len(q) \in Nat /\ Len(frames'[w]) = Len(q) - 1
        /\ \A i \in 1 .. Len(frames'[w]) : frames'[w][i] = q[i + 1] /\ i + 1 \in 1 .. Len(q)
    <2>1. /\ Len(q) \in Nat /\ Len(Tail(q)) = Len(q) - 1
          /\ \A i \in 1 .. Len(q) - 1 : Tail(q)[i] = q[i + 1] /\ i + 1 \in 1 .. Len(q)
      BY <1>1, GetEffect
    <2> QED
      BY <1>2, <2>1
  <1>4. Clean(w) => Clean(w)'
    BY <1>1, <1>3 DEF Clean
  <1>5. ASSUME NEW k \in Job, Owes(w, k) PROVE Owes(w, k)'
    <2>1. ASSUME NEW i \in 1 .. Len(frames'[w]), frames'[w][i] \in Job
          PROVE  /\ frames'[w][i] = k /\ request[w] = NoJob /\ serving[w] = NoJob
                 /\ \A h \in 1 .. Len(frames'[w]) : frames'[w][h] \in Job => h = i
      <3>1. i + 1 \in 1 .. Len(q) /\ q[i + 1] \in Job /\ frames'[w][i] = q[i + 1]
        BY <1>3, <2>1
      <3>2. /\ q[i + 1] = k /\ request[w] = NoJob /\ serving[w] = NoJob
            /\ \A h \in 1 .. Len(q) : q[h] \in Job => h = i + 1
        BY <1>1, <1>5, <3>1 DEF Owes
      <3>3. ASSUME NEW h \in 1 .. Len(frames'[w]), frames'[w][h] \in Job PROVE h = i
        <4>1. h + 1 = i + 1
          BY <1>3, <3>2, <3>3
        <4>2. h \in Int /\ i \in Int
          BY <1>3
        <4> QED
          BY <4>1, <4>2
      <3> QED
        BY <3>1, <3>2, <3>3
    <2> QED
      BY <1>5, <2>1 DEF Owes
  <1>6. \A v \in Worker : Clean(v) => Clean(v)'
    BY <1>2, <1>4, Elsewhere
  <1>7. \A v \in Worker : \A k \in Job : Owes(v, k) => Owes(v, k)'
    BY <1>2, <1>5, Elsewhere
  <1> QED
    BY <1>6, <1>7, TidyEach DEF Residues

\* A frame that is not a result is put into it.
LEMMA TidyPut ==
  ASSUME TypeOK, Residues, NEW w \in Worker, NEW f \in {Ready, Eof},
         frames' = [frames EXCEPT ![w] = Append(@, f)], UNCHANGED <<serving, request>>,
         \A v \in Worker : proc'[v] = "serving" <=> proc[v] = "serving"
  PROVE  Tidy
  <1>1. PICK q \in Seq(Job \cup {Ready, Eof}) : q = frames[w]
    BY DEF TypeOK
  <1>2. frames'[w] = Append(q, f) /\ \A v \in Worker \ {w} : frames'[v] = frames[v]
    BY <1>1 DEF TypeOK
  <1>3. /\ Len(q) \in Nat
        /\ \A i \in 1 .. Len(frames'[w]) : \/ frames'[w][i] \notin Job
                                           \/ i \in 1 .. Len(q) /\ frames'[w][i] = q[i]
    BY <1>1, <1>2, PutEffect, Tokens
  <1>4. Clean(w) => Clean(w)'
    BY <1>1, <1>3 DEF Clean
  <1>5. ASSUME NEW k \in Job, Owes(w, k) PROVE Owes(w, k)'
    BY <1>1, <1>3, <1>5 DEF Owes
  <1>6. \A v \in Worker : Clean(v) => Clean(v)'
    BY <1>2, <1>4, Elsewhere
  <1>7. \A v \in Worker : \A k \in Job : Owes(v, k) => Owes(v, k)'
    BY <1>2, <1>5, Elsewhere
  <1> QED
    BY <1>6, <1>7, TidyEach DEF Residues

\* The frame a waiting job finds, if it is a result, is its own, and the last thing
\* of a job in its worker.
LEMMA Claimed ==
  ASSUME TypeOK, Residues, NEW j \in Job, at[j] = "receiving", NEW k \in Job, HasFrame(j, k)
  PROVE  /\ k = j /\ mine[j] \in Worker /\ frames[mine[j]] # <<>>
         /\ TakesFrame(j) => mine[j] \in Spare'
  <1>1. PICK w \in Worker : w = mine[j] /\ Owes(w, j)
    BY DEF Residues, Debtors
  <1>2. PICK q \in Seq(Job \cup {Ready, Eof}) : q = frames[w] /\ q # <<>> /\ Head(q) = k
    BY <1>1 DEF TypeOK, HasFrame
  <1>3. 1 \in 1 .. Len(q) /\ q[1] = k
    BY <1>2, GetEffect
  <1>4. /\ k = j /\ request[w] = NoJob /\ serving[w] = NoJob
        /\ \A h \in 1 .. Len(q) : q[h] \in Job => h = 1
    BY <1>1, <1>2, <1>3 DEF Owes
  <1>5. ASSUME TakesFrame(j) PROVE w \in Spare'
    <2>1. frames'[w] = Tail(q) /\ UNCHANGED <<request, serving>>
      BY <1>1, <1>2, <1>5 DEF TakesFrame, TypeOK
    <2>2. \A i \in 1 .. Len(frames'[w]) : frames'[w][i] \notin Job
      <3>1. \A i \in 1 .. Len(frames'[w]) : frames'[w][i] = q[i + 1] /\ i + 1 \in 1 .. Len(q)
        BY <1>2, <2>1, GetEffect
      <3> QED
        BY <1>2, <1>4, <3>1
    <2> QED
      BY <1>4, <2>1, <2>2 DEF Spare, Clean
  <1> QED
    BY <1>1, <1>2, <1>4, <1>5

\* What a worker holds of a job stays with that job.
LEMMA ResidueStep ==
  ASSUME TypeOK, Spawned, LeasesAreExclusive, Residues, Next
  PROVE  Residues'
  <1>1. ASSUME NEW j \in Job, Begin(j)
        PROVE  Residues'
    <2>1. UNCHANGED <<proc, serving, request, frames, slots, spawned, mine>>
      BY <1>1, BeginEffect DEF procVars
    <2>2. \A k \in Job : \/ at'[k] = at[k]
                         \/ at'[k] # "receiving" /\ (at'[k] \in Unasked => at[k] \in Unasked)
      BY <1>1, BeginEffect DEF Unasked, TypeOK
    <2> QED
      BY <2>1, <2>2, TidyQuiet, TidyMoves
  <1>2. ASSUME NEW j \in Job, AlreadyCancelled(j)
        PROVE  Residues'
    <2>1. UNCHANGED <<proc, serving, request, frames, slots, spawned, mine>>
      BY <1>2 DEF AlreadyCancelled, procVars
    <2>2. \A k \in Job : \/ at'[k] = at[k]
                         \/ at'[k] # "receiving" /\ (at'[k] \in Unasked => at[k] \in Unasked)
      BY <1>2 DEF AlreadyCancelled, Moves, Unasked, TypeOK
    <2> QED
      BY <2>1, <2>2, TidyQuiet, TidyMoves
  <1>3. ASSUME NEW j \in Job, TakeSlot(j)
        PROVE  Residues'
    <2>1. Tidy /\ UNCHANGED spawned
      BY <1>3, TidyQuiet DEF TakeSlot, procVars
    <2>2. /\ Head(slots) = slots[1] /\ 1 \in 1 .. Len(slots)
          /\ \A i \in 1 .. Len(slots') : slots'[i] = slots[i + 1] /\ i + 1 \in 1 .. Len(slots)
      <3>1. slots # <<>> /\ slots' = Tail(slots) /\ slots \in Seq(Worker \cup {NoWorker})
        BY <1>3 DEF TakeSlot, TypeOK
      <3> QED
        BY <3>1, GetEffect
    <2>3. \A i \in 1 .. Len(slots') : slots'[i] \in Spare \cup {NoWorker}
      BY <2>2 DEF Residues
    <2>4. Head(slots) \in Spare \cup {NoWorker}
      BY <2>2 DEF Residues
    <2>5. \A k \in Job : \/ at'[k] = at[k] /\ mine'[k] = mine[k]
                         \/ /\ at'[k] # "receiving"
                            /\ at'[k] \in Unasked => mine'[k] \in Spare \cup Spare'
      BY <1>3, <2>4 DEF TakeSlot, Moves, Unasked, TypeOK
    <2> QED
      BY <2>1, <2>3, <2>5, TidyKeeps
  <1>4. ASSUME NEW j \in Job, StopLeasing(j)
        PROVE  Residues'
    <2>1. UNCHANGED <<proc, serving, request, frames, slots, spawned, mine>>
      BY <1>4 DEF StopLeasing, procVars
    <2>2. \A k \in Job : \/ at'[k] = at[k]
                         \/ at'[k] # "receiving" /\ (at'[k] \in Unasked => at[k] \in Unasked)
      BY <1>4 DEF StopLeasing, Moves, Unasked, TypeOK
    <2> QED
      BY <2>1, <2>2, TidyQuiet, TidyMoves
  <1>5. ASSUME NEW j \in Job, LeaseIdle(j)
        PROVE  Residues'
    <2>1. UNCHANGED <<proc, serving, request, frames, slots, spawned, mine>>
      BY <1>5, LeaseIdleEffect DEF procVars
    <2>2. \A k \in Job : \/ at'[k] = at[k]
                         \/ at'[k] # "receiving" /\ (at'[k] \in Unasked => at[k] \in Unasked)
      BY <1>5, LeaseIdleEffect DEF Unasked, TypeOK
    <2> QED
      BY <2>1, <2>2, TidyQuiet, TidyMoves
  <1>6. ASSUME NEW j \in Job, SpawnWorker(j)
        PROVE  Residues'
    <2>1. spawned + 1 \in spawned + 1 .. MaxSpawns /\ spawned' = spawned + 1 /\ spawned + 1 \in Worker
      BY <1>6, WidthAssumption DEF SpawnWorker, TypeOK, Worker
    <2>2. spawned + 1 \in Spare
      BY <2>1 DEF Residues
    <2>3. Tidy
      BY <1>6, <2>1, <2>2 DEF SpawnWorker, TypeOK, Residues, Tidy, Spare, Debtors, Clean, Owes
    <2>4. \A i \in 1 .. Len(slots') : slots'[i] \in Spare \cup {NoWorker}
      BY <1>6 DEF SpawnWorker, Residues
    <2>5. \A k \in Job : \/ at'[k] = at[k] /\ mine'[k] = mine[k]
                         \/ /\ at'[k] # "receiving"
                            /\ at'[k] \in Unasked => mine'[k] \in Spare \cup Spare'
      BY <1>6, <2>2 DEF SpawnWorker, Moves, Unasked, TypeOK
    <2> QED
      BY <2>1, <2>3, <2>4, <2>5, TidyKeeps
  <1>7. ASSUME NEW j \in Job, SpawnFails(j)
        PROVE  Residues'
    <2>1. Tidy /\ UNCHANGED spawned
      BY <1>7, TidyQuiet DEF SpawnFails, procVars
    <2>2. NoWorker \in Spare \cup {NoWorker} /\ NoWorker \in Worker \cup {NoWorker}
      BY <1>7 DEF SpawnFails, Moves, Residues, Unasked, TypeOK
    <2>3. \A i \in 1 .. Len(slots') : slots'[i] \in Spare \cup {NoWorker}
      <3>1. slots' = Append(slots, NoWorker) /\ slots \in Seq(Worker \cup {NoWorker})
        BY <1>7 DEF SpawnFails, TypeOK
      <3> QED
        BY <2>2, <3>1, PutEffect DEF Residues
    <2>4. \A k \in Job : \/ at'[k] = at[k] /\ mine'[k] = mine[k]
                         \/ /\ at'[k] # "receiving"
                            /\ at'[k] \in Unasked => mine'[k] \in Spare \cup Spare'
      BY <1>7 DEF SpawnFails, Moves, Unasked, TypeOK
    <2> QED
      BY <2>1, <2>3, <2>4, TidyKeeps
  <1>8. ASSUME NEW j \in Job, Register(j)
        PROVE  Residues'
    <2>1. at[j] = "registering" /\ mine[j] \in Worker
      BY <1>8, RegisterEffect DEF TypeOK, Holding
    <2>2. UNCHANGED <<slots, spawned, mine>>
      BY <1>8, RegisterEffect DEF Kill, procVars
    <2>3. Tidy
      BY <1>8, <2>1, RegisterEffect, TidyKill, TidyQuiet DEF procVars
    <2>4. \A k \in Job : \/ at'[k] = at[k]
                         \/ at'[k] # "receiving" /\ (at'[k] \in Unasked => at[k] \in Unasked)
      BY <1>8, RegisterEffect DEF Unasked, TypeOK
    <2> QED
      BY <2>2, <2>3, <2>4, TidyMoves
  <1>9. ASSUME NEW j \in Job, Scrap(j)
        PROVE  Residues'
    <2>1. Tidy /\ UNCHANGED spawned
      BY <1>9, TidyQuiet DEF Scrap, Joins, procVars
    <2>2. NoWorker \in Spare \cup {NoWorker} /\ NoWorker \in Worker \cup {NoWorker}
      BY <1>9 DEF Scrap, Joins, Moves, Residues, Unasked, TypeOK
    <2>3. \A i \in 1 .. Len(slots') : slots'[i] \in Spare \cup {NoWorker}
      <3>1. slots' = Append(slots, NoWorker) /\ slots \in Seq(Worker \cup {NoWorker})
        BY <1>9 DEF Scrap, Joins, TypeOK
      <3> QED
        BY <2>2, <3>1, PutEffect DEF Residues
    <2>4. \A k \in Job : \/ at'[k] = at[k] /\ mine'[k] = mine[k]
                         \/ /\ at'[k] # "receiving"
                            /\ at'[k] \in Unasked => mine'[k] \in Spare \cup Spare'
      BY <1>9 DEF Scrap, Joins, Moves, Unasked, TypeOK
    <2> QED
      BY <2>1, <2>3, <2>4, TidyKeeps
  <1>10. ASSUME NEW j \in Job, AwaitReady(j)
        PROVE  Residues'
    <2>1. mine[j] \in Worker
      BY <1>10, AwaitReadyEffect DEF Moves, TypeOK, Holding
    <2>2. UNCHANGED <<slots, spawned, mine>>
      BY <1>10, AwaitReadyEffect DEF TakesFrame, procVars
    <2>3. Tidy
      BY <1>10, AwaitReadyEffect, <2>1, TidyGet, TidyQuiet DEF HasFrame, TakesFrame, procVars
    <2>4. \A k \in Job : \/ at'[k] = at[k]
                         \/ at'[k] # "receiving" /\ (at'[k] \in Unasked => at[k] \in Unasked)
      BY <1>10, AwaitReadyEffect DEF Moves, Unasked, TypeOK
    <2> QED
      BY <2>2, <2>3, <2>4, TidyMoves
  <1>11. ASSUME NEW j \in Job, StartupFails(j)
        PROVE  Residues'
    <2>1. mine[j] \in Worker
      BY <1>11 DEF StartupFails, Moves, TypeOK, Holding
    <2>2. UNCHANGED <<slots, spawned, mine>>
      BY <1>11 DEF StartupFails, TakesFrame, procVars
    <2>3. Tidy
      BY <1>11, <2>1, TidyGet DEF StartupFails, HasFrame, TakesFrame, procVars
    <2>4. \A k \in Job : \/ at'[k] = at[k]
                         \/ at'[k] # "receiving" /\ (at'[k] \in Unasked => at[k] \in Unasked)
      BY <1>11 DEF StartupFails, Moves, Unasked, TypeOK
    <2> QED
      BY <2>2, <2>3, <2>4, TidyMoves
  <1>12. ASSUME NEW j \in Job, StopReadying(j)
        PROVE  Residues'
    <2>1. UNCHANGED <<proc, serving, request, frames, slots, spawned, mine>>
      BY <1>12 DEF StopReadying, procVars
    <2>2. \A k \in Job : \/ at'[k] = at[k]
                         \/ at'[k] # "receiving" /\ (at'[k] \in Unasked => at[k] \in Unasked)
      BY <1>12 DEF StopReadying, Moves, Unasked, TypeOK
    <2> QED
      BY <2>1, <2>2, TidyQuiet, TidyMoves
  <1>13. ASSUME NEW j \in Job, Writes(j)
        PROVE  Residues'
    <2>1. PICK w \in Worker : w = mine[j] /\ w \in Spare
      BY <1>13 DEF Writes, Moves, TypeOK, Holding, Residues, Unasked
    <2>2. /\ UNCHANGED <<slots, mine, spawned, proc, serving, frames>>
          /\ request' = [request EXCEPT ![w] = j] /\ at' = [at EXCEPT ![j] = "receiving"]
      BY <1>13, <2>1 DEF Writes, Moves
    <2>3. \A v \in Spare \ {w} : v \in Spare'
      BY <2>2 DEF Spare, Clean, TypeOK
    <2>4. \A k \in Job : \A v \in Debtors(k) \ {w} : v \in Debtors(k)'
      BY <2>2 DEF Debtors, Owes, TypeOK
    <2>5. w \in Debtors(j)'
      BY <2>1, <2>2 DEF Debtors, Owes, Spare, Clean, TypeOK
    <2>6. w # NoWorker /\ \A k \in Job : k # j => mine[k] # w
      BY <2>1, Tokens DEF LeasesAreExclusive
    <2>7. \A i \in 1 .. Len(slots) : slots[i] # w
      BY <2>1, <2>6 DEF LeasesAreExclusive
    <2>8. w \notin spawned + 1 .. MaxSpawns
      BY <2>1, <2>6, WidthAssumption DEF Spawned, TypeOK
    <2>9. \A k \in Job : /\ at'[k] \in Unasked => mine'[k] \in Spare'
                         /\ at'[k] = "receiving" => mine'[k] \in Debtors(k)'
      BY <2>1, <2>2, <2>3, <2>4, <2>5, <2>6 DEF Residues, TypeOK, Unasked
    <2>10. \A i \in 1 .. Len(slots') : slots'[i] \in Spare' \cup {NoWorker}
      BY <2>2, <2>3, <2>7 DEF Residues
    <2>11. \A v \in spawned' + 1 .. MaxSpawns : v \in Spare'
      BY <2>2, <2>3, <2>8 DEF Residues
    <2> QED
      BY <2>2, <2>9, <2>10, <2>11 DEF Residues
  <1>14. ASSUME NEW j \in Job, SendFails(j)
        PROVE  Residues'
    <2>1. UNCHANGED <<proc, serving, request, frames, slots, spawned, mine>>
      BY <1>14 DEF SendFails, procVars
    <2>2. \A k \in Job : \/ at'[k] = at[k]
                         \/ at'[k] # "receiving" /\ (at'[k] \in Unasked => at[k] \in Unasked)
      BY <1>14 DEF SendFails, Moves, Unasked, TypeOK
    <2> QED
      BY <2>1, <2>2, TidyQuiet, TidyMoves
  <1>15. ASSUME NEW j \in Job, ReceiveResult(j)
        PROVE  Residues'
    <2>1. PICK c \in Job : at[j] = "receiving" /\ HasFrame(j, c) /\ TakesFrame(j)
      BY <1>15 DEF ReceiveResult, Moves
    <2>2. mine[j] \in Worker /\ frames[mine[j]] # <<>> /\ mine[j] \in Spare'
      BY <2>1, Claimed
    <2>3. Tidy
      BY <2>1, <2>2, TidyGet DEF TakesFrame
    <2>4. UNCHANGED <<slots, mine, spawned>>
      BY <1>15 DEF ReceiveResult, TakesFrame
    <2>5. \A i \in 1 .. Len(slots') : slots'[i] \in Spare \cup {NoWorker}
      BY <2>4 DEF Residues
    <2>6. \A k \in Job : \/ at'[k] = at[k] /\ mine'[k] = mine[k]
                         \/ /\ at'[k] # "receiving"
                            /\ at'[k] \in Unasked => mine'[k] \in Spare \cup Spare'
      BY <1>15, <2>2, <2>4 DEF ReceiveResult, Moves, TypeOK
    <2> QED
      BY <2>3, <2>4, <2>5, <2>6, TidyKeeps
  <1>16. ASSUME NEW j \in Job, ReceiveDeath(j)
        PROVE  Residues'
    <2>1. mine[j] \in Worker
      BY <1>16 DEF ReceiveDeath, Moves, TypeOK, Holding
    <2>2. UNCHANGED <<slots, spawned, mine>>
      BY <1>16 DEF ReceiveDeath, TakesFrame, procVars
    <2>3. Tidy
      BY <1>16, <2>1, TidyGet DEF ReceiveDeath, HasFrame, TakesFrame, procVars
    <2>4. \A k \in Job : \/ at'[k] = at[k]
                         \/ at'[k] # "receiving" /\ (at'[k] \in Unasked => at[k] \in Unasked)
      BY <1>16 DEF ReceiveDeath, Moves, Unasked, TypeOK
    <2> QED
      BY <2>2, <2>3, <2>4, TidyMoves
  <1>17. ASSUME NEW j \in Job, StopReceiving(j)
        PROVE  Residues'
    <2>1. UNCHANGED <<proc, serving, request, frames, slots, spawned, mine>>
      BY <1>17 DEF StopReceiving, procVars
    <2>2. \A k \in Job : \/ at'[k] = at[k]
                         \/ at'[k] # "receiving" /\ (at'[k] \in Unasked => at[k] \in Unasked)
      BY <1>17 DEF StopReceiving, Moves, Unasked, TypeOK
    <2> QED
      BY <2>1, <2>2, TidyQuiet, TidyMoves
  <1>18. ASSUME NEW j \in Job, Release(j)
        PROVE  Residues'
    <2>1. UNCHANGED <<proc, serving, request, frames, slots, spawned, mine>>
      BY <1>18 DEF Release, procVars
    <2>2. \A k \in Job : \/ at'[k] = at[k]
                         \/ at'[k] # "receiving" /\ (at'[k] \in Unasked => at[k] \in Unasked)
      BY <1>18 DEF Release, Moves, Unasked, TypeOK
    <2> QED
      BY <2>1, <2>2, TidyQuiet, TidyMoves
  <1>19. ASSUME NEW j \in Job, Park(j)
        PROVE  Residues'
    <2>1. Tidy /\ UNCHANGED spawned
      BY <1>19, TidyQuiet DEF Park, procVars
    <2>2. mine[j] \in Spare \cup {NoWorker} /\ mine[j] \in Worker \cup {NoWorker}
      BY <1>19 DEF Park, Moves, Residues, Unasked, TypeOK
    <2>3. \A i \in 1 .. Len(slots') : slots'[i] \in Spare \cup {NoWorker}
      <3>1. slots' = Append(slots, mine[j]) /\ slots \in Seq(Worker \cup {NoWorker})
        BY <1>19 DEF Park, TypeOK
      <3> QED
        BY <2>2, <3>1, PutEffect DEF Residues
    <2>4. \A k \in Job : \/ at'[k] = at[k] /\ mine'[k] = mine[k]
                         \/ /\ at'[k] # "receiving"
                            /\ at'[k] \in Unasked => mine'[k] \in Spare \cup Spare'
      BY <1>19 DEF Park, Moves, Unasked, TypeOK
    <2> QED
      BY <2>1, <2>3, <2>4, TidyKeeps
  <1>20. ASSUME NEW j \in Job, Retire(j)
        PROVE  Residues'
    <2>1. UNCHANGED <<proc, serving, request, frames, slots, spawned, mine>>
      BY <1>20 DEF Retire, procVars
    <2>2. \A k \in Job : \/ at'[k] = at[k]
                         \/ at'[k] # "receiving" /\ (at'[k] \in Unasked => at[k] \in Unasked)
      BY <1>20 DEF Retire, Moves, Unasked, TypeOK
    <2> QED
      BY <2>1, <2>2, TidyQuiet, TidyMoves
  <1>21. ASSUME NEW j \in Job, RetireKills(j)
        PROVE  Residues'
    <2>1. mine[j] \in Worker /\ Kill(mine[j])
      BY <1>21 DEF RetireKills, Moves, TypeOK, Holding
    <2>2. \A k \in Job : \/ at'[k] = at[k]
                         \/ at'[k] # "receiving" /\ (at'[k] \in Unasked => at[k] \in Unasked)
      BY <1>21 DEF RetireKills, Moves, Unasked, TypeOK
    <2> QED
      BY <1>21, <2>1, <2>2, TidyKill, TidyMoves DEF RetireKills, Kill
  <1>22. ASSUME NEW j \in Job, RetireJoins(j)
        PROVE  Residues'
    <2>1. UNCHANGED <<proc, serving, request, frames, slots, spawned, mine>>
      BY <1>22 DEF RetireJoins, Joins, procVars
    <2>2. \A k \in Job : \/ at'[k] = at[k]
                         \/ at'[k] # "receiving" /\ (at'[k] \in Unasked => at[k] \in Unasked)
      BY <1>22 DEF RetireJoins, Joins, Moves, Unasked, TypeOK
    <2> QED
      BY <2>1, <2>2, TidyQuiet, TidyMoves
  <1>23. ASSUME NEW j \in Job, Free(j)
        PROVE  Residues'
    <2>1. Tidy /\ UNCHANGED spawned
      BY <1>23, TidyQuiet DEF Free, procVars
    <2>2. NoWorker \in Spare \cup {NoWorker} /\ NoWorker \in Worker \cup {NoWorker}
      BY <1>23 DEF Free, Moves, Residues, Unasked, TypeOK
    <2>3. \A i \in 1 .. Len(slots') : slots'[i] \in Spare \cup {NoWorker}
      <3>1. slots' = Append(slots, NoWorker) /\ slots \in Seq(Worker \cup {NoWorker})
        BY <1>23 DEF Free, TypeOK
      <3> QED
        BY <2>2, <3>1, PutEffect DEF Residues
    <2>4. \A k \in Job : \/ at'[k] = at[k] /\ mine'[k] = mine[k]
                         \/ /\ at'[k] # "receiving"
                            /\ at'[k] \in Unasked => mine'[k] \in Spare \cup Spare'
      BY <1>23 DEF Free, Moves, Unasked, TypeOK
    <2> QED
      BY <2>1, <2>3, <2>4, TidyKeeps
  <1>24. ASSUME CloseBegins
        PROVE  Residues'
    <2>1. UNCHANGED <<proc, serving, request, frames, slots, spawned, mine, at>>
      BY <1>24 DEF CloseBegins, procVars, jobVars
    <2> QED
      BY <2>1, TidyQuiet, TidyMoves
  <1>25. ASSUME CloseSnapshots
        PROVE  Residues'
    <2>1. UNCHANGED <<proc, serving, request, frames, slots, spawned, mine, at>>
      BY <1>25 DEF CloseSnapshots, procVars, jobVars
    <2> QED
      BY <2>1, TidyQuiet, TidyMoves
  <1>26. ASSUME CloseKills
        PROVE  Residues'
    <2>1. Head(victims) \in Worker /\ Kill(Head(victims)) /\ UNCHANGED <<slots, mine, at>>
      BY <1>26, GetEffect DEF CloseKills, TypeOK, jobVars
    <2> QED
      BY <2>1, TidyKill, TidyMoves DEF Kill
  <1>27. ASSUME CloseJoins
        PROVE  Residues'
    <2>1. UNCHANGED <<proc, serving, request, frames, slots, spawned, mine, at>>
      BY <1>27 DEF CloseJoins, Joins, procVars, jobVars
    <2> QED
      BY <2>1, TidyQuiet, TidyMoves
  <1>28. ASSUME CloseDrains
        PROVE  Residues'
    <2>1. Tidy /\ UNCHANGED <<spawned, at, mine>>
      BY <1>28, TidyQuiet DEF CloseDrains, procVars, jobVars
    <2>2. CASE slots' = slots
      BY <2>1, <2>2, TidyMoves
    <2>3. CASE slots # <<>> /\ slots' = Tail(slots)
      <3>1. \A i \in 1 .. Len(slots') : slots'[i] = slots[i + 1] /\ i + 1 \in 1 .. Len(slots)
        BY <2>3, GetEffect DEF TypeOK
      <3>2. \A i \in 1 .. Len(slots') : slots'[i] \in Spare \cup {NoWorker}
        BY <3>1 DEF Residues
      <3> QED
        BY <2>1, <3>2, TidyKeeps
    <2> QED
      BY <1>28, <2>2, <2>3 DEF CloseDrains
  <1>29. ASSUME CloseRefills
        PROVE  Residues'
    <2>1. PICK w \in Worker \cup {NoWorker} : w = Head(drained)
      BY <1>29, GetEffect DEF CloseRefills, TypeOK
    <2>2. UNCHANGED <<at, mine>>
      BY <1>29 DEF CloseRefills, jobVars
    <2>3. CASE w \in Worker /\ Kill(w) /\ UNCHANGED slots
      BY <2>2, <2>3, TidyKill, TidyMoves DEF Kill
    <2>4. CASE slots' = Append(slots, NoWorker)
               /\ UNCHANGED <<proc, serving, request, frames, spawned>>
      <3>1. Tidy /\ UNCHANGED spawned
        BY <2>4, TidyQuiet
      <3>2. \A i \in 1 .. Len(slots') : slots'[i] \in Spare \cup {NoWorker}
        BY <2>4, PutEffect DEF Residues, TypeOK
      <3> QED
        BY <2>2, <3>1, <3>2, TidyKeeps
    <2> QED
      BY <1>29, <2>1, <2>3, <2>4 DEF CloseRefills, Joins, procVars
  <1>30. ASSUME CloseEnds
        PROVE  Residues'
    <2>1. UNCHANGED <<proc, serving, request, frames, slots, spawned, mine, at>>
      BY <1>30 DEF CloseEnds, procVars, jobVars
    <2> QED
      BY <2>1, TidyQuiet, TidyMoves
  <1>31. ASSUME NEW w \in Worker, ImportEnds(w)
        PROVE  Residues'
    <2>1. CASE frames' = [frames EXCEPT ![w] = Append(@, Ready)] /\ proc' = [proc EXCEPT ![w] = "idle"]
      <3>1. Tidy
        BY <1>31, <2>1, TidyPut DEF ImportEnds, TypeOK
      <3> QED
        BY <1>31, <3>1, TidyMoves DEF ImportEnds, ParentUntouched, jobVars
    <2>2. CASE frames' = frames /\ proc' = [proc EXCEPT ![w] = "exited"]
      <3>1. Tidy
        BY <1>31, <2>2 DEF ImportEnds, TypeOK, Residues, Tidy, Spare, Debtors, Clean, Owes
      <3> QED
        BY <1>31, <3>1, TidyMoves DEF ImportEnds, ParentUntouched, jobVars
    <2> QED
      BY <1>31, <2>1, <2>2 DEF ImportEnds
  <1>32. ASSUME NEW w \in Worker, Serve(w)
        PROVE  Residues'
    <2>1. Tidy
      BY <1>32 DEF Serve, TypeOK, Residues, Tidy, Spare, Debtors, Clean, Owes
    <2> QED
      BY <1>32, <2>1, TidyMoves DEF Serve, ParentUntouched, jobVars
  <1>33. ASSUME NEW w \in Worker, Answer(w)
        PROVE  Residues'
    <2>1. PICK q \in Seq(Job \cup {Ready, Eof}) : q = frames[w]
      BY DEF TypeOK
    <2>2. PICK k \in Job : k = serving[w]
      BY <1>33 DEF Answer, Residues, TypeOK
    <2>3. /\ frames'[w] = Append(q, k) /\ serving'[w] = NoJob /\ UNCHANGED request
          /\ \A v \in Worker \ {w} : frames'[v] = frames[v] /\ serving'[v] = serving[v]
          /\ \A v \in Worker : proc'[v] = "serving" <=> serving'[v] # NoJob
      BY <1>33, <2>1, <2>2 DEF Answer, TypeOK, Residues
    <2>4. ASSUME NEW c \in Job, Owes(w, c) PROVE Owes(w, c)'
      <3>1. /\ c = k /\ request[w] = NoJob
            /\ \A i \in 1 .. Len(q) : q[i] \notin Job
        BY <2>1, <2>2, <2>4, Tokens DEF Owes
      <3>2. /\ Len(q) \in Nat
            /\ \A i \in 1 .. Len(frames'[w]) : \/ frames'[w][i] \notin Job
                                               \/ i = Len(q) + 1 /\ frames'[w][i] = k
        BY <2>1, <2>2, <2>3, <3>1, PutEffect
      <3> QED
        BY <2>3, <3>1, <3>2 DEF Owes
    <2>5. ~Clean(w)
      BY <2>2, Tokens DEF Clean
    <2>6. \A v \in Worker : Clean(v) => Clean(v)'
      BY <2>3, <2>5, Elsewhere
    <2>7. \A v \in Worker : \A c \in Job : Owes(v, c) => Owes(v, c)'
      BY <2>3, <2>4, Elsewhere
    <2>8. Tidy
      BY <2>3, <2>6, <2>7, TidyEach
    <2> QED
      BY <1>33, <2>8, TidyMoves DEF Answer, ParentUntouched, jobVars
  <1>34. ASSUME NEW w \in Worker, Dies(w)
        PROVE  Residues'
    <2>1. Tidy
      BY <1>34 DEF Dies, TypeOK, Residues, Tidy, Spare, Debtors, Clean, Owes
    <2> QED
      BY <1>34, <2>1, TidyMoves DEF Dies, ParentUntouched, jobVars
  <1>35. ASSUME NEW w \in Worker, KinMoves(w)
        PROVE  Residues'
    <2>1. Tidy
      BY <1>35, TidyQuiet DEF KinMoves
    <2> QED
      BY <1>35, <2>1, TidyMoves DEF KinMoves, ParentUntouched, jobVars
  <1>36. ASSUME NEW w \in Worker, ReaderEnds(w)
        PROVE  Residues'
    <2>1. Tidy
      BY <1>36, TidyPut DEF ReaderEnds, TypeOK
    <2> QED
      BY <1>36, <2>1, TidyMoves DEF ReaderEnds, ParentUntouched, jobVars
  <1>37. ASSUME NEW w \in Worker, OrphanEnds(w)
        PROVE  Residues'
    BY <1>37, TidyKill, TidyMoves DEF OrphanEnds, Kill, jobVars
  <1>38. ASSUME ParentDies
        PROVE  Residues'
    <2>1. Tidy
      BY <1>38 DEF ParentDies, Residues, Tidy, Spare, Debtors, Clean, Owes
    <2>2. /\ spawned' = spawned /\ slots' = <<>>
          /\ \A k \in Job : at'[k] # "receiving" /\ at'[k] \notin Unasked
      BY <1>38 DEF ParentDies, Unasked
    <2> QED
      BY <2>1, <2>2, TidyKeeps
  <1>39. ASSUME NEW j \in Job, SendRaises(j)
        PROVE  Residues'
    <2>1. UNCHANGED <<proc, serving, request, frames, slots, spawned, mine>>
      BY <1>39 DEF SendRaises, procVars
    <2>2. \A k \in Job : \/ at'[k] = at[k]
                         \/ at'[k] # "receiving" /\ (at'[k] \in Unasked => at[k] \in Unasked)
      BY <1>39 DEF SendRaises, Moves, Unasked, TypeOK
    <2> QED
      BY <2>1, <2>2, TidyQuiet, TidyMoves
  <1> QED
    BY <1>1, <1>2, <1>3, <1>4, <1>5, <1>6, <1>7, <1>8, <1>9, <1>10, <1>11, <1>12, <1>13,
       <1>14, <1>15, <1>16, <1>17, <1>18, <1>19, <1>20, <1>21, <1>22, <1>23, <1>24, <1>25,
       <1>26, <1>27, <1>28, <1>29, <1>30, <1>31, <1>32, <1>33, <1>34, <1>35, <1>36, <1>37,
       <1>38, <1>39
       DEF Next, Send, SendUnread, JobAdvances, JobStops, CloseAdvances, ProcessSteps

-----------------------------------------------------------------------------
(* Answers.                                                                 *)

\* A job takes only its own result out of its worker.
LEMMA AnswersStep ==
  ASSUME TypeOK, Residues, AnswersMatch, Next
  PROVE  AnswersMatch'
  <1>1. ASSUME NEW j \in Job, 
               \/ Begin(j) \/ AlreadyCancelled(j) \/ TakeSlot(j) \/ StopLeasing(j)
               \/ LeaseIdle(j) \/ SpawnWorker(j) \/ SpawnFails(j) \/ Register(j)
               \/ Scrap(j) \/ AwaitReady(j) \/ StartupFails(j) \/ StopReadying(j)
               \/ Writes(j) \/ SendFails(j) \/ SendRaises(j) \/ ReceiveDeath(j) \/ StopReceiving(j)
               \/ Release(j) \/ Park(j) \/ Retire(j) \/ RetireKills(j)
               \/ RetireJoins(j) \/ Free(j)
        PROVE  AnswersMatch'
    <2>1. UNCHANGED answer
      BY <1>1
          DEF Begin, AlreadyCancelled, TakeSlot, StopLeasing, LeaseIdle, SpawnWorker,
          SpawnFails, Register, Kill, Scrap, AwaitReady, TakesFrame, StartupFails, StopReadying,
          Writes, SendFails, SendRaises, ReceiveDeath, StopReceiving, Release, Park, Retire, RetireKills,
          RetireJoins, Free, jobVars
    <2> QED
      BY <2>1 DEF AnswersMatch
  <1>2. ASSUME NEW w \in Worker, 
               \/ ImportEnds(w) \/ Serve(w) \/ Answer(w) \/ Dies(w) \/ KinMoves(w)
               \/ ReaderEnds(w) \/ OrphanEnds(w)
        PROVE  AnswersMatch'
    <2>1. UNCHANGED answer
      BY <1>2
          DEF ImportEnds, ParentUntouched, Serve, Answer, Dies, KinMoves, ReaderEnds,
          OrphanEnds, Kill, jobVars
    <2> QED
      BY <2>1 DEF AnswersMatch
  <1>3. ASSUME \/ CloseBegins \/ CloseSnapshots \/ CloseKills \/ CloseJoins
               \/ CloseDrains \/ CloseRefills \/ CloseEnds
        PROVE  AnswersMatch'
    <2>1. UNCHANGED answer
      BY <1>3
          DEF CloseBegins, CloseSnapshots, CloseKills, Kill, CloseJoins, CloseDrains,
          CloseRefills, CloseEnds, jobVars
    <2> QED
      BY <2>1 DEF AnswersMatch
  <1>4. ASSUME NEW j \in Job, ReceiveResult(j)
        PROVE  AnswersMatch'
    <2>1. PICK k \in Job : at[j] = "receiving" /\ HasFrame(j, k) /\ answer' = [answer EXCEPT ![j] = k]
      BY <1>4 DEF ReceiveResult, Moves
    <2>2. k = j
      BY <2>1, Claimed
    <2> QED
      BY <2>1, <2>2 DEF AnswersMatch, TypeOK
  <1>5. ASSUME ParentDies
        PROVE  AnswersMatch'
    BY <1>5 DEF ParentDies, AnswersMatch
  <1> QED
    BY <1>1, <1>2, <1>3, <1>4, <1>5
       DEF Next, Send, SendUnread, JobAdvances, JobStops, CloseAdvances, ProcessSteps

-----------------------------------------------------------------------------
(* Closing.                                                                 *)

\* Stages of close: everything of Registry but who knows the processes.
Stages ==
  closer # "gone" =>
    /\ closed <=> closer # "open"
    /\ closer \in {"terminating", "draining", "closed"} => live = {}
    /\ closer # "terminating" => victims = <<>>

\* And who knows them.
Knows == closer # "gone" => \A w \in Worker : Alive(w) => Known(w)

\* Registry is the two together.
LEMMA RegistryParts == Registry <=> Stages /\ Knows
  BY DEF Registry, Stages, Knows

\* A snapshot empties the registry for good, because nobody registers after the closed event.
LEMMA StagesStep ==
  ASSUME TypeOK, Stages, Next
  PROVE  Stages'
  <1>1. ASSUME NEW j \in Job, 
               \/ Begin(j) \/ AlreadyCancelled(j) \/ TakeSlot(j) \/ StopLeasing(j)
               \/ LeaseIdle(j) \/ SpawnWorker(j) \/ SpawnFails(j) \/ Scrap(j)
               \/ AwaitReady(j) \/ StartupFails(j) \/ StopReadying(j) \/ Writes(j)
               \/ SendFails(j) \/ SendRaises(j) \/ ReceiveResult(j) \/ ReceiveDeath(j)
               \/ StopReceiving(j) \/ Release(j) \/ Park(j) \/ RetireKills(j)
               \/ RetireJoins(j) \/ Free(j)
        PROVE  Stages'
    <2>1. UNCHANGED <<closed, closer, live, victims>>
      BY <1>1
          DEF Begin, AlreadyCancelled, TakeSlot, StopLeasing, LeaseIdle, SpawnWorker,
          SpawnFails, Scrap, AwaitReady, TakesFrame, StartupFails, StopReadying, Writes, SendFails,
          SendRaises, ReceiveResult, ReceiveDeath, StopReceiving, Release, Park, RetireKills,
          Kill, RetireJoins, Free, closeVars
    <2> QED
      BY <2>1 DEF Stages
  <1>2. ASSUME NEW w \in Worker, 
               \/ ImportEnds(w) \/ Serve(w) \/ Answer(w) \/ Dies(w) \/ KinMoves(w)
               \/ ReaderEnds(w) \/ OrphanEnds(w)
        PROVE  Stages'
    <2>1. UNCHANGED <<closed, closer, live, victims>>
      BY <1>2
          DEF ImportEnds, ParentUntouched, Serve, Answer, Dies, KinMoves, ReaderEnds,
          OrphanEnds, Kill, closeVars
    <2> QED
      BY <2>1 DEF Stages
  <1>3. ASSUME \/ CloseKills \/ CloseRefills
        PROVE  Stages'
    <2>1. UNCHANGED <<closed, closer, live, victims>>
      BY <1>3
          DEF CloseKills, Kill, CloseRefills, closeVars
    <2> QED
      BY <2>1 DEF Stages
  <1>4. ASSUME NEW j \in Job, Register(j)
        PROVE  Stages'
    <2>1. UNCHANGED <<closed, closer, victims>> /\ (live' = live \/ ~closed)
      BY <1>4, RegisterEffect DEF closeVars
    <2> QED
      BY <2>1 DEF Stages
  <1>5. ASSUME NEW j \in Job, Retire(j)
        PROVE  Stages'
    <2>1. UNCHANGED <<closed, closer, victims>> /\ (live = {} => live' = {})
      BY <1>5 DEF Retire, closeVars
    <2> QED
      BY <2>1 DEF Stages
  <1>6. ASSUME CloseBegins
        PROVE  Stages'
    BY <1>6 DEF CloseBegins, Stages
  <1>7. ASSUME CloseSnapshots
        PROVE  Stages'
    BY <1>7 DEF CloseSnapshots, Stages
  <1>8. ASSUME CloseJoins
        PROVE  Stages'
    BY <1>8 DEF CloseJoins, Stages
  <1>9. ASSUME CloseDrains
        PROVE  Stages'
    BY <1>9 DEF CloseDrains, Stages
  <1>10. ASSUME CloseEnds
        PROVE  Stages'
    BY <1>10 DEF CloseEnds, Stages
  <1>11. ASSUME ParentDies
        PROVE  Stages'
    BY <1>11 DEF ParentDies, Stages
  <1> QED
    BY <1>1, <1>2, <1>3, <1>4, <1>5, <1>6, <1>7, <1>8, <1>9, <1>10, <1>11
       DEF Next, Send, SendUnread, JobAdvances, JobStops, CloseAdvances, ProcessSteps

\* A worker goes on being known.
LEMMA StaysKnown ==
  ASSUME NEW w \in Worker, Known(w), w \in live => w \in live', UNCHANGED victims,
         \A k \in Job : mine[k] = w /\ at[k] \in {"registering", "killing"} =>
           mine'[k] = w /\ at'[k] \in {"registering", "killing"}
  PROVE  Known(w)'
  BY DEF Known

\* Nobody who is to kill a worker moves, and no worker starts.
LEMMA AllStayKnown ==
  ASSUME Knows, closer' # "gone" => closer # "gone", \A w \in Worker : Alive(w)' => Alive(w),
         UNCHANGED <<live, victims>>,
         \A k \in Job : at[k] \in {"registering", "killing"} => mine'[k] = mine[k] /\ at'[k] = at[k]
  PROVE  Knows'
  <1>1. ASSUME NEW w \in Worker, closer' # "gone", Alive(w)' PROVE Known(w)'
    <2>1. Known(w)
      BY <1>1 DEF Knows
    <2> QED
      BY <2>1, StaysKnown
  <1> QED
    BY <1>1 DEF Knows

\* One process is killed; those who know the others stay.
LEMMA KillStaysKnown ==
  ASSUME TypeOK, Knows, NEW v \in Worker, Kill(v), UNCHANGED <<closer, live, victims, mine>>,
         \A k \in Job : mine[k] # v => at'[k] = at[k]
  PROVE  Knows'
  <1>1. ~Alive(v)' /\ \A w \in Worker : w # v /\ Alive(w)' => Alive(w)
    BY DEF Kill, Alive, TypeOK
  <1>2. ASSUME NEW w \in Worker, closer' # "gone", Alive(w)' PROVE Known(w)'
    <2>1. w # v /\ Known(w)
      BY <1>1, <1>2 DEF Knows
    <2> QED
      BY <2>1, StaysKnown
  <1> QED
    BY <1>2 DEF Knows

\* A process is killed by who knows it before the last to know it forgets it.
LEMMA KnowsStep ==
  ASSUME TypeOK, Stages, Knows, Next
  PROVE  Knows'
  <1>1. ASSUME NEW j \in Job, Begin(j)
        PROVE  Knows'
    <2>1. UNCHANGED <<proc, live, victims, closer>>
      BY <1>1, BeginEffect DEF procVars, closeVars
    <2>2. \A k \in Job : at[k] \in {"registering", "killing"} => mine'[k] = mine[k] /\ at'[k] = at[k]
      BY <1>1, BeginEffect DEF TypeOK
    <2> QED
      BY <2>1, <2>2, AllStayKnown DEF Alive
  <1>2. ASSUME NEW j \in Job, AlreadyCancelled(j)
        PROVE  Knows'
    <2>1. UNCHANGED <<proc, live, victims, closer>>
      BY <1>2 DEF AlreadyCancelled, Moves, procVars, closeVars
    <2>2. \A k \in Job : at[k] \in {"registering", "killing"} => mine'[k] = mine[k] /\ at'[k] = at[k]
      BY <1>2 DEF AlreadyCancelled, Moves, TypeOK
    <2> QED
      BY <2>1, <2>2, AllStayKnown DEF Alive
  <1>3. ASSUME NEW j \in Job, TakeSlot(j)
        PROVE  Knows'
    <2>1. UNCHANGED <<proc, live, victims, closer>>
      BY <1>3 DEF TakeSlot, Moves, procVars, closeVars
    <2>2. \A k \in Job : at[k] \in {"registering", "killing"} => mine'[k] = mine[k] /\ at'[k] = at[k]
      BY <1>3 DEF TakeSlot, Moves, TypeOK
    <2> QED
      BY <2>1, <2>2, AllStayKnown DEF Alive
  <1>4. ASSUME NEW j \in Job, StopLeasing(j)
        PROVE  Knows'
    <2>1. UNCHANGED <<proc, live, victims, closer>>
      BY <1>4 DEF StopLeasing, Moves, procVars, closeVars
    <2>2. \A k \in Job : at[k] \in {"registering", "killing"} => mine'[k] = mine[k] /\ at'[k] = at[k]
      BY <1>4 DEF StopLeasing, Moves, TypeOK
    <2> QED
      BY <2>1, <2>2, AllStayKnown DEF Alive
  <1>5. ASSUME NEW j \in Job, LeaseIdle(j)
        PROVE  Knows'
    <2>1. UNCHANGED <<proc, live, victims, closer>>
      BY <1>5, LeaseIdleEffect DEF procVars, closeVars
    <2>2. \A k \in Job : at[k] \in {"registering", "killing"} => mine'[k] = mine[k] /\ at'[k] = at[k]
      BY <1>5, LeaseIdleEffect DEF TypeOK
    <2> QED
      BY <2>1, <2>2, AllStayKnown DEF Alive
  <1>6. ASSUME NEW j \in Job, SpawnWorker(j)
        PROVE  Knows'
    <2>1. /\ at[j] = "spawning" /\ UNCHANGED <<live, closer, victims>>
          /\ at'[j] = "registering" /\ mine'[j] = spawned + 1
          /\ \A k \in Job : k # j => at'[k] = at[k] /\ mine'[k] = mine[k]
          /\ \A w \in Worker : w # spawned + 1 => proc'[w] = proc[w]
      BY <1>6 DEF SpawnWorker, Moves, TypeOK, closeVars
    <2>2. ASSUME NEW w \in Worker, closer' # "gone", Alive(w)' PROVE Known(w)'
      <3>1. CASE w = spawned + 1
        BY <2>1, <3>1 DEF Known
      <3>2. CASE w # spawned + 1
        <4>1. Known(w)
          BY <2>1, <2>2, <3>2 DEF Knows, Alive
        <4> QED
          BY <2>1, <4>1, StaysKnown
      <3> QED
        BY <3>1, <3>2
    <2> QED
      BY <2>2 DEF Knows
  <1>7. ASSUME NEW j \in Job, SpawnFails(j)
        PROVE  Knows'
    <2>1. UNCHANGED <<proc, live, victims, closer>>
      BY <1>7 DEF SpawnFails, Moves, procVars, closeVars
    <2>2. \A k \in Job : at[k] \in {"registering", "killing"} => mine'[k] = mine[k] /\ at'[k] = at[k]
      BY <1>7 DEF SpawnFails, Moves, TypeOK
    <2> QED
      BY <2>1, <2>2, AllStayKnown DEF Alive
  <1>8. ASSUME NEW j \in Job, Register(j)
        PROVE  Knows'
    <2>1. at[j] = "registering" /\ mine[j] \in Worker /\ UNCHANGED <<mine, closer, victims>>
      BY <1>8, RegisterEffect DEF TypeOK, Holding, closeVars
    <2>2. \A k \in Job : k # j => at'[k] = at[k]
      BY <1>8, RegisterEffect DEF TypeOK
    <2>3. CASE Kill(mine[j]) /\ UNCHANGED live
      BY <2>1, <2>2, <2>3, KillStaysKnown
    <2>4. CASE live' = live \cup {mine[j]} /\ UNCHANGED procVars
      <3>1. ASSUME NEW w \in Worker, closer' # "gone", Alive(w)' PROVE Known(w)'
        <4>1. Known(w)
          BY <2>1, <2>4, <3>1 DEF Knows, procVars, Alive
        <4>2. CASE w = mine[j]
          BY <2>4, <4>2 DEF Known
        <4>3. CASE w # mine[j]
          BY <2>1, <2>2, <2>4, <4>1, <4>3, StaysKnown
        <4> QED
          BY <4>2, <4>3
      <3> QED
        BY <3>1 DEF Knows
    <2> QED
      BY <1>8, <2>3, <2>4, RegisterEffect
  <1>9. ASSUME NEW j \in Job, Scrap(j)
        PROVE  Knows'
    <2>1. UNCHANGED <<proc, live, victims, closer>>
      BY <1>9 DEF Scrap, Joins, Moves, procVars, closeVars
    <2>2. \A k \in Job : at[k] \in {"registering", "killing"} => mine'[k] = mine[k] /\ at'[k] = at[k]
      BY <1>9 DEF Scrap, Joins, Moves, TypeOK
    <2> QED
      BY <2>1, <2>2, AllStayKnown DEF Alive
  <1>10. ASSUME NEW j \in Job, AwaitReady(j)
        PROVE  Knows'
    <2>1. UNCHANGED <<proc, live, victims, closer>>
      BY <1>10, AwaitReadyEffect DEF TakesFrame, procVars, closeVars
    <2>2. \A k \in Job : at[k] \in {"registering", "killing"} => mine'[k] = mine[k] /\ at'[k] = at[k]
      BY <1>10, AwaitReadyEffect DEF TakesFrame, TypeOK
    <2> QED
      BY <2>1, <2>2, AllStayKnown DEF Alive
  <1>11. ASSUME NEW j \in Job, StartupFails(j)
        PROVE  Knows'
    <2>1. UNCHANGED <<proc, live, victims, closer>>
      BY <1>11 DEF StartupFails, Moves, TakesFrame, procVars, closeVars
    <2>2. \A k \in Job : at[k] \in {"registering", "killing"} => mine'[k] = mine[k] /\ at'[k] = at[k]
      BY <1>11 DEF StartupFails, Moves, TakesFrame, TypeOK
    <2> QED
      BY <2>1, <2>2, AllStayKnown DEF Alive
  <1>12. ASSUME NEW j \in Job, StopReadying(j)
        PROVE  Knows'
    <2>1. UNCHANGED <<proc, live, victims, closer>>
      BY <1>12 DEF StopReadying, Moves, procVars, closeVars
    <2>2. \A k \in Job : at[k] \in {"registering", "killing"} => mine'[k] = mine[k] /\ at'[k] = at[k]
      BY <1>12 DEF StopReadying, Moves, TypeOK
    <2> QED
      BY <2>1, <2>2, AllStayKnown DEF Alive
  <1>13. ASSUME NEW j \in Job, Writes(j)
        PROVE  Knows'
    <2>1. UNCHANGED <<proc, live, victims, closer>>
      BY <1>13 DEF Writes, Moves, procVars, closeVars
    <2>2. \A k \in Job : at[k] \in {"registering", "killing"} => mine'[k] = mine[k] /\ at'[k] = at[k]
      BY <1>13 DEF Writes, Moves, TypeOK
    <2> QED
      BY <2>1, <2>2, AllStayKnown DEF Alive
  <1>14. ASSUME NEW j \in Job, SendFails(j)
        PROVE  Knows'
    <2>1. UNCHANGED <<proc, live, victims, closer>>
      BY <1>14 DEF SendFails, Moves, procVars, closeVars
    <2>2. \A k \in Job : at[k] \in {"registering", "killing"} => mine'[k] = mine[k] /\ at'[k] = at[k]
      BY <1>14 DEF SendFails, Moves, TypeOK
    <2> QED
      BY <2>1, <2>2, AllStayKnown DEF Alive
  <1>15. ASSUME NEW j \in Job, ReceiveResult(j)
        PROVE  Knows'
    <2>1. UNCHANGED <<proc, live, victims, closer>>
      BY <1>15 DEF ReceiveResult, Moves, TakesFrame, procVars, closeVars
    <2>2. \A k \in Job : at[k] \in {"registering", "killing"} => mine'[k] = mine[k] /\ at'[k] = at[k]
      BY <1>15 DEF ReceiveResult, Moves, TakesFrame, TypeOK
    <2> QED
      BY <2>1, <2>2, AllStayKnown DEF Alive
  <1>16. ASSUME NEW j \in Job, ReceiveDeath(j)
        PROVE  Knows'
    <2>1. UNCHANGED <<proc, live, victims, closer>>
      BY <1>16 DEF ReceiveDeath, Moves, TakesFrame, procVars, closeVars
    <2>2. \A k \in Job : at[k] \in {"registering", "killing"} => mine'[k] = mine[k] /\ at'[k] = at[k]
      BY <1>16 DEF ReceiveDeath, Moves, TakesFrame, TypeOK
    <2> QED
      BY <2>1, <2>2, AllStayKnown DEF Alive
  <1>17. ASSUME NEW j \in Job, StopReceiving(j)
        PROVE  Knows'
    <2>1. UNCHANGED <<proc, live, victims, closer>>
      BY <1>17 DEF StopReceiving, Moves, procVars, closeVars
    <2>2. \A k \in Job : at[k] \in {"registering", "killing"} => mine'[k] = mine[k] /\ at'[k] = at[k]
      BY <1>17 DEF StopReceiving, Moves, TypeOK
    <2> QED
      BY <2>1, <2>2, AllStayKnown DEF Alive
  <1>18. ASSUME NEW j \in Job, Release(j)
        PROVE  Knows'
    <2>1. UNCHANGED <<proc, live, victims, closer>>
      BY <1>18 DEF Release, Moves, procVars, closeVars
    <2>2. \A k \in Job : at[k] \in {"registering", "killing"} => mine'[k] = mine[k] /\ at'[k] = at[k]
      BY <1>18 DEF Release, Moves, TypeOK
    <2> QED
      BY <2>1, <2>2, AllStayKnown DEF Alive
  <1>19. ASSUME NEW j \in Job, Park(j)
        PROVE  Knows'
    <2>1. UNCHANGED <<proc, live, victims, closer>>
      BY <1>19 DEF Park, Moves, procVars, closeVars
    <2>2. \A k \in Job : at[k] \in {"registering", "killing"} => mine'[k] = mine[k] /\ at'[k] = at[k]
      BY <1>19 DEF Park, Moves, TypeOK
    <2> QED
      BY <2>1, <2>2, AllStayKnown DEF Alive
  <1>20. ASSUME NEW j \in Job, Retire(j)
        PROVE  Knows'
    <2>1. /\ at[j] = "retiring" /\ UNCHANGED <<mine, closer, victims, proc>>
          /\ live' = live \ {mine[j]}
          /\ mine[j] \in live => at'[j] = "killing"
          /\ \A k \in Job : k # j => at'[k] = at[k]
      BY <1>20 DEF Retire, Moves, TypeOK, closeVars, procVars
    <2>2. ASSUME NEW w \in Worker, closer' # "gone", Alive(w)' PROVE Known(w)'
      <3>1. Known(w)
        BY <2>1, <2>2 DEF Knows, Alive
      <3>2. CASE w = mine[j] /\ w \in live
        BY <2>1, <3>2 DEF Known
      <3>3. CASE w # mine[j] \/ w \notin live
        <4>1. w \in live => w \in live'
          BY <2>1, <3>3
        <4>2. \A k \in Job : mine[k] = w /\ at[k] \in {"registering", "killing"} =>
                mine'[k] = w /\ at'[k] \in {"registering", "killing"}
          BY <2>1
        <4> QED
          BY <2>1, <3>1, <4>1, <4>2, StaysKnown
      <3> QED
        BY <3>2, <3>3
    <2> QED
      BY <2>2 DEF Knows
  <1>21. ASSUME NEW j \in Job, RetireKills(j)
        PROVE  Knows'
    <2>1. mine[j] \in Worker /\ Kill(mine[j])
      BY <1>21 DEF RetireKills, Moves, TypeOK, Holding
    <2>2. \A k \in Job : mine[k] # mine[j] => at'[k] = at[k]
      BY <1>21 DEF RetireKills, Moves, TypeOK
    <2> QED
      BY <1>21, <2>1, <2>2, KillStaysKnown DEF RetireKills, closeVars
  <1>22. ASSUME NEW j \in Job, RetireJoins(j)
        PROVE  Knows'
    <2>1. UNCHANGED <<proc, live, victims, closer>>
      BY <1>22 DEF RetireJoins, Joins, Moves, procVars, closeVars
    <2>2. \A k \in Job : at[k] \in {"registering", "killing"} => mine'[k] = mine[k] /\ at'[k] = at[k]
      BY <1>22 DEF RetireJoins, Joins, Moves, TypeOK
    <2> QED
      BY <2>1, <2>2, AllStayKnown DEF Alive
  <1>23. ASSUME NEW j \in Job, Free(j)
        PROVE  Knows'
    <2>1. UNCHANGED <<proc, live, victims, closer>>
      BY <1>23 DEF Free, Moves, procVars, closeVars
    <2>2. \A k \in Job : at[k] \in {"registering", "killing"} => mine'[k] = mine[k] /\ at'[k] = at[k]
      BY <1>23 DEF Free, Moves, TypeOK
    <2> QED
      BY <2>1, <2>2, AllStayKnown DEF Alive
  <1>24. ASSUME CloseBegins
        PROVE  Knows'
    <2>1. UNCHANGED <<proc, live, victims, mine, at>> /\ closer # "gone"
      BY <1>24 DEF CloseBegins, procVars, jobVars
    <2> QED
      BY <2>1, AllStayKnown DEF Alive
  <1>25. ASSUME CloseSnapshots
        PROVE  Knows'
    <2>1. UNCHANGED <<at, mine, proc>> /\ closer = "snapshotting" /\ victims' \in Orders(live)
      BY <1>25 DEF CloseSnapshots, jobVars, procVars
    <2>2. \A w \in live : \E i \in 1 .. Len(victims') : victims'[i] = w
      BY <2>1, SnapshotEffect DEF TypeOK
    <2>3. ~\E i \in 1 .. Len(victims) : TRUE
      BY <2>1 DEF Stages
    <2>4. ASSUME NEW w \in Worker, Alive(w)' PROVE Known(w)'
      <3>1. Known(w)
        BY <2>1, <2>4 DEF Knows, Alive
      <3> QED
        BY <2>1, <2>2, <2>3, <3>1 DEF Known
    <2> QED
      BY <2>4 DEF Knows
  <1>26. ASSUME CloseKills
        PROVE  Knows'
    <2>1. Head(victims) \in Worker /\ Kill(Head(victims))
      BY <1>26, GetEffect DEF CloseKills, TypeOK
    <2> QED
      BY <1>26, <2>1, KillStaysKnown DEF CloseKills, jobVars, closeVars
  <1>27. ASSUME CloseJoins
        PROVE  Knows'
    <2>1. /\ UNCHANGED <<at, mine, proc, live, closer>> /\ ~Alive(Head(victims))
          /\ victims # <<>> /\ victims' = Tail(victims) /\ victims \in Seq(Worker)
      BY <1>27 DEF CloseJoins, Joins, Killable, jobVars, procVars, TypeOK
    <2>2. /\ Head(victims) = victims[1] /\ Len(victims) \in Nat /\ Len(victims') = Len(victims) - 1
          /\ \A i \in 1 .. Len(victims) - 1 : victims'[i] = victims[i + 1]
      BY <2>1, GetEffect
    <2>3. \A w \in Worker : Alive(w)' <=> Alive(w)
      BY <2>1 DEF Alive
    <2>4. ASSUME NEW w \in Worker, closer' # "gone", Alive(w)' PROVE Known(w)'
      <3>1. Known(w) /\ w # victims[1]
        BY <2>1, <2>2, <2>3, <2>4 DEF Knows
      <3>2. CASE \E i \in 1 .. Len(victims) : victims[i] = w
        <4>1. PICK i \in 1 .. Len(victims) : victims[i] = w
          BY <3>2
        <4>2. i - 1 \in 1 .. Len(victims) - 1 /\ (i - 1) + 1 = i
          BY <2>2, <3>1, <4>1
        <4>3. i - 1 \in 1 .. Len(victims') /\ victims'[i - 1] = w
          BY <2>2, <4>1, <4>2
        <4> QED
          BY <4>3 DEF Known
      <3> QED
        BY <2>1, <3>1, <3>2 DEF Known
    <2> QED
      BY <2>4 DEF Knows
  <1>28. ASSUME CloseDrains
        PROVE  Knows'
    <2>1. UNCHANGED <<proc, live, victims, mine, at>> /\ closer # "gone"
      BY <1>28 DEF CloseDrains, procVars, jobVars
    <2> QED
      BY <2>1, AllStayKnown DEF Alive
  <1>29. ASSUME CloseRefills
        PROVE  Knows'
    <2>1. PICK w \in Worker \cup {NoWorker} : w = Head(drained)
      BY <1>29, GetEffect DEF CloseRefills, TypeOK
    <2>2. UNCHANGED <<live, at, mine, closer, victims>>
      BY <1>29 DEF CloseRefills, jobVars
    <2>3. CASE w \in Worker /\ Kill(w)
      BY <2>2, <2>3, KillStaysKnown
    <2>4. CASE UNCHANGED proc
      BY <2>2, <2>4, AllStayKnown DEF Alive
    <2> QED
      BY <1>29, <2>1, <2>3, <2>4 DEF CloseRefills, Joins, procVars
  <1>30. ASSUME CloseEnds
        PROVE  Knows'
    <2>1. UNCHANGED <<proc, live, victims, mine, at>> /\ closer # "gone"
      BY <1>30 DEF CloseEnds, procVars, jobVars
    <2> QED
      BY <2>1, AllStayKnown DEF Alive
  <1>31. ASSUME NEW w \in Worker, ImportEnds(w)
        PROVE  Knows'
    <2>1. \A v \in Worker : Alive(v)' => Alive(v)
      BY <1>31 DEF ImportEnds, Alive, TypeOK
    <2> QED
      BY <1>31, <2>1, AllStayKnown DEF ImportEnds, ParentUntouched, jobVars, closeVars
  <1>32. ASSUME NEW w \in Worker, Serve(w)
        PROVE  Knows'
    <2>1. \A v \in Worker : Alive(v)' => Alive(v)
      BY <1>32 DEF Serve, Alive, TypeOK
    <2> QED
      BY <1>32, <2>1, AllStayKnown DEF Serve, ParentUntouched, jobVars, closeVars
  <1>33. ASSUME NEW w \in Worker, Answer(w)
        PROVE  Knows'
    <2>1. \A v \in Worker : Alive(v)' => Alive(v)
      BY <1>33 DEF Answer, Alive, TypeOK
    <2> QED
      BY <1>33, <2>1, AllStayKnown DEF Answer, ParentUntouched, jobVars, closeVars
  <1>34. ASSUME NEW w \in Worker, Dies(w)
        PROVE  Knows'
    <2>1. \A v \in Worker : Alive(v)' => Alive(v)
      BY <1>34 DEF Dies, Alive, TypeOK
    <2> QED
      BY <1>34, <2>1, AllStayKnown DEF Dies, ParentUntouched, jobVars, closeVars
  <1>35. ASSUME NEW w \in Worker, KinMoves(w)
        PROVE  Knows'
    <2>1. \A v \in Worker : Alive(v)' => Alive(v)
      BY <1>35 DEF KinMoves, Alive, TypeOK
    <2> QED
      BY <1>35, <2>1, AllStayKnown DEF KinMoves, ParentUntouched, jobVars, closeVars
  <1>36. ASSUME NEW w \in Worker, ReaderEnds(w)
        PROVE  Knows'
    <2>1. \A v \in Worker : Alive(v)' => Alive(v)
      BY <1>36 DEF ReaderEnds, Alive, TypeOK
    <2> QED
      BY <1>36, <2>1, AllStayKnown DEF ReaderEnds, ParentUntouched, jobVars, closeVars
  <1>37. ASSUME NEW w \in Worker, OrphanEnds(w)
        PROVE  Knows'
    BY <1>37 DEF OrphanEnds, closeVars, Knows
  <1>38. ASSUME ParentDies
        PROVE  Knows'
    BY <1>38 DEF ParentDies, Knows
  <1>39. ASSUME NEW j \in Job, SendRaises(j)
        PROVE  Knows'
    <2>1. UNCHANGED <<proc, live, victims, closer>>
      BY <1>39 DEF SendRaises, Moves, procVars, closeVars
    <2>2. \A k \in Job : at[k] \in {"registering", "killing"} => mine'[k] = mine[k] /\ at'[k] = at[k]
      BY <1>39 DEF SendRaises, Moves, TypeOK
    <2> QED
      BY <2>1, <2>2, AllStayKnown DEF Alive
  <1> QED
    BY <1>1, <1>2, <1>3, <1>4, <1>5, <1>6, <1>7, <1>8, <1>9, <1>10, <1>11, <1>12, <1>13,
       <1>14, <1>15, <1>16, <1>17, <1>18, <1>19, <1>20, <1>21, <1>22, <1>23, <1>24, <1>25,
       <1>26, <1>27, <1>28, <1>29, <1>30, <1>31, <1>32, <1>33, <1>34, <1>35, <1>36, <1>37,
       <1>38, <1>39
       DEF Next, Send, SendUnread, JobAdvances, JobStops, CloseAdvances, ProcessSteps

-----------------------------------------------------------------------------
(* The invariant.                                                           *)

\* A new pool has its empty slots and nothing else.
LEMMA PoolInvInit == Init => PoolInv
  <1> SUFFICES ASSUME Init PROVE PoolInv
    OBVIOUS
  <1>1. Len(slots) = Width /\ \A i \in 1 .. Len(slots) : slots[i] = NoWorker
    BY WidthAssumption DEF Init
  <1>2. TypeOK
    <2>1. slots \in [1 .. Width -> Worker \cup {NoWorker}]
      BY DEF Init
    <2>2. slots \in Seq(Worker \cup {NoWorker})
      BY <2>1, WidthAssumption
    <2>3. spawned \in 0 .. MaxSpawns /\ victims \in Seq(Worker) /\ drained \in Seq(Worker \cup {NoWorker})
      BY WidthAssumption DEF Init
    <2>4. frames \in [Worker -> Seq(Job \cup {Ready, Eof})]
      <3>1. <<>> \in Seq(Job \cup {Ready, Eof})
        OBVIOUS
      <3> QED
        BY <3>1 DEF Init
    <2>5. closed \in BOOLEAN /\ ready \in [Worker -> BOOLEAN] /\ reader \in [Worker -> BOOLEAN]
      BY DEF Init
    <2>6. /\ live \subseteq Worker /\ shut \subseteq Worker /\ lock \in Job \cup {NoJob} /\ ran \subseteq Job
          /\ mine \in [Job -> Worker \cup {NoWorker}] /\ answer \in [Job -> Job \cup {NoJob}]
          /\ serving \in [Worker -> Job \cup {NoJob}] /\ request \in [Worker -> Job \cup {NoJob}]
      BY DEF Init
    <2>7. /\ at \in [Job -> {"idle"}] /\ outcome \in [Job -> {"none"}]
          /\ proc \in [Worker -> {"unborn"}] /\ kin \in [Worker -> {"none"}] /\ closer = "open"
      BY DEF Init
    <2> QED
      BY <2>2, <2>3, <2>4, <2>5, <2>6, <2>7 DEF TypeOK, Holding
  <1>3. KeepsWidth
    <2>1. Holders = {}
      BY DEF Init, Holders, Holding
    <2>2. Cardinality(Holders) = 0 /\ IsFiniteSet(Holders)
      BY <2>1, FS_EmptySet
    <2>3. Len(drained) = 0
      BY DEF Init
    <2> QED
      BY <1>1, <2>2, <2>3, WidthAssumption DEF KeepsWidth, SlotsConserved
  <1>4. Spawned /\ LeasesAreExclusive
    BY <1>1 DEF Init, Spawned, LeasesAreExclusive
  <1>5. Residues
    <2>1. \A w \in Worker : w \in Spare
      BY DEF Init, Spare, Clean
    <2>2. \A w \in spawned + 1 .. MaxSpawns : w \in Worker
      BY DEF Init, Worker
    <2> QED
      BY <1>1, <2>1, <2>2 DEF Init, Residues, Unasked
  <1>6. AnswersMatch /\ Registry
    BY DEF Init, AnswersMatch, Registry, Alive
  <1> QED
    BY <1>2, <1>3, <1>4, <1>5, <1>6 DEF PoolInv

\* Every step of a job, of close, of a process or of the parent keeps it.
LEMMA PoolInvStep ==
  ASSUME PoolInv, [Next]_vars
  PROVE  PoolInv'
  <1> USE DEF PoolInv
  <1>1. CASE Next
    <2>1. TypeOK'
      BY <1>1, TypeStep
    <2>2. KeepsWidth'
      BY <1>1, WidthStep
    <2>3. Spawned' /\ LeasesAreExclusive'
      BY <1>1, LeaseStep
    <2>4. Residues'
      BY <1>1, ResidueStep
    <2>5. AnswersMatch'
      BY <1>1, AnswersStep
    <2>6. Registry'
      <3>1. Stages /\ Knows
        BY RegistryParts
      <3>2. Stages' /\ Knows'
        BY <1>1, <3>1, StagesStep, KnowsStep
      <3> QED
        BY <3>2 DEF Registry, Stages, Knows
    <2> QED
      BY <2>1, <2>2, <2>3, <2>4, <2>5, <2>6
  <1>2. CASE UNCHANGED vars
    <2>1. UNCHANGED <<slots, live, closed, lock, at, mine, outcome, answer>>
      BY <1>2 DEF vars, jobVars
    <2>2. UNCHANGED <<spawned, proc, serving, request, frames, ready, reader, shut, ran, kin>>
      BY <1>2 DEF vars, procVars
    <2>3. UNCHANGED <<closer, victims, drained>>
      BY <1>2 DEF vars, closeVars
    <2>4. TypeOK'
      BY <2>1, <2>2, <2>3 DEF TypeOK
    <2>5. KeepsWidth'
      BY <2>1, <2>3 DEF KeepsWidth, SlotsConserved, Holders
    <2>6. Spawned' /\ LeasesAreExclusive' /\ AnswersMatch'
      BY <2>1, <2>2 DEF Spawned, LeasesAreExclusive, AnswersMatch
    <2>7. Residues'
      BY <2>1, <2>2, TidyQuiet, TidyMoves
    <2>8. Registry'
      BY <2>1, <2>2, <2>3 DEF Registry, Known, Alive
    <2> QED
      BY <2>4, <2>5, <2>6, <2>7, <2>8
  <1> QED
    BY <1>1, <1>2

\* The inductive invariant of the pool: it has its width, its leases are exclusive,
\* what a worker holds of a job is where that job waits for it, and every process
\* that runs is known to who is to kill it.
THEOREM PoolInvariant == Spec => []PoolInv
  <1>1. Init => PoolInv
    BY PoolInvInit
  <1>2. PoolInv /\ [Next]_vars => PoolInv'
    BY PoolInvStep
  <1> QED
    BY <1>1, <1>2, PTL DEF Spec

\* Whatever a job meets between taking its slot and giving it back (a failed spawn, a
\* stop, a dead worker, a pool that closes meanwhile), and however close drains and
\* refills the queue, no slot of _WorkerSet is lost and none appears.
THEOREM WidthKept == Spec => []SlotsConserved
  <1>1. PoolInv => SlotsConserved
    BY DEF PoolInv, KeepsWidth
  <1> QED
    BY <1>1, PoolInvariant, PTL

\* No two leases, and no lease and a slot, name one worker, for any number of jobs.
THEOREM LeasesExclusive == Spec => []LeasesAreExclusive
  <1>1. PoolInv => LeasesAreExclusive
    BY DEF PoolInv
  <1> QED
    BY <1>1, PoolInvariant, PTL

\* A job that stopped waiting never leaves its result to the next job of the worker:
\* what _exchange returns is the answer to what it sent.
THEOREM OwnAnswers == Spec => []AnswersMatch
  <1>1. PoolInv => AnswersMatch
    BY DEF PoolInv
  <1> QED
    BY <1>1, PoolInvariant, PTL

\* When close has returned, a process that a late spawn or a retirement still has to
\* kill is the only kind that runs.
THEOREM CloseLeavesNoWorker == Spec => []NoWorkerOutlivesClose
  <1>1. PoolInv => NoWorkerOutlivesClose
    <2> SUFFICES ASSUME PoolInv, closer = "closed", NEW w \in Worker, Alive(w)
                 PROVE  \E j \in Job : mine[j] = w /\ at[j] \in {"registering", "killing"}
      BY DEF NoWorkerOutlivesClose
    <2>1. live = {} /\ victims = <<>> /\ Known(w)
      BY DEF PoolInv, Registry
    <2>2. ~\E i \in 1 .. Len(victims) : TRUE
      BY <2>1
    <2> QED
      BY <2>1, <2>2 DEF Known
  <1> QED
    BY <1>1, PoolInvariant, PTL
=============================================================================
