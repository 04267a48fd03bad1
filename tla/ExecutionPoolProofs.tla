------------------------- MODULE ExecutionPoolProofs -------------------------
(***************************************************************************)
(* Safety of ExecutionPool for every capacity, width, set of streams and    *)
(* length of their sources, on top of the invariant of the scheduler the    *)
(* streams share.                                                           *)
(***************************************************************************)
EXTENDS ExecutionPool, SchedulerProofs

-----------------------------------------------------------------------------
(* The inductive invariant.                                                 *)

StreamType == [at : At, exhausted : BOOLEAN, carried : BOOLEAN,
               pull : {"none", "pulling", "item", "end", "error"},
               outstanding : Int, wakeup : BOOLEAN,
               left : Nat, gate : 0 .. Width,
               end : {"open", "returned", "raised", "left"}]

One(b) == IF b THEN 1 ELSE 0

\* Every ticket a map_stream was ever issued.
Mine(s) == {t \in Ticket : owner[t] = s}

\* Where a stream is fixes what its local variables may hold: nothing is pulled
\* with a submission in hand or after the source has ended, and a stream between
\* two awaits holds the loop.
Place(s) ==
  /\ stream[s].end = "open" <=> stream[s].at \notin {"finally", "releasing", "done"}
  /\ stream[s].at \in {"admitting", "settling"} => loop = s
  /\ stream[s].at = "admitting" => stream[s].carried
  /\ stream[s].at = "releasing" => s \in MapStream
  /\ stream[s].at = "claiming" => stream[s].exhausted
  /\ stream[s].exhausted \/ stream[s].carried \/ stream[s].end = "returned"
       => stream[s].pull = "none"
  /\ stream[s].pull = "end" => stream[s].left = 0
  /\ stream[s].at = "unopened" => stream[s].pull = "none"
  /\ stream[s].at \in {"releasing", "done"} => stream[s].pull \in {"none", "error"}

\* Until somebody closes the pool only a break stops it or closes the intake, and
\* a source is given up only because it has ended.
Closing ==
  /\ closer = "none" /\ ~broken => state = "running" /\ ~intake_closed
  /\ closer # "none" => intake_closed
  /\ closer = "none" /\ ~broken =>
       \A s \in Stream : stream[s].exhausted => stream[s].left = 0

\* The books of a map_stream: permits, submissions on their way and jobs in the
\* pool share the width, no submission pulled is unaccounted for, and none of its
\* jobs is released behind its back.
Books(s) ==
  /\ stream[s].at = "unopened" => Mine(s) = {}
  /\ stream[s].end = "open" =>
       /\ ~broken => stream[s].outstanding = Cardinality(Owed(s))
       /\ stream[s].gate + Cardinality(Owed(s)) + One(stream[s].carried)
                         + One(stream[s].pull = "item") <= Width
       /\ closer = "none" /\ ~broken =>
            stream[s].left + Cardinality(Mine(s)) + One(stream[s].carried)
                           + One(stream[s].pull = "item") = SourceJobs[s]
       /\ \A t \in Mine(s) : fate[t] \notin {"released", "lost"}

\* What a map_stream that returned has yielded.
Yielded(s) ==
  stream[s].end = "returned" =>
    /\ \A t \in Mine(s) : fate[t] = "delivered"
    /\ closer = "none" => stream[s].left = 0 /\ Cardinality(Mine(s)) = SourceJobs[s]

\* A ticket belongs to a map_stream only once it has been issued to it.
Issued == \A t \in Ticket : fate[t] = "new" => owner[t] = Plain

\* What a stream has found out since it last cleared its wakeup still holds unless
\* a wakeup is on its way, from the claim to the wait.
Informed(s) ==
  ~posted /\ ~stream[s].wakeup =>
    /\ stream[s].at \in {"admitting", "settling", "waiting"} =>
         /\ ready[OwnerOf(s)] = <<>> /\ ~broken
         /\ Stopping => stream[s].exhausted
         /\ stream[s].exhausted /\ ~stream[s].carried => ~NothingLeftFor(s)
    /\ stream[s].at \in {"settling", "waiting"} =>
         (stream[s].carried => ~intake_closed /\ residents >= Capacity)
    /\ stream[s].at = "waiting" =>
         (WantsPull(s, stream[s].exhausted, stream[s].carried) => ~CanAdmit)

PoolShape ==
  /\ state \in {"running", "draining", "closed", "broken"}
  /\ closer \in {"none", "quiescing", "stopping", "joining", "finishing", "done"}
  /\ stream \in [Stream -> StreamType]
  /\ loop \in Stream \cup {Free}
  /\ posted \in BOOLEAN

StreamsInv ==
  /\ IndInv
  /\ PoolShape
  /\ Closing
  /\ Issued
  /\ \A s \in Stream : Place(s) /\ Informed(s)
  /\ \A s \in MapStream : Books(s) /\ Yielded(s)
  /\ ClosedPoolHoldsNothing

-----------------------------------------------------------------------------
(* The pool is a driver of the scheduler.                                   *)

\* Whatever the streams, the pulls, the threads and the closing of the pool do, the
\* scheduler sees one of its own steps or none.
LEMMA SchedulerSteps ==
  ASSUME \A s \in Stream : Place(s), [PoolNext]_allVars
  PROVE  [Next]_vars
  <1>1. Closer \in Caller /\ \A s \in Stream : OwnerOf(s) \in Owner
    BY StreamAssumption DEF OwnerOf
  <1>2. MapStream \subseteq Owner
    BY StreamAssumption
  <1>3. CASE UNCHANGED allVars
    BY <1>3 DEF allVars
  <1>4. ASSUME NEW s \in Stream, StreamStep(s)
        PROVE  [Next]_vars
    <2>1. CASE StreamYields(s) \/ StreamAdmits(s)
      BY <1>1, <2>1 DEF StreamYields, StreamAdmits, Next, DriverStep
    <2>2. CASE StreamRefused(s)
      BY <1>1, <2>2 DEF StreamRefused, Next, DriverStep
    <2>3. CASE StreamFinally(s)
      BY <2>3 DEF StreamFinally, Next, DriverStep
    <2>4. CASE StreamReleases(s)
      <3>1. ReleaseOwned(s) /\ s \in Owner
        BY <1>2, <2>4 DEF StreamReleases, Place
      <3> QED
        BY <3>1 DEF Next, DriverStep
    <2> QED
      BY <1>4, <2>1, <2>2, <2>3, <2>4
         DEF StreamStep, TopCancelsPull, StreamRaises, StreamReturns, StreamGoesOn,
             StreamFindsNoRoom, StreamHarvests, StreamWaits
  <1>5. ASSUME NEW s \in Stream, OpenStream(s) \/ PullStep(s) \/ PullFails(s) \/ ConsumerResumes(s)
        PROVE  [Next]_vars
    BY <1>5 DEF OpenStream, PullStep, PullItem, PullEnd, PullFails, ConsumerResumes
  <1>6. ASSUME NEW s \in Stream, ConsumerLeaves(s)
        PROVE  [Next]_vars
    BY <1>2, <1>6 DEF ConsumerLeaves, Next, DriverStep
  <1>7. CASE CloseBegins \/ Abort \/ CloseFinishes \/ LoopWakes
    BY <1>7 DEF CloseBegins, Abort, CloseFinishes, LoopWakes, Next, DriverStep
  <1>8. CASE CloseQuiesces \/ CloseStops \/ CloseJoins
    BY <1>1, <1>8 DEF CloseQuiesces, CloseStops, CloseJoins, Next, DriverStep
  <1>9. ASSUME NEW w \in Worker, ThreadAdvances(w) \/ ThreadBreaks(w)
        PROVE  [Next]_vars
    BY <1>9 DEF ThreadAdvances, ThreadBreaks, Next, WorkerStep
  <1> QED
    BY <1>3, <1>4, <1>5, <1>6, <1>7, <1>8, <1>9 DEF PoolNext, CloseStep

-----------------------------------------------------------------------------
(* What the calls of the scheduler do to the jobs of a map_stream.          *)

\* What the proofs below use of the invariant of the scheduler.
LEMMA Facts ==
  ASSUME IndInv
  PROVE  /\ Structure /\ ShapeOK /\ Links /\ Accounting /\ QueueSizes
         /\ fate \in [Ticket -> Fate] /\ owner \in [Ticket -> Owner]
         /\ ready \in [Owner -> Seq(Ticket)] /\ broken \in BOOLEAN /\ intake_closed \in BOOLEAN
         /\ residents \in Nat /\ running \in Nat
         /\ Len(pending) + running <= workers
         /\ broken => intake_closed
  BY QueuedAndRunningFit
     DEF IndInv, Structure, Counters, ShapeOK, Links, ThreadLink, EveryJobHasAThread

\* The numbers the books are kept in.
LEMMA BookNumbers ==
  ASSUME NEW s
  PROVE  /\ Owed(s) \in SUBSET Ticket /\ Mine(s) \in SUBSET Ticket
         /\ Cardinality(Owed(s)) \in Nat /\ Cardinality(Mine(s)) \in Nat
         /\ Owed(s) \subseteq Mine(s)
  <1>1. Owed(s) \in SUBSET Ticket /\ Mine(s) \in SUBSET Ticket /\ Owed(s) \subseteq Mine(s)
    BY DEF Owed, Mine, Occupying
  <1> QED
    BY <1>1, TicketSets

\* The scheduler moves and the jobs of r stay where its stream counts them.
Untouched(r) ==
  /\ Owed(r)' = Owed(r)
  /\ Mine(r)' = Mine(r)
  /\ \A t \in Mine(r) : /\ fate[t] = "delivered" => fate'[t] = "delivered"
                        /\ fate'[t] \in {"released", "lost"} => fate'[t] = fate[t]

\* No ticket becomes new again or changes hands.
Onward ==
  /\ broken => broken'
  /\ intake_closed => intake_closed'
  /\ Issued'

\* No job moves.
LEMMA QuietCall ==
  ASSUME Issued, UNCHANGED <<fate, owner, broken>>, intake_closed => intake_closed'
  PROVE  Onward /\ \A r \in MapStream : Untouched(r)
  BY DEF Untouched, Onward, Issued, Owed, Mine, Occupying

\* Jobs in the pool move on and stay in it.
LEMMA JobsMove ==
  ASSUME Issued, fate \in [Ticket -> Fate], UNCHANGED owner,
         broken => broken', intake_closed => intake_closed',
         NEW S \in SUBSET Occupying, NEW f \in {"pending", "running", "ready", "dropped"},
         fate' = Becomes(S, f)
  PROVE  Onward /\ \A r \in MapStream : Untouched(r)
  <1>1. S \in SUBSET Ticket /\ f \in Fate
    BY DEF Occupying, Fate
  <1>2. Occupying' = Occupying
    BY <1>1, OccupyingEffect
  <1>3. \A t \in Ticket : /\ fate[t] = "delivered" => fate'[t] = "delivered"
                          /\ fate'[t] \in {"released", "lost"} => fate'[t] = fate[t]
                          /\ fate'[t] = "new" => fate[t] = "new"
    BY <1>1 DEF Becomes, Occupying
  <1> QED
    BY <1>2, <1>3 DEF Untouched, Onward, Issued, Owed, Mine

\* The threads: no job leaves the pool.
LEMMA ThreadCall ==
  ASSUME IndInv, Issued, NEW w \in Worker, WorkerStep(w)
  PROVE  /\ Onward /\ \A r \in MapStream : Untouched(r)
         /\ UNCHANGED residents /\ tokens' \subseteq tokens
  <1>1. CASE TakeAdmittedBlocks(w) \/ WorkerExits(w)
    BY <1>1, QuietCall DEF TakeAdmittedBlocks, WorkerExits, queues, flags
  <1>2. CASE TakeAdmitted(w)
    <2>1. pending \in Seq(Ticket) /\ pending # <<>> /\ Range(pending) = Having("pending")
      BY <1>2, Facts DEF TakeAdmitted, ShapeOK, Links, PendingLink
    <2>2. Head(pending) = pending[1] /\ 1 \in DOMAIN pending /\ Head(pending) \in Ticket
      BY <2>1
    <2>3. Head(pending) \in Having("pending")
      BY <2>1, <2>2 DEF Range
    <2>4. {Head(pending)} \in SUBSET Occupying
      BY <2>3 DEF Having, Occupying
    <2>5. /\ fate' = Becomes({Head(pending)}, "running")
          /\ UNCHANGED <<broken, intake_closed, owner, residents, tokens>>
      BY <1>2 DEF TakeAdmitted, flags
    <2> QED
      BY <2>4, <2>5, Facts, JobsMove
  <1>3. CASE FinishCompletes(w)
    <2>1. {job[w]} \in SUBSET Occupying
      BY <1>3, Facts, FinishFreesJob DEF FinishCompletes, Having, Occupying
    <2>2. /\ fate' = Becomes({job[w]}, "ready")
          /\ UNCHANGED <<broken, intake_closed, owner, residents, tokens>>
      BY <1>3 DEF FinishCompletes, Finish, flags
    <2> QED
      BY <2>1, <2>2, Facts, JobsMove
  <1>4. CASE FinishBreaks(w)
    <2>1. job[w] \in Having("running")
      BY <1>4, Facts, FinishFreesJob DEF FinishBreaks
    <2>2. Range(pending) = Having("pending")
      BY Facts DEF Links, PendingLink
    <2>3. {job[w]} \cup Having("pending") \in SUBSET Occupying
      BY <2>1 DEF Having, Occupying
    <2>4. /\ fate' = Becomes({job[w]} \cup Having("pending"), "dropped")
          /\ broken' = TRUE /\ intake_closed' = TRUE /\ UNCHANGED <<owner, residents>>
          /\ tokens' \subseteq tokens
      BY <1>4, <2>2 DEF FinishBreaks, Break, Finish
    <2> QED
      BY <2>3, <2>4, Facts, JobsMove
  <1> QED
    BY <1>1, <1>2, <1>3, <1>4 DEF WorkerStep

\* admit, with or without a break: the ticket joins the jobs of its owner.
LEMMA AdmitCall ==
  ASSUME IndInv, Issued, NEW o \in Owner, Admit(o) \/ AdmitStartFails(o)
  PROVE  /\ Onward /\ \A r \in MapStream \ {o} : Untouched(r)
         /\ o # Plain => /\ Cardinality(Owed(o))' = Cardinality(Owed(o)) + 1
                         /\ Cardinality(Mine(o))' = Cardinality(Mine(o)) + 1
         /\ \A t \in Mine(o)' : fate'[t] \in {"released", "lost"} => t \in Mine(o) /\ fate'[t] = fate[t]
         /\ ~intake_closed
  <1> DEFINE n == next_ticket
  <1>1. n \in Ticket /\ fate[n] = "new" /\ owner[n] = Plain /\ ~intake_closed
    BY Facts, FreshTicket DEF Admit, AdmitStartFails, Admission, CanAdmit, Issued
  <1>2. owner' = [owner EXCEPT ![n] = o]
    BY DEF Admit, AdmitStartFails, Admission
  <1>3. PICK S \in SUBSET Occupying, f \in {"pending", "dropped"} : fate' = Becomes(S \cup {n}, f)
    <2>1. CASE Admit(o)
      <3>1. fate' = Becomes({} \cup {n}, "pending")
        BY <2>1 DEF Admit, Becomes
      <3> QED
        BY <3>1
    <2>2. CASE AdmitStartFails(o)
      <3>1. /\ pending \in Seq(Ticket) /\ Range(pending) = Having("pending")
            /\ Range(Append(pending, n)) = Range(pending) \cup {n}
        BY <1>1, Facts, AppendRange DEF ShapeOK, Links, PendingLink
      <3>2. fate' = Becomes({} \cup Range(Append(pending, n)), "dropped")
        BY <2>2 DEF AdmitStartFails, Break
      <3>3. fate' = Becomes(Having("pending") \cup {n}, "dropped")
        BY <3>1, <3>2 DEF Becomes
      <3> QED
        BY <3>3 DEF Having, Occupying
    <2> QED
      BY <2>1, <2>2
  <1>4. S \cup {n} \in SUBSET Ticket /\ f \in Fate
    BY <1>1 DEF Occupying, Fate
  <1>5. Occupying' = Occupying \cup {n}
    <2>1. fate \in [Ticket -> Fate]
      BY Facts
    <2>2. Occupying' = Occupying \cup (S \cup {n})
      BY <1>3, <1>4, <2>1, OccupyingEffect
    <2> QED
      BY <2>2
  <1>6. \A t \in Ticket \ {n} : /\ fate[t] = "delivered" => fate'[t] = "delivered"
                                /\ fate'[t] \in {"released", "lost"} => fate'[t] = fate[t]
                                /\ fate'[t] = "new" => fate[t] = "new"
                                /\ owner'[t] = owner[t]
    BY <1>1, <1>2, <1>3, Facts DEF Becomes, Occupying
  <1>7. fate'[n] \in {"pending", "dropped"} /\ owner'[n] = o
    BY <1>1, <1>2, <1>3, Facts DEF Becomes
  <1>8. Issued'
    BY <1>6, <1>7 DEF Issued
  <1>9. (broken => broken') /\ (intake_closed => intake_closed')
    BY <1>1, Facts DEF Admit, AdmitStartFails, Break, flags
  <1>10. \A r \in MapStream \ {o} : Untouched(r)
    <2> SUFFICES ASSUME NEW r \in MapStream \ {o} PROVE Untouched(r)
      OBVIOUS
    <2>1. r # Plain /\ r # o
      BY StreamAssumption
    <2>2. Mine(r)' = Mine(r) /\ n \notin Mine(r)
      BY <1>1, <1>6, <1>7, <2>1 DEF Mine
    <2>3. Owed(r)' = Owed(r)
      BY <1>1, <1>5, <1>6, <1>7, <2>1 DEF Owed, Occupying
    <2> QED
      BY <1>6, <2>2, <2>3 DEF Untouched, Mine
  <1>11. ASSUME o # Plain
         PROVE  /\ Cardinality(Owed(o))' = Cardinality(Owed(o)) + 1
                /\ Cardinality(Mine(o))' = Cardinality(Mine(o)) + 1
    <2>1. n \notin Owed(o) /\ n \notin Mine(o)
      BY <1>1, <1>11 DEF Owed, Mine
    <2>2. Mine(o)' = Mine(o) \cup {n}
      BY <1>1, <1>6, <1>7 DEF Mine
    <2>3. Owed(o)' = Owed(o) \cup {n}
      BY <1>1, <1>5, <1>6, <1>7 DEF Owed, Occupying
    <2> QED
      BY <1>1, <2>1, <2>2, <2>3, BookNumbers, TicketSets
  <1>12. \A t \in Mine(o)' : fate'[t] \in {"released", "lost"} => t \in Mine(o) /\ fate'[t] = fate[t]
    BY <1>6, <1>7 DEF Mine
  <1> QED
    BY <1>1, <1>8, <1>9, <1>10, <1>11, <1>12 DEF Onward

\* take_completion_nowait: one job of the owner less.
LEMMA TakeCall ==
  ASSUME IndInv, Issued, NEW o \in Owner, TakeReady(o)
  PROVE  /\ Onward /\ \A r \in MapStream \ {o} : Untouched(r)
         /\ Cardinality(Owed(o)) > 0
         /\ Cardinality(Owed(o))' = Cardinality(Owed(o)) - 1
         /\ Mine(o)' = Mine(o)
         /\ \A t \in Mine(o) : fate'[t] \in {"released", "lost"} => fate'[t] = fate[t]
         /\ UNCHANGED <<broken, intake_closed>>
  <1> DEFINE h == Head(ready[o])
  <1>1. /\ ready[o] \in Seq(Ticket) /\ ready[o] # <<>> /\ Range(ready[o]) = ReadyFor(o)
        /\ \A i, j \in 1 .. Len(ready[o]) : i # j => ready[o][i] # ready[o][j]
    BY Facts DEF ShapeOK, Links, ReadyLink, TakeReady
  <1>2. h \in ReadyFor(o) /\ h \in Ticket
    BY <1>1, TailRange
  <1>3. fate' = Becomes({h}, "delivered") /\ UNCHANGED <<broken, intake_closed, owner>>
    BY DEF TakeReady, flags
  <1>4. h \in Owed(o)
    BY <1>2 DEF ReadyFor, Owed, Occupying
  <1>5. Occupying' = Occupying \ {h}
    <2>1. {h} \in SUBSET Ticket /\ "delivered" \in Fate /\ fate \in [Ticket -> Fate]
      BY <1>2, Facts DEF Fate
    <2> QED
      BY <1>3, <2>1, OccupyingEffect
  <1>6. Owed(o)' = Owed(o) \ {h}
    BY <1>3, <1>5 DEF Owed
  <1>7. Cardinality(Owed(o))' = Cardinality(Owed(o)) - 1
    BY <1>4, <1>6, BookNumbers, TicketSets
  <1>8. Cardinality(Owed(o)) > 0
    <2>1. Cardinality(Owed(o) \ {h}) \in Nat
      BY BookNumbers, TicketSets
    <2>2. Cardinality(Owed(o) \ {h}) = Cardinality(Owed(o)) - 1
      BY <1>4, BookNumbers, TicketSets
    <2> QED
      BY <2>1, <2>2, BookNumbers
  <1>9. \A t \in Ticket : /\ fate[t] = "delivered" => fate'[t] = "delivered"
                          /\ fate'[t] \in {"released", "lost"} => fate'[t] = fate[t]
                          /\ fate'[t] = "new" => fate[t] = "new"
    BY <1>3 DEF Becomes
  <1>10. \A r \in MapStream \ {o} : Untouched(r)
    <2>1. owner[h] = o
      BY <1>2 DEF ReadyFor
    <2> QED
      BY <1>3, <1>5, <1>9, <2>1 DEF Untouched, Owed, Mine
  <1>11. Onward /\ Mine(o)' = Mine(o)
    BY <1>3, <1>9 DEF Onward, Issued, Mine
  <1> QED
    BY <1>3, <1>7, <1>8, <1>9, <1>10, <1>11 DEF Mine

\* release_owned: the other streams are untouched and no job is added.
LEMMA ReleaseCall ==
  ASSUME IndInv, Issued, NEW o \in MapStream, ReleaseOwned(o)
  PROVE  /\ Onward /\ \A r \in MapStream \ {o} : Untouched(r)
         /\ UNCHANGED <<broken, intake_closed, owner>>
         /\ \A t \in Ticket : fate[t] = "delivered" => fate'[t] = "delivered"
         /\ residents' <= residents /\ tokens' \subseteq tokens
  <1>1. o \in Owner
    BY StreamAssumption
  <1>2. ready[o] \in Seq(Ticket) /\ Range(ready[o]) = ReadyFor(o)
    BY <1>1, Facts DEF ShapeOK, Links, ReadyLink
  <1>3. /\ fate' = Becomes(ReadyFor(o), "released")
        /\ UNCHANGED <<broken, intake_closed, owner>>
        /\ residents' = residents - Len(ready[o]) /\ tokens' \subseteq tokens
    BY <1>2 DEF ReleaseOwned, flags
  <1>4. ReadyFor(o) \in SUBSET Ticket
    BY DEF ReadyFor
  <1>5. Occupying' = Occupying \ ReadyFor(o)
    BY <1>3, <1>4, Facts, OccupyingEffect DEF Fate
  <1>6. \A t \in Ticket : /\ fate[t] = "delivered" => fate'[t] = "delivered"
                          /\ fate'[t] = "new" => fate[t] = "new"
    BY <1>3 DEF Becomes, ReadyFor
  <1>7. \A r \in MapStream \ {o} : Untouched(r)
    <2> SUFFICES ASSUME NEW r \in MapStream \ {o} PROVE Untouched(r)
      OBVIOUS
    <2>1. \A t \in ReadyFor(o) : owner[t] # r
      BY DEF ReadyFor
    <2>2. Owed(r)' = Owed(r) /\ Mine(r)' = Mine(r)
      BY <1>3, <1>5, <2>1 DEF Owed, Mine
    <2>3. \A t \in Mine(r) : fate'[t] = fate[t]
      BY <1>3, <2>1 DEF Becomes, Mine
    <2> QED
      BY <2>2, <2>3 DEF Untouched
  <1>8. residents' <= residents
    BY <1>2, <1>3, Facts
  <1> QED
    BY <1>3, <1>6, <1>7, <1>8 DEF Onward, Issued

\* discard_completions: a stream without jobs is untouched, and the pool is empty.
LEMMA DiscardCall ==
  ASSUME IndInv, Issued, DiscardCompletions
  PROVE  /\ Onward /\ \A r \in MapStream : Mine(r) = {} => Untouched(r)
         /\ UNCHANGED <<broken, intake_closed, owner>>
         /\ \A t \in Ticket : fate[t] = "delivered" => fate'[t] = "delivered"
         /\ residents' = 0 /\ tokens' = {}
  <1>1. /\ fate' = Becomes(Having("ready") \cup Having("dropped"), "released")
        /\ UNCHANGED <<broken, intake_closed, owner>>
        /\ residents' = 0 /\ tokens' = {}
    BY DEF DiscardCompletions, DiscardAll, flags
  <1>2. \A t \in Ticket : /\ fate[t] = "delivered" => fate'[t] = "delivered"
                          /\ fate'[t] = "new" => fate[t] = "new"
    BY <1>1 DEF Becomes, Having
  <1>3. \A r \in MapStream : Mine(r) = {} => Untouched(r)
    <2> SUFFICES ASSUME NEW r \in MapStream, Mine(r) = {} PROVE Untouched(r)
      OBVIOUS
    <2>1. Mine(r)' = {}
      BY <1>1 DEF Mine
    <2>2. Owed(r) = {} /\ Owed(r)' = {}
      BY <2>1 DEF Owed, Mine, Occupying
    <2> QED
      BY <2>1, <2>2 DEF Untouched
  <1> QED
    BY <1>1, <1>2, <1>3 DEF Onward, Issued

\* The end of shutdown finds no queued job to lose.
LEMMA ShutdownCall ==
  ASSUME IndInv, ShutdownEnd(Closer, TRUE)
  PROVE  UNCHANGED <<fate, owner, broken, intake_closed, ready, residents, tokens>>
  <1>1. pending = <<>>
    BY Facts, JoinedIsIdle DEF ShutdownEnd
  <1>2. Range(pending) = {}
    BY <1>1, EmptyRange
  <1>3. fate' = [t \in Ticket |-> fate[t]]
    BY <1>2 DEF ShutdownEnd
  <1> QED
    BY <1>3, Facts DEF ShutdownEnd, flags

-----------------------------------------------------------------------------
(* The streams that do not move.                                            *)

\* Only the wakeup of r may change.
SameStream(r) ==
  /\ stream'[r].at = stream[r].at /\ stream'[r].end = stream[r].end
  /\ stream'[r].exhausted = stream[r].exhausted /\ stream'[r].carried = stream[r].carried
  /\ stream'[r].pull = stream[r].pull /\ stream'[r].outstanding = stream[r].outstanding
  /\ stream'[r].left = stream[r].left /\ stream'[r].gate = stream[r].gate

\* The books of a stream that does not move, when its jobs stay where they are.
LEMMA BooksKept ==
  ASSUME NEW r \in MapStream, Books(r), Yielded(r), Untouched(r), SameStream(r),
         broken => broken', closer' = "none" => closer = "none"
  PROVE  Books(r)' /\ Yielded(r)'
  <1>1. /\ Mine(r)' = Mine(r) /\ Owed(r)' = Owed(r)
        /\ Cardinality(Owed(r))' = Cardinality(Owed(r))
        /\ Cardinality(Mine(r))' = Cardinality(Mine(r))
    BY DEF Untouched
  <1>2. Books(r)'
    BY <1>1 DEF Books, SameStream, Untouched, One
  <1>3. Yielded(r)'
    BY <1>1 DEF Yielded, SameStream, Untouched
  <1> QED
    BY <1>2, <1>3

\* Its place, when whoever moved did not take the loop from it.
LEMMA PlaceKept ==
  ASSUME NEW r \in Stream, Place(r), SameStream(r), loop = r => loop' = r
  PROVE  Place(r)'
  BY DEF Place, SameStream

\* A wakeup is on its way, or the stream is not on its way to sleep.
LEMMA InformedAgain ==
  ASSUME NEW r \in Stream,
         posted' \/ stream'[r].wakeup \/ stream'[r].at \notin {"admitting", "settling", "waiting"}
  PROVE  Informed(r)'
  BY DEF Informed

\* What it knows, when nothing it looked at has changed.
LEMMA InformedKept ==
  ASSUME NEW r \in Stream, Informed(r), SameStream(r), stream[r].wakeup => stream'[r].wakeup,
         UNCHANGED <<ready, broken, intake_closed, residents, posted>>,
         Stopping' => Stopping \/ broken
  PROVE  Informed(r)'
  <1> SUFFICES ASSUME ~posted', ~stream'[r].wakeup,
                      stream'[r].at \in {"admitting", "settling", "waiting"}
               PROVE  Informed(r)'
    BY InformedAgain
  <1>1. ~posted /\ ~stream[r].wakeup /\ stream[r].at \in {"admitting", "settling", "waiting"}
    BY DEF SameStream
  <1>2. ~broken /\ (Stopping' => Stopping)
    BY <1>1 DEF Informed
  <1>3. NothingLeftFor(r)' <=> NothingLeftFor(r)
    BY DEF NothingLeftFor, SameStream
  <1>4. WantsPull(r, stream[r].exhausted, stream[r].carried)'
          <=> WantsPull(r, stream[r].exhausted, stream[r].carried)
    BY DEF WantsPull, SameStream
  <1>5. CanAdmit' <=> CanAdmit
    BY DEF CanAdmit
  <1> QED
    BY <1>1, <1>2, <1>3, <1>4, <1>5 DEF Informed, SameStream

\* Stream s moves, on the loop.
Moves(s) ==
  /\ loop \in {s, Free}
  /\ stream' \in [Stream -> StreamType]
  /\ \A r \in Stream \ {s} : stream'[r] = stream[r]

\* Everything else when stream s moves.
LEMMA OthersKept ==
  ASSUME StreamsInv, NEW s \in Stream, Moves(s), Onward, UNCHANGED closer,
         \A r \in MapStream \ {s} : Untouched(r),
         \/ posted' = TRUE
         \/ /\ UNCHANGED <<ready, broken, intake_closed, residents, posted>>
            /\ Stopping' => Stopping \/ broken
  PROVE  \A r \in Stream \ {s} : /\ Place(r)' /\ Informed(r)'
                                 /\ r \in MapStream => Books(r)' /\ Yielded(r)'
  <1> SUFFICES ASSUME NEW r \in Stream \ {s}
               PROVE  /\ Place(r)' /\ Informed(r)'
                      /\ r \in MapStream => Books(r)' /\ Yielded(r)'
    OBVIOUS
  <1>1. SameStream(r) /\ stream'[r].wakeup = stream[r].wakeup
    BY DEF SameStream, Moves
  <1>2. loop # r
    BY StreamAssumption DEF Moves
  <1>3. Place(r)'
    BY <1>1, <1>2, PlaceKept DEF StreamsInv
  <1>4. Informed(r)'
    BY <1>1, InformedAgain, InformedKept DEF StreamsInv
  <1>5. ASSUME r \in MapStream PROVE Books(r)' /\ Yielded(r)'
    BY <1>1, <1>5, BooksKept DEF StreamsInv, Onward
  <1> QED
    BY <1>3, <1>4, <1>5

\* What a step of stream s leaves to show about s.
MoverKept(s) ==
  /\ Place(s)' /\ Informed(s)'
  /\ s \in MapStream => Books(s)' /\ Yielded(s)'
  /\ closer = "none" /\ ~broken' => state' = "running" /\ ~intake_closed'
  /\ closer = "none" /\ ~broken' => (stream'[s].exhausted => stream'[s].left = 0)
  /\ closer = "done" => \/ s \in Active'
                        \/ Active' = Active /\ residents' <= residents /\ tokens' \subseteq tokens
                        \/ residents' = 0 /\ tokens' = {}
                        \/ Active' # {}

PoolRest ==
  /\ PoolShape
  /\ Closing
  /\ Issued
  /\ \A s \in Stream : Place(s) /\ Informed(s)
  /\ \A s \in MapStream : Books(s) /\ Yielded(s)
  /\ ClosedPoolHoldsNothing

\* Putting the two together.
LEMMA StreamMove ==
  ASSUME StreamsInv, IndInv', NEW s \in Stream, Moves(s), Onward, UNCHANGED closer,
         \A r \in MapStream \ {s} : Untouched(r),
         state' \in {"running", "draining", "closed", "broken"},
         loop' \in Stream \cup {Free}, posted' \in BOOLEAN,
         \/ posted' = TRUE
         \/ /\ UNCHANGED <<ready, broken, intake_closed, residents, posted>>
            /\ Stopping' => Stopping \/ broken,
         MoverKept(s)
  PROVE  PoolRest'
  <1>1. PoolShape'
    BY DEF StreamsInv, PoolShape, Moves
  <1>2. \A r \in Stream \ {s} : /\ Place(r)' /\ Informed(r)'
                                /\ r \in MapStream => Books(r)' /\ Yielded(r)'
    BY OthersKept
  <1>3. Closing'
    <2>1. closer # "none" => intake_closed'
      BY DEF StreamsInv, Closing, Onward
    <2>2. ASSUME closer = "none", ~broken', NEW r \in Stream, stream'[r].exhausted
          PROVE  stream'[r].left = 0
      <3>1. CASE r = s
        BY <2>2, <3>1 DEF MoverKept
      <3>2. CASE r # s
        BY <2>2, <3>2 DEF StreamsInv, Closing, Onward, Moves
      <3> QED
        BY <3>1, <3>2
    <2> QED
      BY <2>1, <2>2 DEF Closing, MoverKept
  <1>4. ClosedPoolHoldsNothing'
    <2> SUFFICES ASSUME closer = "done", Active' = {}
                 PROVE  residents' = 0 /\ tokens' = {}
      BY DEF ClosedPoolHoldsNothing
    <2>1. CASE Active' = Active /\ residents' <= residents /\ tokens' \subseteq tokens
      <3>1. residents = 0 /\ tokens = {}
        BY <2>1 DEF StreamsInv, ClosedPoolHoldsNothing
      <3>2. residents' \in Nat
        <4>1. Occupying' \in SUBSET Ticket /\ residents' = Cardinality(Occupying')
          BY DEF IndInv, Counters, Accounting, Occupying
        <4> QED
          BY <4>1, TicketSets
      <3> QED
        BY <2>1, <3>1, <3>2
    <2> QED
      BY <2>1 DEF MoverKept
  <1> QED
    BY <1>1, <1>2, <1>3, <1>4, StreamAssumption DEF PoolRest, Onward, MoverKept

-----------------------------------------------------------------------------
(* Steps of a stream that make no call of the scheduler.                    *)

\* The types and the parts of the invariant of one stream.
LEMMA StreamFacts ==
  ASSUME StreamsInv, NEW s \in Stream
  PROVE  /\ stream \in [Stream -> StreamType] /\ stream[s] \in StreamType
         /\ Place(s) /\ Informed(s) /\ loop \in Stream \cup {Free} /\ posted \in BOOLEAN
         /\ state \in {"running", "draining", "closed", "broken"}
         /\ s \in MapStream => Books(s) /\ Yielded(s)
         /\ stream[s].at \in At /\ stream[s].exhausted \in BOOLEAN
         /\ stream[s].carried \in BOOLEAN
         /\ stream[s].pull \in {"none", "pulling", "item", "end", "error"}
         /\ stream[s].outstanding \in Int /\ stream[s].wakeup \in BOOLEAN
         /\ stream[s].left \in Nat /\ stream[s].gate \in 0 .. Width
         /\ stream[s].end \in {"open", "returned", "raised", "left"}
         /\ Width \in Nat /\ SourceJobs[s] \in Nat
  BY StreamAssumption DEF StreamsInv, PoolShape, StreamType

\* A stream that was opened moves and its jobs do not.
LEMMA BooksMoved ==
  ASSUME StreamsInv, NEW s \in MapStream, UNCHANGED <<fate, owner, broken, closer>>,
         stream'[s] \in StreamType, stream'[s].at # "unopened",
         stream'[s].end = "open" =>
           /\ stream[s].end = "open" /\ stream'[s].outstanding = stream[s].outstanding
           /\ stream'[s].gate + One(stream'[s].carried) + One(stream'[s].pull = "item")
                <= stream[s].gate + One(stream[s].carried) + One(stream[s].pull = "item")
           /\ closer = "none" /\ ~broken =>
                stream'[s].left + One(stream'[s].carried) + One(stream'[s].pull = "item")
                  = stream[s].left + One(stream[s].carried) + One(stream[s].pull = "item"),
         stream'[s].end = "returned" =>
           stream[s].end = "returned" /\ stream'[s].left = stream[s].left
  PROVE  Books(s)' /\ Yielded(s)'
  <1>1. s \in Stream
    BY StreamAssumption
  <1>2. /\ Mine(s)' = Mine(s) /\ Owed(s)' = Owed(s)
        /\ Cardinality(Owed(s))' = Cardinality(Owed(s))
        /\ Cardinality(Mine(s))' = Cardinality(Mine(s))
    BY DEF Mine, Owed, Occupying
  <1>3. Yielded(s)'
    BY <1>1, <1>2, StreamFacts DEF Yielded
  <1>4. Books(s)'
    <2> SUFFICES ASSUME stream'[s].end = "open" PROVE Books(s)'
      BY DEF Books
    <2> DEFINE g == stream[s].gate
               h == stream'[s].gate
               l == stream[s].left
               m == stream'[s].left
               c == One(stream[s].carried)
               d == One(stream'[s].carried)
               i == One(stream[s].pull = "item")
               j == One(stream'[s].pull = "item")
               a == Cardinality(Owed(s))
               b == Cardinality(Mine(s))
    <2>1. /\ g \in Int /\ h \in Int /\ l \in Int /\ m \in Int
          /\ Width \in Int /\ SourceJobs[s] \in Int
      BY <1>1, StreamFacts DEF StreamType
    <2>2. c \in Int /\ d \in Int /\ i \in Int /\ j \in Int
      BY DEF One
    <2>3. a \in Int /\ b \in Int
      BY BookNumbers
    <2>4. g + a + c + i <= Width /\ h + d + j <= g + c + i
      BY <1>1, StreamFacts DEF Books
    <2>5. closer = "none" /\ ~broken => l + b + c + i = SourceJobs[s] /\ m + d + j = l + c + i
      BY <1>1, StreamFacts DEF Books
    <2>6. /\ ~broken => stream'[s].outstanding = a
          /\ \A t \in Mine(s) : fate[t] \notin {"released", "lost"}
      BY <1>1, StreamFacts DEF Books
    <2> HIDE DEF g, h, l, m, c, d, i, j, a, b
    <2>7. h + a + d + j <= Width
      BY <2>1, <2>2, <2>3, <2>4
    <2>8. closer = "none" /\ ~broken => m + b + d + j = SourceJobs[s]
      BY <2>1, <2>2, <2>3, <2>5
    <2> QED
      BY <1>2, <2>6, <2>7, <2>8 DEF Books, h, m, d, j, a, b
  <1> QED
    BY <1>3, <1>4

\* A step of s that leaves the scheduler alone.
LEMMA QuietMove ==
  ASSUME StreamsInv, IndInv', NEW s \in Stream, Moves(s), UNCHANGED <<vars, closer, posted>>,
         state' \in {"running", "draining", "closed", "broken"},
         state' = state \/ broken, loop' \in Stream \cup {Free},
         Place(s)', Informed(s)', s \in MapStream => Books(s)' /\ Yielded(s)',
         closer = "none" /\ ~broken => (stream'[s].exhausted => stream'[s].left = 0),
         s \in Active' \/ Active' = Active \/ Active' # {} \/ closer # "done"
  PROVE  PoolRest'
  <1>1. UNCHANGED <<fate, owner, broken, intake_closed, ready, residents, tokens>>
    BY DEF vars
  <1>2. Onward /\ \A r \in MapStream : Untouched(r)
    BY <1>1, QuietCall DEF StreamsInv
  <1>3. Stopping' => Stopping \/ broken
    BY DEF Stopping
  <1>4. residents' <= residents /\ tokens' \subseteq tokens
    BY <1>1, Facts DEF StreamsInv
  <1>5. closer = "none" /\ ~broken => state' = "running" /\ ~intake_closed'
    BY <1>1 DEF StreamsInv, Closing
  <1>6. MoverKept(s)
    BY <1>1, <1>4, <1>5 DEF MoverKept
  <1>7. posted' \in BOOLEAN /\ Onward /\ (\A r \in MapStream \ {s} : Untouched(r))
    BY <1>2, StreamFacts
  <1> QED
    BY <1>1, <1>3, <1>6, <1>7, StreamMove

\* The pool stops only when it is closed or the scheduler broke.
LEMMA StoppingMeans ==
  ASSUME StreamsInv, Stopping
  PROVE  ~(closer = "none" /\ ~broken)
  BY DEF StreamsInv, Closing, Stopping

\* A stream that is opened, or refused by a pool that is not running.
LEMMA OpenStreamKeeps ==
  ASSUME StreamsInv, IndInv', NEW s \in Stream, OpenStream(s)
  PROVE  PoolRest'
  <1>1. UNCHANGED <<vars, closer, posted, state, loop>> /\ stream[s].at = "unopened" /\ loop = Free
    BY DEF OpenStream
  <1>2. /\ Moves(s) /\ stream'[s] \in StreamType
        /\ \/ stream'[s].at = "top" /\ stream'[s].end = stream[s].end
           \/ stream'[s].at = "done" /\ stream'[s].end = "raised"
        /\ stream'[s].exhausted = stream[s].exhausted /\ stream'[s].carried = stream[s].carried
        /\ stream'[s].pull = stream[s].pull /\ stream'[s].outstanding = stream[s].outstanding
        /\ stream'[s].left = stream[s].left /\ stream'[s].gate = stream[s].gate
    BY <1>1, StreamFacts DEF OpenStream, Moves, StreamType, At
  <1>3. Place(s)' /\ Informed(s)'
    BY <1>1, <1>2, StreamFacts, InformedAgain DEF Place
  <1>4. ASSUME s \in MapStream PROVE Books(s)' /\ Yielded(s)'
    <2>1. UNCHANGED <<fate, owner, broken, closer>>
      BY <1>1 DEF vars
    <2>2. stream[s].end = "open"
      BY <1>1, StreamFacts DEF Place
    <2>3. stream'[s].gate \in Int /\ stream'[s].left \in Int /\ One(stream'[s].carried) \in Int
          /\ One(stream'[s].pull = "item") \in Int
      BY <1>2 DEF StreamType, One
    <2> QED
      BY <1>2, <1>4, <2>1, <2>2, <2>3, BooksMoved
  <1>5. closer = "none" /\ ~broken => (stream'[s].exhausted => stream'[s].left = 0)
    BY <1>2 DEF StreamsInv, Closing
  <1>6. s \in Active' \/ Active' = Active
    BY <1>1, <1>2 DEF Active, Moves
  <1> QED
    BY <1>1, <1>2, <1>3, <1>4, <1>5, <1>6, StreamFacts, QuietMove

\* At the head of the loop the pool is found stopped: the pull is given up.
LEMMA TopCancelsPullKeeps ==
  ASSUME StreamsInv, IndInv', NEW s \in Stream, TopCancelsPull(s)
  PROVE  PoolRest'
  <1>1. /\ UNCHANGED <<vars, closer, posted, state>> /\ loop' = Free /\ loop \in {s, Free}
        /\ stream[s].at \in {"top", "waiting"} /\ stream[s].pull # "none" /\ Stopping
    BY DEF TopCancelsPull, AtTop, OnLoop
  <1>2. /\ Moves(s) /\ stream'[s] \in StreamType
        /\ \/ /\ stream'[s].at = "finally" /\ stream'[s].end = "raised"
              /\ stream'[s].exhausted = stream[s].exhausted
              /\ stream'[s].carried = stream[s].carried /\ stream'[s].pull = stream[s].pull
           \/ /\ stream'[s].at = "claiming" /\ stream'[s].end = stream[s].end
              /\ stream'[s].exhausted = TRUE
              /\ stream'[s].carried = FALSE /\ stream'[s].pull = "none"
        /\ stream'[s].outstanding = stream[s].outstanding
        /\ stream'[s].left = stream[s].left /\ stream'[s].gate = stream[s].gate
    BY <1>1, StreamFacts DEF TopCancelsPull, Moves, StreamType, At
  <1>3. Place(s)' /\ Informed(s)'
    BY <1>1, <1>2, StreamFacts, InformedAgain DEF Place
  <1>4. ASSUME s \in MapStream PROVE Books(s)' /\ Yielded(s)'
    <2>1. UNCHANGED <<fate, owner, broken, closer>> /\ ~(closer = "none" /\ ~broken)
      BY <1>1, StoppingMeans DEF vars
    <2>2. stream[s].end = "open" /\ ~stream[s].carried
      BY <1>1, StreamFacts DEF Place
    <2>3. stream[s].gate \in Int
      BY StreamFacts
    <2>4. /\ stream'[s].end # "returned"
          /\ stream'[s].end = "open" =>
               stream'[s].gate + One(stream'[s].carried) + One(stream'[s].pull = "item")
                 <= stream[s].gate + One(stream[s].carried) + One(stream[s].pull = "item")
      BY <1>2, <2>2, <2>3 DEF One
    <2> QED
      BY <1>2, <1>4, <2>1, <2>2, <2>4, BooksMoved
  <1>5. closer = "none" /\ ~broken => (stream'[s].exhausted => stream'[s].left = 0)
    BY <1>1, StoppingMeans
  <1>6. s \in Active'
    BY <1>2 DEF Active
  <1> QED
    BY <1>1, <1>2, <1>3, <1>4, <1>5, <1>6, StreamFacts, QuietMove

\* The place of a stream that is about to claim.
LEMMA ClaimingPlace ==
  ASSUME StreamsInv, NEW s \in Stream, Claiming(s)
  PROVE  /\ loop \in {s, Free} /\ stream[s].at \in {"top", "waiting", "claiming"}
         /\ stream[s].end = "open"
         /\ Exhausted(s) \/ Carried(s) => stream[s].pull = "none"
         /\ Exhausted(s) \in BOOLEAN /\ Carried(s) \in BOOLEAN
         /\ closer = "none" /\ ~broken =>
              Exhausted(s) = stream[s].exhausted /\ Carried(s) = stream[s].carried
         /\ Carried(s) => stream[s].carried
  <1>1. loop \in {s, Free} /\ stream[s].at \in {"top", "waiting", "claiming"}
    BY DEF Claiming, AtTop, OnLoop
  <1>2. stream[s].end = "open"
    BY <1>1, StreamFacts DEF Place
  <1>3. Exhausted(s) \/ Carried(s) => stream[s].pull = "none"
    BY StreamFacts DEF Claiming, AtTop, Place, Exhausted, Carried
  <1>4. /\ Exhausted(s) \in BOOLEAN /\ Carried(s) \in BOOLEAN
        /\ Carried(s) => stream[s].carried
    BY StreamFacts DEF Exhausted, Carried, Stopping
  <1>5. closer = "none" /\ ~broken =>
          Exhausted(s) = stream[s].exhausted /\ Carried(s) = stream[s].carried
    BY StoppingMeans, StreamFacts DEF Exhausted, Carried
  <1> QED
    BY <1>1, <1>2, <1>3, <1>4, <1>5

\* SchedulerBroken reaches the stream.
LEMMA StreamRaisesKeeps ==
  ASSUME StreamsInv, IndInv', NEW s \in Stream, StreamRaises(s)
  PROVE  PoolRest'
  <1>1. /\ UNCHANGED <<vars, closer, posted>> /\ loop' = Free /\ broken
        /\ state' = IF state = "running" THEN "broken" ELSE state
        /\ loop \in {s, Free} /\ stream[s].end = "open"
    BY ClaimingPlace DEF StreamRaises
  <1>2. /\ Moves(s) /\ stream'[s] \in StreamType
        /\ stream'[s].at = "finally" /\ stream'[s].end = "raised"
        /\ stream'[s].exhausted = stream[s].exhausted
        /\ stream'[s].carried = stream[s].carried /\ stream'[s].pull = stream[s].pull
        /\ stream'[s].left = stream[s].left
    BY <1>1, StreamFacts DEF StreamRaises, Moves, StreamType, At
  <1>3. Place(s)' /\ Informed(s)'
    BY <1>1, <1>2, StreamFacts, InformedAgain DEF Place
  <1>4. ASSUME s \in MapStream PROVE Books(s)' /\ Yielded(s)'
    BY <1>2 DEF Books, Yielded
  <1>5. s \in Active' /\ state' \in {"running", "draining", "closed", "broken"}
    BY <1>1, <1>2, StreamFacts DEF Active
  <1> QED
    BY <1>1, <1>2, <1>3, <1>4, <1>5, QuietMove

\* A map_stream with nothing outstanding has been handed every job it admitted.
LEMMA NothingOutstanding ==
  ASSUME StreamsInv, NEW s \in MapStream, stream[s].end = "open", ~broken,
         stream[s].outstanding = 0
  PROVE  \A t \in Mine(s) : fate[t] = "delivered"
  <1>1. s \in Stream /\ s # Plain
    BY StreamAssumption
  <1>2. Cardinality(Owed(s)) = 0
    BY <1>1, StreamFacts DEF Books
  <1>3. Owed(s) = {}
    <2>1. IsFiniteSet(Owed(s))
      BY BookNumbers, TicketSets
    <2> QED
      BY <1>2, <2>1, FS_EmptySet
  <1>4. ASSUME NEW t \in Mine(s) PROVE fate[t] = "delivered"
    <2>1. t \in Ticket /\ owner[t] = s /\ fate[t] \in Fate
      BY Facts DEF StreamsInv, Mine
    <2>2. fate[t] # "new"
      BY <1>1, <2>1 DEF StreamsInv, Issued
    <2>3. t \notin Occupying
      BY <1>3, <2>1 DEF Owed
    <2>4. fate[t] \notin {"released", "lost"}
      BY <1>1, <1>4, StreamFacts DEF Books
    <2> QED
      BY <2>1, <2>2, <2>3, <2>4 DEF Fate, Occupying
  <1> QED
    BY <1>4

\* The stream returns.
LEMMA StreamReturnsKeeps ==
  ASSUME StreamsInv, IndInv', NEW s \in Stream, StreamReturns(s)
  PROVE  PoolRest'
  <1>1. /\ UNCHANGED <<vars, closer, posted, state>> /\ loop' = Free /\ ~broken
        /\ Exhausted(s) /\ ~Carried(s) /\ NothingLeftFor(s) /\ Claiming(s)
    BY DEF StreamReturns
  <1>2. /\ loop \in {s, Free} /\ stream[s].end = "open" /\ stream[s].pull = "none"
        /\ closer = "none" => stream[s].exhausted /\ ~stream[s].carried
    BY <1>1, ClaimingPlace
  <1>3. /\ Moves(s) /\ stream'[s] \in StreamType
        /\ stream'[s].at = "finally" /\ stream'[s].end = "returned"
        /\ stream'[s].exhausted = stream[s].exhausted
        /\ stream'[s].carried = stream[s].carried /\ stream'[s].pull = stream[s].pull
        /\ stream'[s].left = stream[s].left
    BY <1>2, StreamFacts DEF StreamReturns, Moves, StreamType, At
  <1>4. Place(s)' /\ Informed(s)'
    BY <1>2, <1>3, StreamFacts, InformedAgain DEF Place
  <1>5. closer = "none" /\ ~broken => (stream'[s].exhausted => stream'[s].left = 0)
    BY <1>3 DEF StreamsInv, Closing
  <1>6. ASSUME s \in MapStream PROVE Books(s)' /\ Yielded(s)'
    <2>1. \A t \in Mine(s) : fate[t] = "delivered"
      BY <1>1, <1>2, <1>6, NothingOutstanding DEF NothingLeftFor
    <2>2. UNCHANGED <<fate, owner>> /\ Mine(s)' = Mine(s)
      BY <1>1 DEF vars, Mine
    <2>3. ASSUME closer = "none"
          PROVE  stream[s].left = 0 /\ Cardinality(Mine(s)) = SourceJobs[s]
      <3>1. stream[s].left = 0
        BY <1>1, <1>2, <2>3 DEF StreamsInv, Closing
      <3>2. One(stream[s].carried) = 0 /\ One(stream[s].pull = "item") = 0
        BY <1>2, <2>3 DEF One
      <3>3. stream[s].left + Cardinality(Mine(s)) + One(stream[s].carried)
              + One(stream[s].pull = "item") = SourceJobs[s]
        BY <1>1, <1>2, <1>6, <2>3, StreamFacts DEF Books
      <3>4. Cardinality(Mine(s)) \in Nat /\ SourceJobs[s] \in Nat
        BY BookNumbers, StreamFacts
      <3> QED
        BY <3>1, <3>2, <3>3, <3>4
    <2> QED
      BY <1>1, <1>3, <2>1, <2>2, <2>3 DEF Books, Yielded
  <1>7. s \in Active'
    BY <1>3 DEF Active
  <1> QED
    BY <1>1, <1>2, <1>3, <1>4, <1>5, <1>6, <1>7, StreamFacts, QuietMove

\* Nothing to yield and something still to come.
LEMMA StreamGoesOnKeeps ==
  ASSUME StreamsInv, IndInv', NEW s \in Stream, StreamGoesOn(s)
  PROVE  PoolRest'
  <1>1. /\ UNCHANGED <<vars, closer, posted, state>> /\ loop' = s /\ ~broken
        /\ ready[OwnerOf(s)] = <<>>
        /\ ~(Exhausted(s) /\ ~Carried(s) /\ NothingLeftFor(s)) /\ Claiming(s)
    BY DEF StreamGoesOn
  <1>2. /\ loop \in {s, Free} /\ stream[s].end = "open"
        /\ Exhausted(s) \/ Carried(s) => stream[s].pull = "none"
        /\ Exhausted(s) \in BOOLEAN /\ Carried(s) \in BOOLEAN
        /\ closer = "none" =>
              Exhausted(s) = stream[s].exhausted /\ Carried(s) = stream[s].carried
        /\ Carried(s) => stream[s].carried
    BY <1>1, ClaimingPlace
  <1>3. /\ Moves(s) /\ stream'[s] \in StreamType
        /\ stream'[s].at = IF Carried(s) THEN "admitting" ELSE "settling"
        /\ stream'[s].end = stream[s].end
        /\ stream'[s].exhausted = Exhausted(s) /\ stream'[s].carried = Carried(s)
        /\ stream'[s].pull = stream[s].pull /\ stream'[s].outstanding = stream[s].outstanding
        /\ stream'[s].left = stream[s].left /\ stream'[s].gate = stream[s].gate
    <2>1. PICK e \in BOOLEAN, c \in BOOLEAN : e = Exhausted(s) /\ c = Carried(s)
      BY <1>2
    <2>2. PICK a \in At : a = IF Carried(s) THEN "admitting" ELSE "settling"
      BY DEF At
    <2>3. stream' = [stream EXCEPT ![s].at = a, ![s].wakeup = FALSE,
                                   ![s].exhausted = e, ![s].carried = c]
      BY <2>1, <2>2 DEF StreamGoesOn
    <2>4. stream \in [Stream -> StreamType] /\ loop \in {s, Free}
      BY <1>2, StreamFacts
    <2>5. /\ stream'[s] \in StreamType
          /\ stream'[s].at = a /\ stream'[s].end = stream[s].end
          /\ stream'[s].exhausted = e /\ stream'[s].carried = c
          /\ stream'[s].pull = stream[s].pull /\ stream'[s].outstanding = stream[s].outstanding
          /\ stream'[s].left = stream[s].left /\ stream'[s].gate = stream[s].gate
      <3>1. stream'[s] \in StreamType
        BY <2>3, <2>4 DEF StreamType
      <3>2. /\ stream'[s].at = a /\ stream'[s].end = stream[s].end
            /\ stream'[s].exhausted = e /\ stream'[s].carried = c
        BY <2>3, <2>4 DEF StreamType
      <3>3. /\ stream'[s].pull = stream[s].pull /\ stream'[s].outstanding = stream[s].outstanding
            /\ stream'[s].left = stream[s].left /\ stream'[s].gate = stream[s].gate
        BY <2>3, <2>4 DEF StreamType
      <3> QED
        BY <3>1, <3>2, <3>3
    <2>6. Moves(s)
      BY <2>3, <2>4, <2>5 DEF Moves
    <2> QED
      BY <2>1, <2>2, <2>5, <2>6
  <1>4. Place(s)'
    BY <1>1, <1>2, <1>3, StreamFacts DEF Place
  <1>5. Informed(s)'
    <2>1. UNCHANGED <<ready, broken, residents, state>>
      BY <1>1 DEF vars
    <2>2. Stopping' => stream'[s].exhausted
      BY <1>3, <2>1 DEF Stopping, Exhausted
    <2>3. NothingLeftFor(s)' <=> NothingLeftFor(s)
      BY <1>3, <2>1 DEF NothingLeftFor
    <2>4. stream'[s].at \in {"admitting", "settling"}
          /\ (stream'[s].at = "settling" => ~stream'[s].carried)
      BY <1>2, <1>3
    <2> QED
      BY <1>1, <1>3, <2>1, <2>2, <2>3, <2>4 DEF Informed
  <1>6. closer = "none" /\ ~broken => (stream'[s].exhausted => stream'[s].left = 0)
    BY <1>2, <1>3 DEF StreamsInv, Closing
  <1>7. ASSUME s \in MapStream PROVE Books(s)' /\ Yielded(s)'
    <2>1. UNCHANGED <<fate, owner, broken, closer>> /\ stream'[s].at # "unopened"
      BY <1>1, <1>3 DEF vars
    <2>2. stream[s].gate \in Int /\ stream[s].left \in Int
      BY StreamFacts
    <2>3. stream'[s].gate + One(stream'[s].carried) + One(stream'[s].pull = "item")
            <= stream[s].gate + One(stream[s].carried) + One(stream[s].pull = "item")
      BY <1>2, <1>3, <2>2 DEF One
    <2>4. closer = "none" =>
            stream'[s].left + One(stream'[s].carried) + One(stream'[s].pull = "item")
              = stream[s].left + One(stream[s].carried) + One(stream[s].pull = "item")
      BY <1>2, <1>3
    <2> QED
      BY <1>2, <1>3, <1>7, <2>1, <2>3, <2>4, BooksMoved
  <1>8. s \in Active'
    BY <1>3 DEF Active
  <1> QED
    BY <1>1, <1>3, <1>4, <1>5, <1>6, <1>7, <1>8, StreamFacts, QuietMove

\* admit answers NO_ROOM.
LEMMA StreamFindsNoRoomKeeps ==
  ASSUME StreamsInv, IndInv', NEW s \in Stream, StreamFindsNoRoom(s)
  PROVE  PoolRest'
  <1>1. /\ UNCHANGED <<vars, closer, posted, state, loop>> /\ loop \in {s, Free}
        /\ stream[s].at = "admitting" /\ ~intake_closed /\ residents >= Capacity
    BY DEF StreamFindsNoRoom, OnLoop
  <1>2. /\ Moves(s) /\ stream'[s] \in StreamType
        /\ stream'[s].at = "settling" /\ stream'[s].end = stream[s].end
        /\ stream'[s].exhausted = stream[s].exhausted /\ stream'[s].carried = stream[s].carried
        /\ stream'[s].pull = stream[s].pull /\ stream'[s].outstanding = stream[s].outstanding
        /\ stream'[s].left = stream[s].left /\ stream'[s].gate = stream[s].gate
        /\ stream'[s].wakeup = stream[s].wakeup
    BY <1>1, StreamFacts DEF StreamFindsNoRoom, Moves, StreamType, At
  <1>3. Place(s)'
    BY <1>1, <1>2, StreamFacts DEF Place
  <1>4. Informed(s)'
    <2>1. UNCHANGED <<ready, broken, residents, state, intake_closed, posted>>
      BY <1>1 DEF vars
    <2>2. NothingLeftFor(s)' <=> NothingLeftFor(s)
      BY <1>2, <2>1 DEF NothingLeftFor
    <2>3. Stopping' <=> Stopping
      BY <2>1 DEF Stopping
    <2>4. Informed(s)
      BY StreamFacts
    <2> QED
      BY <1>1, <1>2, <2>1, <2>2, <2>3, <2>4 DEF Informed
  <1>5. ASSUME s \in MapStream PROVE Books(s)' /\ Yielded(s)'
    <2>1. UNCHANGED <<fate, owner, broken, closer>> /\ stream'[s].at # "unopened"
      BY <1>1, <1>2 DEF vars
    <2>2. stream[s].end = "open"
      BY <1>1, StreamFacts DEF Place
    <2>3. stream[s].gate \in Int /\ One(stream[s].carried) \in Int /\ One(stream[s].pull = "item") \in Int
      BY StreamFacts DEF One
    <2> QED
      BY <1>2, <1>5, <2>1, <2>2, <2>3, BooksMoved
  <1>6. closer = "none" /\ ~broken => (stream'[s].exhausted => stream'[s].left = 0)
    BY <1>2 DEF StreamsInv, Closing
  <1>7. s \in Active'
    BY <1>2 DEF Active
  <1> QED
    BY <1>1, <1>2, <1>3, <1>4, <1>5, <1>6, <1>7, StreamFacts, QuietMove

\* A finished pull is harvested.
LEMMA StreamHarvestsKeeps ==
  ASSUME StreamsInv, IndInv', NEW s \in Stream, StreamHarvests(s)
  PROVE  PoolRest'
  <1>1. /\ UNCHANGED <<vars, closer, posted, state>> /\ loop \in {s, Free} /\ loop' \in {loop, Free}
        /\ stream[s].at = "settling" /\ stream[s].pull \in {"item", "end", "error"}
    BY DEF StreamHarvests, OnLoop, Pulled
  <1>2. /\ Moves(s) /\ stream'[s] \in StreamType
        /\ \/ /\ stream'[s].at = "finally" /\ stream'[s].end = "raised"
              /\ stream'[s].pull = stream[s].pull
              /\ stream'[s].exhausted = stream[s].exhausted /\ stream'[s].carried = stream[s].carried
           \/ /\ stream'[s].at = "top" /\ stream'[s].end = stream[s].end
              /\ stream[s].pull = "end" /\ stream'[s].pull = "none"
              /\ stream'[s].exhausted = TRUE /\ stream'[s].carried = stream[s].carried
           \/ /\ stream'[s].at = "top" /\ stream'[s].end = stream[s].end
              /\ stream[s].pull = "item" /\ stream'[s].pull = "none"
              /\ stream'[s].exhausted = stream[s].exhausted
              /\ stream'[s].carried <=> ~Stopping
        /\ stream'[s].outstanding = stream[s].outstanding
        /\ stream'[s].left = stream[s].left /\ stream'[s].gate = stream[s].gate
    <2>1. stream \in [Stream -> StreamType] /\ "finally" \in At /\ "top" \in At
      BY StreamFacts DEF At
    <2>2. CASE stream[s].pull = "error"
      <3>1. stream' = [stream EXCEPT ![s].at = "finally", ![s].end = "raised"]
        BY <2>2 DEF StreamHarvests
      <3> QED
        BY <1>1, <2>1, <3>1 DEF Moves, StreamType
    <2>3. CASE stream[s].pull = "end"
      <3>1. stream' = [stream EXCEPT ![s].at = "top", ![s].pull = "none", ![s].exhausted = TRUE]
        BY <2>3 DEF StreamHarvests
      <3> QED
        BY <1>1, <2>1, <2>3, <3>1 DEF Moves, StreamType
    <2>4. CASE stream[s].pull = "item"
      <3>1. stream' = [stream EXCEPT ![s].at = "top", ![s].pull = "none",
                                     ![s].carried = (state = "running")]
        BY <2>4 DEF StreamHarvests
      <3> QED
        BY <1>1, <2>1, <2>4, <3>1 DEF Moves, StreamType, Stopping
    <2> QED
      BY <1>1, <2>2, <2>3, <2>4
  <1>3. ~stream[s].exhausted /\ ~stream[s].carried /\ stream[s].end = "open"
    BY <1>1, StreamFacts DEF Place
  <1>4. stream[s].pull = "end" => stream[s].left = 0
    BY StreamFacts DEF Place
  <1>5. Place(s)'
    BY <1>2, <1>3, <1>4 DEF Place
  <1>6. Informed(s)'
    BY <1>2, InformedAgain
  <1>7. closer = "none" /\ ~broken => (stream'[s].exhausted => stream'[s].left = 0)
    BY <1>2, <1>3, <1>4
  <1>8. ASSUME s \in MapStream PROVE Books(s)' /\ Yielded(s)'
    <2>1. UNCHANGED <<fate, owner, broken, closer>> /\ stream'[s].at # "unopened"
      BY <1>1, <1>2 DEF vars
    <2>2. stream[s].gate \in Int /\ stream[s].left \in Int /\ stream'[s].carried \in BOOLEAN
      BY <1>2, StreamFacts DEF StreamType
    <2>3. stream'[s].end = "open" =>
            stream'[s].gate + One(stream'[s].carried) + One(stream'[s].pull = "item")
              <= stream[s].gate + One(stream[s].carried) + One(stream[s].pull = "item")
      BY <1>2, <1>3, <2>2 DEF One
    <2>4. stream'[s].end = "open" /\ closer = "none" /\ ~broken =>
            stream'[s].left + One(stream'[s].carried) + One(stream'[s].pull = "item")
              = stream[s].left + One(stream[s].carried) + One(stream[s].pull = "item")
      BY <1>2, <1>3, <2>2, StoppingMeans DEF One
    <2>5. stream'[s].end # "returned"
      BY <1>2, <1>3
    <2> QED
      BY <1>2, <1>3, <1>8, <2>1, <2>3, <2>4, <2>5, BooksMoved
  <1>9. s \in Active'
    BY <1>2 DEF Active
  <1>10. loop' \in Stream \cup {Free}
    BY <1>1, StreamFacts
  <1> QED
    BY <1>1, <1>2, <1>5, <1>6, <1>7, <1>8, <1>9, <1>10, StreamFacts, QuietMove

\* Nothing to harvest: a pull is started if there is room, and the stream waits.
LEMMA StreamWaitsKeeps ==
  ASSUME StreamsInv, IndInv', NEW s \in Stream, StreamWaits(s)
  PROVE  PoolRest'
  <1> DEFINE wants == WantsPull(s, stream[s].exhausted, stream[s].carried)
  <1>1. /\ UNCHANGED <<vars, closer, posted, state>> /\ loop \in {s, Free} /\ loop' = Free
        /\ stream[s].at = "settling" /\ stream[s].pull \notin {"item", "end", "error"}
    BY DEF StreamWaits, OnLoop, Pulled
  <1>2. /\ Moves(s) /\ stream'[s] \in StreamType
        /\ stream'[s].at = "waiting" /\ stream'[s].end = stream[s].end
        /\ stream'[s].exhausted = stream[s].exhausted /\ stream'[s].carried = stream[s].carried
        /\ stream'[s].pull = IF wants /\ CanAdmit THEN "pulling" ELSE stream[s].pull
        /\ stream'[s].outstanding = stream[s].outstanding
        /\ stream'[s].left = stream[s].left /\ stream'[s].gate = stream[s].gate
        /\ stream'[s].wakeup = stream[s].wakeup
    <2>1. stream \in [Stream -> StreamType] /\ "waiting" \in At
      BY StreamFacts DEF At
    <2>2. PICK x : x = IF wants /\ CanAdmit THEN "pulling" ELSE stream[s].pull
      OBVIOUS
    <2>3. x \in {"none", "pulling", "item", "end", "error"}
      BY <2>2, StreamFacts
    <2>4. stream' = [stream EXCEPT ![s].at = "waiting", ![s].pull = x]
      BY <2>2 DEF StreamWaits
    <2>5. /\ Moves(s) /\ stream'[s] \in StreamType
          /\ stream'[s].at = "waiting" /\ stream'[s].end = stream[s].end
          /\ stream'[s].exhausted = stream[s].exhausted /\ stream'[s].carried = stream[s].carried
          /\ stream'[s].pull = x /\ stream'[s].outstanding = stream[s].outstanding
          /\ stream'[s].left = stream[s].left /\ stream'[s].gate = stream[s].gate
          /\ stream'[s].wakeup = stream[s].wakeup
      BY <1>1, <2>1, <2>3, <2>4 DEF Moves, StreamType
    <2> QED
      BY <2>2, <2>5
  <1>3. wants <=> ~stream[s].exhausted /\ ~stream[s].carried /\ stream[s].pull = "none"
    BY DEF WantsPull
  <1> HIDE DEF wants
  <1>4. Place(s)'
    BY <1>1, <1>2, <1>3, StreamFacts DEF Place
  <1>5. Informed(s)'
    <2>1. UNCHANGED <<ready, broken, residents, state, intake_closed, posted>>
      BY <1>1 DEF vars
    <2>2. NothingLeftFor(s)' <=> NothingLeftFor(s)
      BY <1>2, <2>1 DEF NothingLeftFor
    <2>3. (Stopping' <=> Stopping) /\ (CanAdmit' <=> CanAdmit)
      BY <2>1 DEF Stopping, CanAdmit
    <2>4. WantsPull(s, stream[s].exhausted, stream[s].carried)' => ~CanAdmit
      BY <1>2, <1>3 DEF WantsPull
    <2>5. Informed(s)
      BY StreamFacts
    <2> QED
      BY <1>1, <1>2, <2>1, <2>2, <2>3, <2>4, <2>5 DEF Informed
  <1>6. ASSUME s \in MapStream PROVE Books(s)' /\ Yielded(s)'
    <2>1. UNCHANGED <<fate, owner, broken, closer>> /\ stream'[s].at # "unopened"
      BY <1>1, <1>2 DEF vars
    <2>2. stream[s].end = "open" /\ stream'[s].pull # "item" /\ stream[s].pull # "item"
      BY <1>1, <1>2, StreamFacts DEF Place
    <2>3. stream[s].gate \in Int /\ One(stream[s].carried) \in Int
          /\ One(stream[s].pull = "item") = 0 /\ One(stream'[s].pull = "item") = 0
      BY <2>2, StreamFacts DEF One
    <2>4. stream'[s].gate + One(stream'[s].carried) + One(stream'[s].pull = "item")
            <= stream[s].gate + One(stream[s].carried) + One(stream[s].pull = "item")
      BY <1>2, <2>3
    <2> QED
      BY <1>2, <1>6, <2>1, <2>2, <2>3, <2>4, BooksMoved
  <1>7. closer = "none" /\ ~broken => (stream'[s].exhausted => stream'[s].left = 0)
    BY <1>2 DEF StreamsInv, Closing
  <1>8. s \in Active'
    BY <1>2 DEF Active
  <1> QED
    BY <1>1, <1>2, <1>4, <1>5, <1>6, <1>7, <1>8, StreamFacts, QuietMove

\* The consumer comes back for more.
LEMMA ConsumerResumesKeeps ==
  ASSUME StreamsInv, IndInv', NEW s \in Stream, ConsumerResumes(s)
  PROVE  PoolRest'
  <1>1. UNCHANGED <<vars, closer, posted, state, loop>> /\ loop = Free /\ stream[s].at = "yielded"
    BY DEF ConsumerResumes
  <1>2. /\ Moves(s) /\ stream'[s] \in StreamType
        /\ stream'[s].at = "top" /\ stream'[s].end = stream[s].end
        /\ stream'[s].exhausted = stream[s].exhausted /\ stream'[s].carried = stream[s].carried
        /\ stream'[s].pull = stream[s].pull /\ stream'[s].outstanding = stream[s].outstanding
        /\ stream'[s].left = stream[s].left /\ stream'[s].gate = stream[s].gate
    BY <1>1, StreamFacts DEF ConsumerResumes, Moves, StreamType, At
  <1>3. Place(s)' /\ Informed(s)'
    BY <1>1, <1>2, StreamFacts, InformedAgain DEF Place
  <1>4. ASSUME s \in MapStream PROVE Books(s)' /\ Yielded(s)'
    <2>1. UNCHANGED <<fate, owner, broken, closer>> /\ stream'[s].at # "unopened"
      BY <1>1, <1>2 DEF vars
    <2>2. stream[s].end = "open"
      BY <1>1, StreamFacts DEF Place
    <2>3. stream[s].gate \in Int /\ One(stream[s].carried) \in Int /\ One(stream[s].pull = "item") \in Int
      BY StreamFacts DEF One
    <2> QED
      BY <1>2, <1>4, <2>1, <2>2, <2>3, BooksMoved
  <1>5. closer = "none" /\ ~broken => (stream'[s].exhausted => stream'[s].left = 0)
    BY <1>2 DEF StreamsInv, Closing
  <1>6. s \in Active'
    BY <1>2 DEF Active
  <1> QED
    BY <1>1, <1>2, <1>3, <1>4, <1>5, <1>6, StreamFacts, QuietMove

\* The pull task answers: with a submission and a permit less, with the end of the
\* source, or with an error.
LEMMA PullKeeps ==
  ASSUME StreamsInv, IndInv', NEW s \in Stream, PullStep(s) \/ PullFails(s)
  PROVE  PoolRest'
  <1>1. UNCHANGED <<vars, closer, posted, state, loop>> /\ loop = Free /\ stream[s].pull = "pulling"
    BY DEF PullStep, PullItem, PullEnd, PullFails
  <1>2. /\ Moves(s) /\ stream'[s] \in StreamType
        /\ stream'[s].at = stream[s].at /\ stream'[s].end = stream[s].end
        /\ stream'[s].exhausted = stream[s].exhausted /\ stream'[s].carried = stream[s].carried
        /\ stream'[s].outstanding = stream[s].outstanding /\ stream'[s].wakeup = stream[s].wakeup
        /\ \/ /\ stream'[s].pull = "item" /\ stream'[s].left = stream[s].left - 1
              /\ s \in MapStream => stream'[s].gate = stream[s].gate - 1
           \/ /\ stream'[s].pull = "end" /\ stream[s].left = 0
              /\ stream'[s].left = stream[s].left /\ stream'[s].gate = stream[s].gate
           \/ /\ stream'[s].pull = "error"
              /\ stream'[s].left = stream[s].left /\ stream'[s].gate = stream[s].gate
    <2>1. stream \in [Stream -> StreamType] /\ Width \in Nat
      BY StreamFacts
    <2>2. CASE PullEnd(s)
      BY <1>1, <2>1, <2>2 DEF PullEnd, Moves, StreamType
    <2>3. CASE PullFails(s)
      BY <1>1, <2>1, <2>3 DEF PullFails, Moves, StreamType
    <2>4. CASE PullItem(s)
      <3>1. PICK l, g : /\ l = stream[s].left - 1
                        /\ g = IF s \in MapStream THEN stream[s].gate - 1 ELSE stream[s].gate
        OBVIOUS
      <3>2. l \in Nat /\ g \in 0 .. Width
        BY <2>4, <3>1, StreamFacts DEF PullItem, HasPermit
      <3>3. stream' = [stream EXCEPT ![s].pull = "item", ![s].left = l, ![s].gate = g]
        BY <2>4, <3>1 DEF PullItem
      <3>4. stream'[s] \in StreamType /\ Moves(s)
        <4>1. stream'[s] \in StreamType
          BY <2>1, <3>2, <3>3 DEF StreamType
        <4> QED
          BY <1>1, <2>1, <3>3, <4>1 DEF Moves
      <3>5. /\ stream'[s].at = stream[s].at /\ stream'[s].end = stream[s].end
            /\ stream'[s].exhausted = stream[s].exhausted /\ stream'[s].carried = stream[s].carried
            /\ stream'[s].outstanding = stream[s].outstanding /\ stream'[s].wakeup = stream[s].wakeup
            /\ stream'[s].pull = "item" /\ stream'[s].left = l /\ stream'[s].gate = g
        BY <2>1, <3>3 DEF StreamType
      <3> QED
        BY <3>1, <3>4, <3>5
    <2> QED
      BY <2>2, <2>3, <2>4 DEF PullStep
  <1>3. ~stream[s].exhausted /\ ~stream[s].carried /\ stream[s].end # "returned"
    BY <1>1, StreamFacts DEF Place
  <1>4. Place(s)'
    BY <1>1, <1>2, <1>3, StreamFacts DEF Place
  <1>5. Informed(s)'
    <2>1. UNCHANGED <<ready, broken, residents, state, intake_closed, posted>>
      BY <1>1 DEF vars
    <2>2. NothingLeftFor(s)' <=> NothingLeftFor(s)
      BY <1>2, <2>1 DEF NothingLeftFor
    <2>3. (Stopping' <=> Stopping)
      BY <2>1 DEF Stopping
    <2>4. ~WantsPull(s, stream[s].exhausted, stream[s].carried)'
      BY <1>2 DEF WantsPull
    <2>5. Informed(s)
      BY StreamFacts
    <2> QED
      BY <1>1, <1>2, <2>1, <2>2, <2>3, <2>4, <2>5 DEF Informed
  <1>6. ASSUME s \in MapStream PROVE Books(s)' /\ Yielded(s)'
    <2>1. UNCHANGED <<fate, owner, broken, closer>>
      BY <1>1 DEF vars
    <2>2. CASE stream[s].end # "open"
      <3>1. stream[s].at # "unopened"
        BY <2>2, StreamFacts DEF Place
      <3> QED
        BY <1>2, <1>3, <2>2, <3>1 DEF Books, Yielded
    <2>3. CASE stream[s].end = "open" /\ stream[s].at # "unopened"
      <3>1. stream[s].gate \in Int /\ stream[s].left \in Int
        BY StreamFacts
      <3>2. /\ stream'[s].gate + One(stream'[s].carried) + One(stream'[s].pull = "item")
                 <= stream[s].gate + One(stream[s].carried) + One(stream[s].pull = "item")
            /\ stream'[s].left + One(stream'[s].carried) + One(stream'[s].pull = "item")
                 = stream[s].left + One(stream[s].carried) + One(stream[s].pull = "item")
        BY <1>1, <1>2, <1>3, <1>6, <3>1 DEF One
      <3> QED
        BY <1>2, <1>3, <1>6, <2>1, <2>3, <3>2, BooksMoved
    <2>4. CASE stream[s].at = "unopened"
      BY <1>1, <2>4, StreamFacts DEF Place
    <2> QED
      BY <2>2, <2>3, <2>4
  <1>7. closer = "none" /\ ~broken => (stream'[s].exhausted => stream'[s].left = 0)
    BY <1>2, <1>3
  <1>8. s \in Active'
    BY <1>1, <1>2, StreamFacts DEF Active, Place
  <1> QED
    BY <1>1, <1>2, <1>4, <1>5, <1>6, <1>7, <1>8, StreamFacts, QuietMove

-----------------------------------------------------------------------------
(* Steps of a stream that call the scheduler.                               *)

\* Of the jobs of map_streams, a call for the class of s moves those of s only.
LEMMA OwnClass ==
  ASSUME NEW s \in Stream
  PROVE  /\ OwnerOf(s) \in Owner /\ \A r \in MapStream \ {s} : r # OwnerOf(s)
         /\ s \in MapStream => OwnerOf(s) = s /\ s # Plain
         /\ MapStream \subseteq Stream
  BY StreamAssumption DEF OwnerOf

\* A completion is yielded: one job less in the pool, one permit more.
LEMMA StreamYieldsKeeps ==
  ASSUME StreamsInv, IndInv', NEW s \in Stream, StreamYields(s)
  PROVE  PoolRest'
  <1> DEFINE o == OwnerOf(s)
             a == Cardinality(Owed(s))
  <1>1. /\ UNCHANGED <<closer, state>> /\ posted' = TRUE /\ loop' = Free /\ TakeReady(o)
        /\ Claiming(s)
    BY DEF StreamYields, TakeCompletionNowait
  <1>2. /\ Onward /\ \A r \in MapStream \ {o} : Untouched(r)
        /\ Cardinality(Owed(o)) > 0
        /\ Cardinality(Owed(o))' = Cardinality(Owed(o)) - 1
        /\ Mine(o)' = Mine(o)
        /\ \A t \in Mine(o) : fate'[t] \in {"released", "lost"} => fate'[t] = fate[t]
        /\ UNCHANGED <<broken, intake_closed>>
    BY <1>1, TakeCall, OwnClass DEF StreamsInv
  <1>3. /\ loop \in {s, Free} /\ stream[s].end = "open"
        /\ Exhausted(s) \/ Carried(s) => stream[s].pull = "none"
        /\ Exhausted(s) \in BOOLEAN /\ Carried(s) \in BOOLEAN
        /\ closer = "none" /\ ~broken =>
              Exhausted(s) = stream[s].exhausted /\ Carried(s) = stream[s].carried
        /\ Carried(s) => stream[s].carried
    BY <1>1, ClaimingPlace
  <1>4. ASSUME s \in MapStream
        PROVE  /\ a \in Nat /\ a > 0 /\ stream[s].gate + a <= Width
               /\ stream[s].gate + a + One(stream[s].carried) + One(stream[s].pull = "item") <= Width
    <2>1. a > 0
      BY <1>2, <1>4, OwnClass
    <2>2. stream[s].gate + a + One(stream[s].carried) + One(stream[s].pull = "item") <= Width
      BY <1>3, <1>4, StreamFacts DEF Books
    <2>3. a \in Nat /\ One(stream[s].carried) \in Nat /\ One(stream[s].pull = "item") \in Nat
          /\ stream[s].gate \in Nat /\ Width \in Nat
      BY BookNumbers, StreamFacts DEF One
    <2> HIDE DEF a
    <2> QED
      BY <2>1, <2>2, <2>3
  <1>5. /\ Moves(s) /\ stream'[s] \in StreamType
        /\ stream'[s].at = "yielded" /\ stream'[s].end = stream[s].end
        /\ stream'[s].exhausted = Exhausted(s) /\ stream'[s].carried = Carried(s)
        /\ \/ stream'[s].pull = stream[s].pull
           \/ /\ stream'[s].pull = "pulling" /\ stream[s].pull = "none"
              /\ ~Exhausted(s) /\ ~Carried(s)
        /\ stream'[s].outstanding = stream[s].outstanding - 1
        /\ stream'[s].left = stream[s].left
        /\ s \in MapStream => stream'[s].gate = stream[s].gate + 1
    <2>1. stream \in [Stream -> StreamType] /\ "yielded" \in At
      BY StreamFacts DEF At
    <2>2. PICK e, c : e = Exhausted(s) /\ c = Carried(s)
      OBVIOUS
    <2>3. PICK g : g = IF s \in MapStream THEN stream[s].gate + 1 ELSE stream[s].gate
      OBVIOUS
    <2>4. PICK x : x = IF WantsPull(s, Exhausted(s), Carried(s)) /\ CanAdmit'
                       THEN "pulling" ELSE stream[s].pull
      OBVIOUS
    <2>5. PICK n : n = stream[s].outstanding - 1
      OBVIOUS
    <2>6. /\ e \in BOOLEAN /\ c \in BOOLEAN /\ n \in Int
          /\ x \in {"none", "pulling", "item", "end", "error"}
      BY <1>3, <2>2, <2>4, <2>5, StreamFacts
    <2>7. g \in 0 .. Width
      <3>1. stream[s].gate \in 0 .. Width /\ Width \in Nat
        BY StreamFacts
      <3> HIDE DEF a
      <3> QED
        BY <1>4, <2>3, <3>1
    <2>8. stream' = [stream EXCEPT ![s].at = "yielded", ![s].wakeup = FALSE,
                       ![s].exhausted = e, ![s].carried = c, ![s].outstanding = n,
                       ![s].gate = g, ![s].pull = x]
      BY <2>2, <2>3, <2>4, <2>5 DEF StreamYields
    <2>9. stream'[s] \in StreamType
      <3>1. PICK u \in StreamType : u = stream[s]
        BY <2>1
      <3>2. stream'[s] = [u EXCEPT !.at = "yielded", !.wakeup = FALSE, !.exhausted = e,
                                   !.carried = c, !.outstanding = n, !.gate = g, !.pull = x]
        BY <2>1, <2>8, <3>1
      <3> QED
        BY <2>1, <2>6, <2>7, <3>2 DEF StreamType
    <2>10. Moves(s)
      BY <1>3, <2>1, <2>8, <2>9 DEF Moves
    <2>11. /\ stream'[s].at = "yielded" /\ stream'[s].end = stream[s].end
           /\ stream'[s].exhausted = e /\ stream'[s].carried = c
      BY <2>1, <2>8 DEF StreamType
    <2>12. /\ stream'[s].pull = x /\ stream'[s].outstanding = n
           /\ stream'[s].left = stream[s].left /\ stream'[s].gate = g
      BY <2>1, <2>8 DEF StreamType
    <2>13. \/ x = stream[s].pull
           \/ x = "pulling" /\ stream[s].pull = "none" /\ ~Exhausted(s) /\ ~Carried(s)
      <3>1. CASE WantsPull(s, Exhausted(s), Carried(s)) /\ CanAdmit'
        <4>1. ~Exhausted(s) /\ ~Carried(s) /\ stream[s].pull = "none"
          BY <3>1 DEF WantsPull
        <4>2. x = "pulling"
          BY <2>4, <3>1
        <4> QED
          BY <4>1, <4>2
      <3>2. CASE ~(WantsPull(s, Exhausted(s), Carried(s)) /\ CanAdmit')
        BY <2>4, <3>2
      <3> QED
        BY <3>1, <3>2
    <2> QED
      BY <2>2, <2>3, <2>5, <2>9, <2>10, <2>11, <2>12, <2>13
  <1>6. Place(s)' /\ Informed(s)'
    BY <1>3, <1>5, StreamFacts, InformedAgain DEF Place
  <1>7. ASSUME s \in MapStream PROVE Books(s)' /\ Yielded(s)'
    <2> DEFINE c == One(stream[s].carried)
               d == One(stream'[s].carried)
               i == One(stream[s].pull = "item")
               j == One(stream'[s].pull = "item")
               g == stream[s].gate
               l == stream[s].left
               b == Cardinality(Mine(s))
    <2>1. /\ Cardinality(Owed(s))' = a - 1 /\ Mine(s)' = Mine(s) /\ Cardinality(Mine(s))' = b
          /\ \A t \in Mine(s) : fate'[t] \in {"released", "lost"} => fate'[t] = fate[t]
      BY <1>2, <1>7, OwnClass
    <2>2. a \in Int /\ b \in Int /\ g \in Int /\ l \in Int /\ Width \in Int /\ SourceJobs[s] \in Int
          /\ c \in Int /\ d \in Int /\ i \in Int /\ j \in Int /\ stream[s].outstanding \in Int
      BY BookNumbers, StreamFacts DEF One
    <2>3. g + a + c + i <= Width /\ d <= c /\ j <= i
      BY <1>3, <1>4, <1>5, <1>7 DEF One
    <2>4. closer = "none" /\ ~broken => l + b + c + i = SourceJobs[s] /\ c = d /\ i = j
      BY <1>3, <1>5, <1>7, StreamFacts DEF Books, One
    <2>5. /\ ~broken => stream[s].outstanding = a
          /\ \A t \in Mine(s) : fate[t] \notin {"released", "lost"}
      BY <1>3, <1>7, StreamFacts DEF Books
    <2> HIDE DEF c, d, i, j, g, l, a, b
    <2>6. (g + 1) + (a - 1) + d + j <= Width
      BY <2>2, <2>3
    <2>7. closer = "none" /\ ~broken => l + b + d + j = SourceJobs[s]
      BY <2>4
    <2>8. Books(s)'
      <3>1. ~broken' => stream'[s].outstanding = Cardinality(Owed(s))'
        BY <1>2, <1>5, <2>1, <2>5
      <3>2. stream'[s].gate + Cardinality(Owed(s))' + One(stream'[s].carried)
              + One(stream'[s].pull = "item") <= Width
        BY <1>5, <1>7, <2>1, <2>6 DEF g, d, j
      <3>3. closer' = "none" /\ ~broken' =>
              stream'[s].left + Cardinality(Mine(s))' + One(stream'[s].carried)
                + One(stream'[s].pull = "item") = SourceJobs[s]
        BY <1>1, <1>2, <1>5, <2>1, <2>7 DEF l, d, j
      <3>4. \A t \in Mine(s)' : fate'[t] \notin {"released", "lost"}
        BY <2>1, <2>5
      <3> QED
        BY <1>5, <3>1, <3>2, <3>3, <3>4 DEF Books
    <2> QED
      BY <1>3, <1>5, <2>8 DEF Yielded
  <1>8. closer = "none" /\ ~broken' => (stream'[s].exhausted => stream'[s].left = 0)
    BY <1>2, <1>3, <1>5 DEF StreamsInv, Closing
  <1>9. closer = "none" /\ ~broken' => state' = "running" /\ ~intake_closed'
    BY <1>1, <1>2 DEF StreamsInv, Closing
  <1>10. s \in Active'
    BY <1>5 DEF Active
  <1>11. MoverKept(s)
    BY <1>6, <1>7, <1>8, <1>9, <1>10 DEF MoverKept
  <1>12. \A r \in MapStream \ {s} : Untouched(r)
    BY <1>2, OwnClass
  <1> QED
    BY <1>1, <1>2, <1>5, <1>11, <1>12, StreamFacts, StreamMove

\* admit answers with a ticket, or the scheduler breaks under it: either way the
\* submission in hand becomes a job of the stream.
LEMMA AdmittedBooks ==
  ASSUME StreamsInv, NEW s \in MapStream, stream[s].at = "admitting",
         Admit(s) \/ AdmitStartFails(s), UNCHANGED closer,
         stream'[s] \in StreamType, stream'[s].at = "top", stream'[s].end = stream[s].end,
         stream'[s].carried = FALSE, stream'[s].pull = stream[s].pull,
         ~broken' => stream'[s].outstanding = stream[s].outstanding + 1,
         stream'[s].left = stream[s].left, stream'[s].gate = stream[s].gate
  PROVE  Books(s)' /\ Yielded(s)'
  <1>1. s \in Stream /\ s \in Owner /\ s # Plain
    BY StreamAssumption
  <1>2. stream[s].end = "open" /\ stream[s].carried /\ stream[s].pull = "none" /\ Books(s)
    BY <1>1, StreamFacts DEF Place
  <1>3. /\ Onward
        /\ Cardinality(Owed(s))' = Cardinality(Owed(s)) + 1
        /\ Cardinality(Mine(s))' = Cardinality(Mine(s)) + 1
        /\ \A t \in Mine(s)' : fate'[t] \in {"released", "lost"} => t \in Mine(s) /\ fate'[t] = fate[t]
    BY <1>1, AdmitCall DEF StreamsInv
  <1> DEFINE a == Cardinality(Owed(s))
             b == Cardinality(Mine(s))
             g == stream[s].gate
             l == stream[s].left
  <1>4. a \in Int /\ b \in Int /\ g \in Int /\ l \in Int /\ Width \in Int /\ SourceJobs[s] \in Int
    BY <1>1, BookNumbers, StreamFacts
  <1>5. /\ One(stream[s].carried) = 1 /\ One(stream[s].pull = "item") = 0
        /\ One(stream'[s].carried) = 0 /\ One(stream'[s].pull = "item") = 0
    BY <1>2 DEF One
  <1>6. /\ g + a + 1 + 0 <= Width
        /\ closer = "none" /\ ~broken => l + b + 1 + 0 = SourceJobs[s]
        /\ ~broken => stream[s].outstanding = a
        /\ \A t \in Mine(s) : fate[t] \notin {"released", "lost"}
    BY <1>2, <1>5 DEF Books
  <1> HIDE DEF a, b, g, l
  <1>7. /\ g + (a + 1) + 0 + 0 <= Width
        /\ closer = "none" /\ ~broken => l + (b + 1) + 0 + 0 = SourceJobs[s]
    BY <1>4, <1>6
  <1>8. ~broken' => ~broken
    BY <1>3 DEF Onward
  <1>9. Books(s)'
    <2>1. ~broken' => stream'[s].outstanding = Cardinality(Owed(s))'
      BY <1>3, <1>6, <1>8 DEF a
    <2>2. stream'[s].gate + Cardinality(Owed(s))' + One(stream'[s].carried)
            + One(stream'[s].pull = "item") <= Width
      BY <1>3, <1>5, <1>7 DEF g, a
    <2>3. closer' = "none" /\ ~broken' =>
            stream'[s].left + Cardinality(Mine(s))' + One(stream'[s].carried)
              + One(stream'[s].pull = "item") = SourceJobs[s]
      BY <1>3, <1>5, <1>7, <1>8 DEF l, b
    <2>4. \A t \in Mine(s)' : fate'[t] \notin {"released", "lost"}
      BY <1>3, <1>6
    <2> QED
      BY <2>1, <2>2, <2>3, <2>4 DEF Books
  <1> QED
    BY <1>2, <1>9 DEF Yielded

\* A submission is admitted.
LEMMA StreamAdmitsKeeps ==
  ASSUME StreamsInv, IndInv', NEW s \in Stream, StreamAdmits(s)
  PROVE  PoolRest'
  <1>1. /\ UNCHANGED <<closer, state, loop>> /\ posted' = TRUE /\ Admit(OwnerOf(s))
        /\ stream[s].at = "admitting" /\ loop \in {s, Free}
    BY DEF StreamAdmits, OnLoop
  <1>2. /\ Moves(s) /\ stream'[s] \in StreamType
        /\ stream'[s].at = "top" /\ stream'[s].end = stream[s].end
        /\ stream'[s].exhausted = stream[s].exhausted /\ stream'[s].carried = FALSE
        /\ stream'[s].pull = stream[s].pull
        /\ stream'[s].outstanding = stream[s].outstanding + 1
        /\ stream'[s].left = stream[s].left /\ stream'[s].gate = stream[s].gate
    BY <1>1, StreamFacts DEF StreamAdmits, Moves, StreamType, At
  <1>3. Onward /\ \A r \in MapStream \ {s} : Untouched(r)
    BY <1>1, AdmitCall, OwnClass DEF StreamsInv
  <1>4. UNCHANGED <<broken, intake_closed>>
    BY <1>1 DEF Admit, flags
  <1>5. Place(s)' /\ Informed(s)'
    BY <1>1, <1>2, StreamFacts, InformedAgain DEF Place
  <1>6. ASSUME s \in MapStream PROVE Books(s)' /\ Yielded(s)'
    BY <1>1, <1>2, <1>6, OwnClass, AdmittedBooks
  <1>7. /\ closer = "none" /\ ~broken' => (stream'[s].exhausted => stream'[s].left = 0)
        /\ closer = "none" /\ ~broken' => state' = "running" /\ ~intake_closed'
    BY <1>1, <1>2, <1>4 DEF StreamsInv, Closing
  <1>8. MoverKept(s)
    <2>1. s \in Active'
      BY <1>2 DEF Active
    <2> QED
      BY <1>5, <1>6, <1>7, <2>1 DEF MoverKept
  <1> QED
    BY <1>1, <1>2, <1>3, <1>8, StreamFacts, StreamMove

\* admit answers INTAKE_CLOSED, because the intake is closed or because the thread
\* for the job could not be started.
LEMMA StreamRefusedKeeps ==
  ASSUME StreamsInv, IndInv', NEW s \in Stream, StreamRefused(s)
  PROVE  PoolRest'
  <1>1. /\ UNCHANGED <<closer, state, loop>>
        /\ stream[s].at = "admitting" /\ loop \in {s, Free}
    BY DEF StreamRefused, OnLoop
  <1>2. /\ Moves(s) /\ stream'[s] \in StreamType
        /\ stream'[s].at = "top" /\ stream'[s].end = stream[s].end
        /\ stream'[s].exhausted = TRUE /\ stream'[s].carried = FALSE
        /\ stream'[s].pull = stream[s].pull
        /\ stream'[s].outstanding = stream[s].outstanding
        /\ stream'[s].left = stream[s].left /\ stream'[s].gate = stream[s].gate
    <2>1. stream \in [Stream -> StreamType]
      BY StreamFacts
    <2>2. stream' = [stream EXCEPT ![s].at = "top", ![s].carried = FALSE, ![s].exhausted = TRUE]
      BY DEF StreamRefused
    <2>3. stream'[s] \in StreamType
      BY <2>1, <2>2 DEF StreamType, At
    <2>4. Moves(s)
      BY <1>1, <2>1, <2>2, <2>3 DEF Moves
    <2> QED
      BY <2>1, <2>2, <2>3, <2>4 DEF StreamType
  <1>3. Place(s)' /\ Informed(s)'
    BY <1>1, <1>2, StreamFacts, InformedAgain DEF Place
  <1>4. s \in Active'
    BY <1>2 DEF Active
  <1>5. stream[s].end = "open" /\ stream[s].pull = "none" /\ stream[s].carried
    BY <1>1, StreamFacts DEF Place
  <1>6. CASE AdmitStartFails(OwnerOf(s)) /\ posted' = TRUE
    <2>1. Onward /\ \A r \in MapStream \ {s} : Untouched(r)
      BY <1>6, AdmitCall, OwnClass DEF StreamsInv
    <2>2. broken' = TRUE
      BY <1>6 DEF AdmitStartFails, Break
    <2>3. ASSUME s \in MapStream PROVE Books(s)' /\ Yielded(s)'
      BY <1>1, <1>2, <1>6, <2>2, <2>3, OwnClass, AdmittedBooks
    <2>4. MoverKept(s)
      BY <1>3, <1>4, <2>2, <2>3 DEF MoverKept
    <2> QED
      BY <1>1, <1>2, <1>6, <2>1, <2>4, StreamFacts, StreamMove
  <1>7. CASE intake_closed /\ UNCHANGED <<vars, posted>>
    <2>1. ~(closer = "none" /\ ~broken)
      BY <1>7 DEF StreamsInv, Closing
    <2>2. ASSUME s \in MapStream PROVE Books(s)' /\ Yielded(s)'
      <3>1. UNCHANGED <<fate, owner, broken, closer>> /\ stream'[s].at # "unopened"
        BY <1>1, <1>2, <1>7 DEF vars
      <3>2. stream[s].gate \in Int
        BY StreamFacts
      <3>3. stream'[s].gate + One(stream'[s].carried) + One(stream'[s].pull = "item")
              <= stream[s].gate + One(stream[s].carried) + One(stream[s].pull = "item")
        BY <1>2, <1>5, <3>2 DEF One
      <3> QED
        BY <1>2, <1>5, <2>1, <2>2, <3>1, <3>3, BooksMoved
    <2> QED
      BY <1>1, <1>2, <1>3, <1>4, <1>7, <2>1, <2>2, StreamFacts, QuietMove
  <1> QED
    BY <1>6, <1>7 DEF StreamRefused

\* The consumer leaves a stream suspended at its yield.
LEMMA ConsumerLeavesKeeps ==
  ASSUME StreamsInv, IndInv', NEW s \in Stream, ConsumerLeaves(s)
  PROVE  PoolRest'
  <1>1. UNCHANGED <<closer, state, loop>> /\ loop = Free /\ stream[s].at = "yielded"
    BY DEF ConsumerLeaves
  <1>2. /\ Moves(s) /\ stream'[s] \in StreamType
        /\ stream'[s].at = "finally" /\ stream'[s].end = "left"
        /\ stream'[s].exhausted = stream[s].exhausted /\ stream'[s].carried = stream[s].carried
        /\ stream'[s].pull = stream[s].pull
        /\ stream'[s].left = stream[s].left /\ stream'[s].gate = stream[s].gate
    BY <1>1, StreamFacts DEF ConsumerLeaves, Moves, StreamType, At
  <1>3. Place(s)' /\ Informed(s)'
    BY <1>1, <1>2, StreamFacts, InformedAgain DEF Place
  <1>4. ASSUME s \in MapStream PROVE Books(s)' /\ Yielded(s)'
    BY <1>2 DEF Books, Yielded
  <1>5. s \in Active'
    BY <1>2 DEF Active
  <1>6. CASE s \notin MapStream
    <2>1. UNCHANGED <<vars, posted>>
      BY <1>6 DEF ConsumerLeaves
    <2>2. closer = "none" /\ ~broken => (stream'[s].exhausted => stream'[s].left = 0)
      BY <1>2 DEF StreamsInv, Closing
    <2> QED
      BY <1>1, <1>2, <1>3, <1>5, <1>6, <2>1, <2>2, StreamFacts, QuietMove
  <1>7. CASE s \in MapStream
    <2>1. ReleaseOwned(s) /\ posted' = TRUE
      BY <1>7 DEF ConsumerLeaves
    <2>2. /\ Onward /\ \A r \in MapStream \ {s} : Untouched(r)
          /\ UNCHANGED <<broken, intake_closed>>
      BY <1>7, <2>1, ReleaseCall DEF StreamsInv
    <2>3. /\ closer = "none" /\ ~broken' => (stream'[s].exhausted => stream'[s].left = 0)
          /\ closer = "none" /\ ~broken' => state' = "running" /\ ~intake_closed'
      BY <1>1, <1>2, <2>2 DEF StreamsInv, Closing
    <2>4. MoverKept(s)
      BY <1>3, <1>4, <1>5, <2>3 DEF MoverKept
    <2> QED
      BY <1>1, <1>2, <2>1, <2>2, <2>4, StreamFacts, StreamMove
  <1> QED
    BY <1>6, <1>7

\* The finally clause of map_stream.
LEMMA StreamReleasesKeeps ==
  ASSUME StreamsInv, IndInv', NEW s \in Stream, StreamReleases(s)
  PROVE  PoolRest'
  <1>1. /\ UNCHANGED <<closer, state, loop>> /\ loop = Free /\ stream[s].at = "releasing"
        /\ ReleaseOwned(s) /\ posted' = TRUE
    BY DEF StreamReleases
  <1>2. /\ Moves(s) /\ stream'[s] \in StreamType
        /\ stream'[s].at = "done" /\ stream'[s].end = stream[s].end
        /\ stream'[s].exhausted = stream[s].exhausted /\ stream'[s].carried = stream[s].carried
        /\ stream'[s].pull = stream[s].pull
        /\ stream'[s].left = stream[s].left /\ stream'[s].gate = stream[s].gate
    BY <1>1, StreamFacts DEF StreamReleases, Moves, StreamType, At
  <1>3. s \in MapStream /\ stream[s].end # "open"
    BY <1>1, StreamFacts DEF Place
  <1>4. /\ Onward /\ \A r \in MapStream \ {s} : Untouched(r)
        /\ UNCHANGED <<broken, intake_closed, owner>>
        /\ \A t \in Ticket : fate[t] = "delivered" => fate'[t] = "delivered"
        /\ residents' <= residents /\ tokens' \subseteq tokens
    BY <1>1, <1>3, ReleaseCall DEF StreamsInv
  <1>5. Place(s)' /\ Informed(s)'
    BY <1>1, <1>2, StreamFacts, InformedAgain DEF Place
  <1>6. Books(s)' /\ Yielded(s)'
    <2>1. Mine(s)' = Mine(s) /\ Mine(s) \subseteq Ticket
      BY <1>4 DEF Mine
    <2>2. Yielded(s)
      BY <1>3, StreamFacts
    <2> QED
      BY <1>1, <1>2, <1>3, <1>4, <2>1, <2>2 DEF Books, Yielded
  <1>7. /\ closer = "none" /\ ~broken' => (stream'[s].exhausted => stream'[s].left = 0)
        /\ closer = "none" /\ ~broken' => state' = "running" /\ ~intake_closed'
    BY <1>1, <1>2, <1>4 DEF StreamsInv, Closing
  <1>8. Active' = Active
    BY <1>1, <1>2 DEF Active, Moves
  <1>9. MoverKept(s)
    BY <1>4, <1>5, <1>6, <1>7, <1>8 DEF MoverKept
  <1> QED
    BY <1>1, <1>2, <1>4, <1>9, StreamFacts, StreamMove

\* The streams that were never opened have no jobs to lose.
LEMMA IdleStreams ==
  ASSUME StreamsInv, NEW r \in MapStream, r \notin Active, stream[r].end = "open"
  PROVE  Mine(r) = {}
  <1>1. r \in Stream
    BY StreamAssumption
  <1>2. stream[r].at = "unopened"
    BY <1>1, StreamFacts DEF Active, Place
  <1> QED
    BY <1>1, <1>2, StreamFacts DEF Books

\* What is discarded was owed to nobody who is still iterating.
LEMMA DiscardBooks ==
  ASSUME StreamsInv, DiscardCompletions, NEW r \in MapStream, SameStream(r), closer' # "none",
         r \notin Active \/ stream[r].end # "open"
  PROVE  Books(r)' /\ Yielded(r)'
  <1>1. /\ \A q \in MapStream : Mine(q) = {} => Untouched(q)
        /\ UNCHANGED <<broken, intake_closed, owner>>
        /\ \A t \in Ticket : fate[t] = "delivered" => fate'[t] = "delivered"
    BY DiscardCall DEF StreamsInv
  <1>2. r \in Stream /\ Books(r) /\ Yielded(r) /\ Place(r)
    BY StreamAssumption, StreamFacts
  <1>3. CASE stream[r].end = "open"
    <2>1. Untouched(r)
      BY <1>1, <1>3, IdleStreams
    <2> QED
      BY <1>1, <1>2, <2>1, BooksKept
  <1>4. CASE stream[r].end # "open"
    <2>1. Mine(r)' = Mine(r) /\ Mine(r) \subseteq Ticket
      BY <1>1 DEF Mine
    <2> QED
      BY <1>1, <1>2, <1>4, <2>1 DEF Books, Yielded, Place, SameStream
  <1> QED
    BY <1>3, <1>4

\* The finally clause of _drive_stream: the last stream of a closed pool discards
\* what is left in it, unless its source failed.
LEMMA FinallyKeeps ==
  ASSUME StreamsInv, IndInv', NEW s \in Stream, StreamFinally(s)
  PROVE  PoolRest'
  <1>1. UNCHANGED <<closer, state, loop>> /\ loop = Free /\ stream[s].at = "finally"
    BY DEF StreamFinally, DriverEnds
  <1>2. /\ Moves(s) /\ stream'[s] \in StreamType
        /\ \/ stream'[s].at = "releasing" /\ s \in MapStream
           \/ stream'[s].at = "done"
        /\ stream'[s].end = stream[s].end
        /\ stream'[s].pull = IF stream[s].pull = "error" THEN "error" ELSE "none"
        /\ stream'[s].exhausted = stream[s].exhausted /\ stream'[s].carried = stream[s].carried
        /\ stream'[s].left = stream[s].left
    <2>1. stream \in [Stream -> StreamType]
      BY StreamFacts
    <2>2. PICK x, y : /\ x = IF stream[s].pull = "error" THEN "error" ELSE "none"
                      /\ y = IF s \in MapStream /\ stream[s].end # "left"
                             THEN "releasing" ELSE "done"
      OBVIOUS
    <2>3. stream' = [stream EXCEPT ![s].pull = x, ![s].at = y]
      BY <2>1, <2>2 DEF StreamFinally, DriverEnds, StreamType
    <2>4. x \in {"none", "pulling", "item", "end", "error"} /\ y \in At
      BY <2>2 DEF At
    <2>5. stream'[s] \in StreamType
      BY <2>1, <2>3, <2>4 DEF StreamType
    <2>6. Moves(s)
      BY <1>1, <2>1, <2>3, <2>5 DEF Moves
    <2>7. /\ stream'[s].at = y /\ stream'[s].end = stream[s].end /\ stream'[s].pull = x
          /\ stream'[s].exhausted = stream[s].exhausted /\ stream'[s].carried = stream[s].carried
          /\ stream'[s].left = stream[s].left
      BY <2>1, <2>3 DEF StreamType
    <2> QED
      BY <2>2, <2>5, <2>6, <2>7
  <1>3. stream[s].end # "open"
    BY <1>1, StreamFacts DEF Place
  <1>4. Place(s)' /\ Informed(s)'
    BY <1>1, <1>2, <1>3, StreamFacts, InformedAgain DEF Place
  <1>5. s \in Active
    BY <1>1 DEF Active
  <1>6. CASE ~(stream[s].pull # "error" /\ Active = {s} /\ closer = "done")
    <2>1. UNCHANGED <<vars, posted>>
      BY <1>6 DEF StreamFinally
    <2>2. closer = "none" /\ ~broken => (stream'[s].exhausted => stream'[s].left = 0)
      BY <1>2 DEF StreamsInv, Closing
    <2>3. ASSUME s \in MapStream PROVE Books(s)' /\ Yielded(s)'
      <3>1. UNCHANGED <<fate, owner, closer>> /\ Mine(s)' = Mine(s)
        BY <1>1, <2>1 DEF vars, Mine
      <3>2. Yielded(s)
        BY <2>3, StreamFacts
      <3> QED
        BY <1>2, <1>3, <3>1, <3>2 DEF Books, Yielded
    <2>4. ASSUME closer = "done" PROVE Active' # {}
      <3>1. CASE stream[s].pull = "error"
        BY <1>2, <3>1 DEF Active
      <3>2. CASE stream[s].pull # "error"
        <4>1. PICK r \in Active : r # s
          BY <1>5, <1>6, <2>4, <3>2
        <4>2. r \in Stream /\ stream'[r] = stream[r]
          BY <1>2, <4>1 DEF Active, Moves
        <4> QED
          BY <4>1, <4>2 DEF Active
      <3> QED
        BY <3>1, <3>2
    <2> QED
      BY <1>1, <1>2, <1>4, <2>1, <2>2, <2>3, <2>4, StreamFacts, QuietMove
  <1>7. CASE stream[s].pull # "error" /\ Active = {s} /\ closer = "done"
    <2>1. DiscardCompletions /\ posted' = TRUE
      BY <1>7 DEF StreamFinally
    <2>2. /\ Onward /\ UNCHANGED <<broken, intake_closed, owner>>
          /\ \A t \in Ticket : fate[t] = "delivered" => fate'[t] = "delivered"
          /\ residents' = 0 /\ tokens' = {}
      BY <2>1, DiscardCall DEF StreamsInv
    <2>3. ASSUME s \in MapStream PROVE Books(s)' /\ Yielded(s)'
      <3>1. Mine(s)' = Mine(s) /\ Mine(s) \subseteq Ticket
        BY <2>2 DEF Mine
      <3>2. Yielded(s)
        BY <2>3, StreamFacts
      <3> QED
        BY <1>1, <1>2, <1>3, <2>2, <3>1, <3>2 DEF Books, Yielded
    <2>4. ASSUME NEW r \in Stream \ {s}
          PROVE  Place(r)' /\ Informed(r)' /\ (r \in MapStream => Books(r)' /\ Yielded(r)')
      <3>1. SameStream(r) /\ r \notin Active /\ loop # r
        BY <1>1, <1>2, <1>7, StreamAssumption DEF SameStream, Moves
      <3>2. Place(r)' /\ Informed(r)'
        BY <2>1, <3>1, StreamFacts, PlaceKept, InformedAgain
      <3>3. ASSUME r \in MapStream PROVE Books(r)' /\ Yielded(r)'
        BY <1>1, <1>7, <2>1, <3>1, <3>3, DiscardBooks
      <3> QED
        BY <3>2, <3>3
    <2>5. PoolShape' /\ Closing' /\ ClosedPoolHoldsNothing'
      BY <1>1, <1>2, <1>7, <2>1, <2>2
         DEF StreamsInv, PoolShape, Closing, ClosedPoolHoldsNothing, Moves
    <2> QED
      BY <1>4, <2>2, <2>3, <2>4, <2>5, StreamAssumption DEF PoolRest, Onward
  <1> QED
    BY <1>6, <1>7

-----------------------------------------------------------------------------
(* The closing of the pool, the wakeups and the threads.                    *)

\* _wake_streams.
LEMMA WakeEffect ==
  ASSUME StreamsInv, stream' = WakeAll(stream)
  PROVE  /\ stream' \in [Stream -> StreamType]
         /\ \A r \in Stream : SameStream(r) /\ (stream[r].wakeup => stream'[r].wakeup)
         /\ \A r \in Active : stream'[r].wakeup
  <1>1. stream \in [Stream -> StreamType]
    BY DEF StreamsInv, PoolShape
  <1>2. ASSUME NEW r \in Stream
        PROVE  /\ stream'[r] \in StreamType /\ SameStream(r)
               /\ stream'[r].wakeup <=> stream[r].wakeup \/ r \in Active
    <2>1. PICK b \in BOOLEAN : b <=> stream[r].wakeup \/ r \in Active
      OBVIOUS
    <2>2. PICK u \in StreamType : u = stream[r]
      BY <1>1
    <2>3. stream'[r] = [u EXCEPT !.wakeup = b]
      BY <1>1, <2>1, <2>2 DEF WakeAll, StreamType
    <2>4. stream'[r] \in StreamType /\ stream'[r].wakeup = b
      BY <2>2, <2>3 DEF StreamType
    <2>5. SameStream(r)
      BY <2>2, <2>3 DEF SameStream, StreamType
    <2> QED
      BY <2>1, <2>4, <2>5
  <1>3. DOMAIN stream' = Stream /\ stream' = [r \in Stream |-> stream'[r]]
    BY DEF WakeAll
  <1> QED
    BY <1>2, <1>3 DEF Active

\* No stream moves, its jobs stay, and it is woken by whatever concerns it.
LEMMA Bystanders ==
  ASSUME StreamsInv, IndInv', stream' \in [Stream -> StreamType], UNCHANGED loop,
         \A r \in Stream : SameStream(r) /\ (stream[r].wakeup => stream'[r].wakeup),
         Onward, \A r \in MapStream : Untouched(r),
         closer' \in {"none", "quiescing", "stopping", "joining", "finishing", "done"},
         state' \in {"running", "draining", "closed", "broken"}, posted' \in BOOLEAN,
         closer' = "none" => closer = "none",
         closer' = "done" => closer = "done" \/ Active # {},
         residents' <= residents, tokens' \subseteq tokens,
         \/ posted' = TRUE
         \/ \A r \in Active : stream'[r].wakeup
         \/ UNCHANGED <<ready, broken, intake_closed, residents, posted, state>>,
         closer' = "none" /\ ~broken' => state' = "running" /\ ~intake_closed',
         closer' # "none" => intake_closed'
  PROVE  PoolRest'
  <1>1. \A r \in Stream : Place(r)'
    BY StreamFacts, PlaceKept
  <1>2. ASSUME NEW r \in Stream PROVE Informed(r)'
    <2>1. CASE posted' = TRUE
      BY <2>1, InformedAgain
    <2>2. CASE \A q \in Active : stream'[q].wakeup
      <3>1. stream'[r].at \in {"admitting", "settling", "waiting"} => r \in Active
        BY DEF Active, SameStream
      <3> QED
        BY <2>2, <3>1, InformedAgain
    <2>3. CASE UNCHANGED <<ready, broken, intake_closed, residents, posted, state>>
      <3>1. Stopping' => Stopping \/ broken
        BY <2>3 DEF Stopping
      <3> QED
        BY <2>3, <3>1, StreamFacts, InformedKept
    <2> QED
      BY <2>1, <2>2, <2>3
  <1>3. ASSUME NEW r \in MapStream PROVE Books(r)' /\ Yielded(r)'
    BY StreamAssumption, StreamFacts, BooksKept DEF Onward
  <1>4. PoolShape'
    BY DEF StreamsInv, PoolShape
  <1>5. Closing'
    <2>1. \A r \in Stream : stream'[r].exhausted = stream[r].exhausted /\ stream'[r].left = stream[r].left
      BY DEF SameStream
    <2> QED
      BY <2>1 DEF StreamsInv, Closing, Onward
  <1>6. ClosedPoolHoldsNothing'
    <2> SUFFICES ASSUME closer' = "done", Active' = {}
                 PROVE  residents' = 0 /\ tokens' = {}
      BY DEF ClosedPoolHoldsNothing
    <2>1. Active' = Active
      BY DEF Active, SameStream
    <2>2. residents = 0 /\ tokens = {}
      BY <2>1 DEF StreamsInv, ClosedPoolHoldsNothing
    <2>3. Occupying' \in SUBSET Ticket /\ residents' = Cardinality(Occupying')
      BY DEF IndInv, Counters, Accounting, Occupying
    <2>4. residents' \in Nat
      BY <2>3, TicketSets
    <2> QED
      BY <2>2, <2>4
  <1> QED
    BY <1>1, <1>2, <1>3, <1>4, <1>5, <1>6 DEF PoolRest, Onward

\* Steps that leave the streams alone altogether.
LEMMA StreamsAlone ==
  ASSUME StreamsInv, UNCHANGED stream
  PROVE  /\ stream' \in [Stream -> StreamType]
         /\ \A r \in Stream : SameStream(r) /\ (stream[r].wakeup => stream'[r].wakeup)
  BY DEF StreamsInv, PoolShape, SameStream

\* drain and abort begin.
LEMMA CloseBeginsKeeps ==
  ASSUME StreamsInv, IndInv', CloseBegins
  PROVE  PoolRest'
  <1>1. /\ closer' = "quiescing" /\ state' = "draining" /\ posted' = TRUE /\ UNCHANGED loop
        /\ stream' = WakeAll(stream) /\ intake_closed' = TRUE
        /\ UNCHANGED <<fate, owner, broken, residents, tokens>>
    BY DEF CloseBegins, CloseIntake, queues
  <1>2. Onward /\ \A r \in MapStream : Untouched(r)
    BY <1>1, QuietCall DEF StreamsInv
  <1>3. residents' <= residents
    BY <1>1, Facts DEF StreamsInv
  <1> QED
    BY <1>1, <1>2, <1>3, WakeEffect, Bystanders

\* abort cancels.
LEMMA AbortKeeps ==
  ASSUME StreamsInv, IndInv', Abort
  PROVE  PoolRest'
  <1>1. /\ posted' = TRUE /\ UNCHANGED <<state, closer, stream, loop>>
        /\ UNCHANGED <<fate, owner, broken, intake_closed, residents, tokens>>
    BY DEF Abort, CancelAll, queues, flags
  <1>2. Onward /\ \A r \in MapStream : Untouched(r)
    BY <1>1, QuietCall DEF StreamsInv
  <1>3. residents' <= residents /\ PoolShape /\ Closing
    BY <1>1, Facts DEF StreamsInv
  <1> QED
    BY <1>1, <1>2, <1>3, StreamsAlone, Bystanders DEF PoolShape, Closing

\* The closing thread waits, stops the scheduler and joins its threads.
LEMMA CloserKeeps ==
  ASSUME StreamsInv, IndInv', CloseQuiesces \/ CloseStops \/ CloseJoins
  PROVE  PoolRest'
  <1>1. /\ UNCHANGED <<state, stream, loop>> /\ closer \notin {"none", "done"}
        /\ closer' \in {"quiescing", "stopping", "joining", "finishing"}
    BY DEF CloseQuiesces, CloseStops, CloseJoins
  <1>2. /\ UNCHANGED <<fate, owner, broken, residents, tokens>>
        /\ intake_closed => intake_closed'
        /\ posted' = TRUE \/ UNCHANGED <<ready, intake_closed, posted>>
    <2>1. CASE CloseQuiesces
      BY <2>1 DEF CloseQuiesces, WaitForQuiescence, Returns, BlockIn, queues, flags
    <2>2. CASE CloseStops
      BY <2>2 DEF CloseStops, ShutdownBegin, queues
    <2>3. CASE CloseJoins
      BY <2>3, ShutdownCall DEF CloseJoins, StreamsInv
    <2> QED
      BY <2>1, <2>2, <2>3
  <1>3. Onward /\ \A r \in MapStream : Untouched(r)
    BY <1>2, QuietCall DEF StreamsInv
  <1>4. residents' <= residents /\ PoolShape /\ Closing
    BY <1>2, Facts DEF StreamsInv
  <1>5. posted' \in BOOLEAN /\ state' \in {"running", "draining", "closed", "broken"}
    BY <1>1, <1>2, <1>4 DEF PoolShape
  <1>6. intake_closed'
    BY <1>1, <1>2, <1>4 DEF Closing
  <1> QED
    BY <1>1, <1>2, <1>3, <1>4, <1>5, <1>6, StreamsAlone, Bystanders

\* The pool is closed: what nobody is iterating for is discarded.
LEMMA CloseFinishesKeeps ==
  ASSUME StreamsInv, IndInv', CloseFinishes
  PROVE  PoolRest'
  <1>1. /\ closer = "finishing" /\ closer' = "done" /\ state' \in {"closed", "broken"}
        /\ UNCHANGED loop /\ loop = Free /\ stream' = WakeAll(stream)
    BY DEF CloseFinishes
  <1>2. PoolShape /\ Closing
    BY DEF StreamsInv
  <1>3. /\ stream' \in [Stream -> StreamType]
        /\ \A r \in Stream : SameStream(r) /\ (stream[r].wakeup => stream'[r].wakeup)
        /\ \A r \in Active : stream'[r].wakeup
    BY <1>1, WakeEffect
  <1>4. CASE Active # {}
    <2>1. UNCHANGED <<fate, owner, broken, intake_closed, residents, tokens, posted>>
      BY <1>4 DEF CloseFinishes, vars
    <2>2. Onward /\ \A r \in MapStream : Untouched(r)
      BY <2>1, QuietCall DEF StreamsInv
    <2>3. residents' <= residents
      BY <2>1, Facts DEF StreamsInv
    <2> QED
      BY <1>1, <1>2, <1>3, <1>4, <2>1, <2>2, <2>3, Bystanders DEF PoolShape, Closing
  <1>5. CASE Active = {}
    <2>1. DiscardCompletions /\ posted' = TRUE
      BY <1>5 DEF CloseFinishes
    <2>2. /\ Onward /\ UNCHANGED <<broken, intake_closed, owner>>
          /\ residents' = 0 /\ tokens' = {}
      BY <2>1, DiscardCall DEF StreamsInv
    <2>3. \A r \in Stream : Place(r)' /\ Informed(r)'
      BY <1>1, <1>3, <2>1, StreamFacts, PlaceKept, InformedAgain
    <2>4. ASSUME NEW r \in MapStream PROVE Books(r)' /\ Yielded(r)'
      <3>1. SameStream(r) /\ r \notin Active /\ closer' # "none"
        BY <1>1, <1>3, <1>5, StreamAssumption
      <3> QED
        BY <2>1, <3>1, DiscardBooks
    <2>5. PoolShape' /\ Closing' /\ ClosedPoolHoldsNothing'
      BY <1>1, <1>2, <1>3, <2>1, <2>2 DEF PoolShape, Closing, ClosedPoolHoldsNothing
    <2> QED
      BY <2>2, <2>3, <2>4, <2>5 DEF PoolRest, Onward
  <1> QED
    BY <1>4, <1>5

\* The queued callback runs.
LEMMA LoopWakesKeeps ==
  ASSUME StreamsInv, IndInv', LoopWakes
  PROVE  PoolRest'
  <1>1. /\ posted' = FALSE /\ UNCHANGED <<state, closer, loop>> /\ stream' = WakeAll(stream)
        /\ UNCHANGED <<fate, owner, broken, intake_closed, residents, tokens>>
    BY DEF LoopWakes, vars
  <1>2. Onward /\ \A r \in MapStream : Untouched(r)
    BY <1>1, QuietCall DEF StreamsInv
  <1>3. residents' <= residents /\ PoolShape /\ Closing
    BY <1>1, Facts DEF StreamsInv
  <1> QED
    BY <1>1, <1>2, <1>3, WakeEffect, Bystanders DEF PoolShape, Closing

\* The threads of the scheduler.
LEMMA ThreadsKeep ==
  ASSUME StreamsInv, IndInv', NEW w \in Worker, ThreadAdvances(w) \/ ThreadBreaks(w)
  PROVE  PoolRest'
  <1>1. UNCHANGED <<state, closer, stream, loop>> /\ WorkerStep(w)
    BY DEF ThreadAdvances, ThreadBreaks, poolVars, WorkerStep
  <1>2. /\ Onward /\ \A r \in MapStream : Untouched(r)
        /\ UNCHANGED residents /\ tokens' \subseteq tokens
    BY <1>1, ThreadCall DEF StreamsInv
  <1>3. posted' = TRUE \/ UNCHANGED <<ready, broken, intake_closed, residents, posted, state>>
    BY DEF ThreadAdvances, ThreadBreaks, TakeAdmittedBlocks, TakeAdmitted, WorkerExits,
           poolVars, queues, flags
  <1>4. residents' <= residents /\ PoolShape /\ Closing
    BY <1>2, Facts DEF StreamsInv
  <1>5. /\ closer' \in {"none", "quiescing", "stopping", "joining", "finishing", "done"}
        /\ state' \in {"running", "draining", "closed", "broken"} /\ posted' \in BOOLEAN
    BY <1>1, <1>3, <1>4 DEF PoolShape
  <1>6. broken' \/ UNCHANGED <<broken, intake_closed>>
    BY <1>1 DEF WorkerStep, TakeAdmittedBlocks, TakeAdmitted, WorkerExits, FinishCompletes,
                FinishBreaks, Break, flags
  <1>7. /\ closer' = "none" /\ ~broken' => state' = "running" /\ ~intake_closed'
        /\ closer' # "none" => intake_closed'
    BY <1>1, <1>2, <1>4, <1>6 DEF Closing, Onward
  <1> QED
    BY <1>1, <1>2, <1>3, <1>4, <1>5, <1>7, StreamsAlone, Bystanders

\* Nothing happens.
LEMMA StutterKeeps ==
  ASSUME StreamsInv, IndInv', UNCHANGED allVars
  PROVE  PoolRest'
  <1>1. /\ UNCHANGED <<state, closer, stream, loop, posted>>
        /\ UNCHANGED <<fate, owner, broken, intake_closed, ready, residents, tokens>>
    BY DEF allVars, poolVars, vars
  <1>2. Onward /\ \A r \in MapStream : Untouched(r)
    BY <1>1, QuietCall DEF StreamsInv
  <1>3. residents' <= residents /\ PoolShape /\ Closing
    BY <1>1, Facts DEF StreamsInv
  <1> QED
    BY <1>1, <1>2, <1>3, StreamsAlone, Bystanders DEF PoolShape, Closing

-----------------------------------------------------------------------------
(* The invariant.                                                           *)

\* The pool just entered: no stream is open and nothing has been admitted.
LEMMA StreamsInvInit == PoolInit => StreamsInv
  <1> SUFFICES ASSUME PoolInit PROVE StreamsInv
    OBVIOUS
  <1>1. IndInv
    BY IndInvInit DEF PoolInit
  <1>2. /\ state = "running" /\ closer = "none" /\ loop = Free /\ posted = FALSE
        /\ stream = [s \in Stream |->
                       [at |-> "unopened", exhausted |-> FALSE, carried |-> FALSE,
                        pull |-> "none", outstanding |-> 0, wakeup |-> FALSE,
                        left |-> SourceJobs[s], gate |-> Width, end |-> "open"]]
        /\ intake_closed = FALSE /\ broken = FALSE
        /\ \A t \in Ticket : fate[t] = "new" /\ owner[t] = Plain
    BY DEF PoolInit, Init
  <1>3. \A s \in Stream : /\ stream[s].at = "unopened" /\ stream[s].end = "open"
                          /\ stream[s].exhausted = FALSE /\ stream[s].carried = FALSE
                          /\ stream[s].pull = "none" /\ stream[s].outstanding = 0
                          /\ stream[s].left = SourceJobs[s] /\ stream[s].gate = Width
    BY <1>2
  <1>4. PoolShape
    <2>1. Width \in 0 .. Width /\ \A s \in Stream : SourceJobs[s] \in Nat
      BY StreamAssumption
    <2>2. ASSUME NEW s \in Stream PROVE stream[s] \in StreamType
      BY <1>2, <2>1 DEF StreamType, At
    <2> QED
      BY <1>2, <2>2 DEF PoolShape
  <1>5. Closing /\ Issued /\ ClosedPoolHoldsNothing
    BY <1>2, <1>3 DEF Closing, Issued, ClosedPoolHoldsNothing
  <1>6. \A s \in Stream : Place(s) /\ Informed(s)
    BY <1>3 DEF Place, Informed
  <1>7. ASSUME NEW s \in MapStream PROVE Books(s) /\ Yielded(s)
    <2>1. s \in Stream /\ s # Plain /\ Width \in Nat /\ SourceJobs[s] \in Nat
      BY StreamAssumption
    <2>2. Mine(s) = {} /\ Owed(s) = {}
      BY <1>2, <2>1 DEF Mine, Owed, Occupying
    <2>3. Cardinality(Mine(s)) = 0 /\ Cardinality(Owed(s)) = 0
      BY <2>2, FS_EmptySet
    <2> QED
      BY <1>3, <2>1, <2>2, <2>3 DEF Books, Yielded, One
  <1> QED
    BY <1>1, <1>4, <1>5, <1>6, <1>7 DEF StreamsInv

\* Every step of the loop, the pulls, the closing thread and the workers keeps the
\* invariant.
LEMMA StreamsInvStep == StreamsInv /\ [PoolNext]_allVars => StreamsInv'
  <1> SUFFICES ASSUME StreamsInv, [PoolNext]_allVars PROVE StreamsInv'
    OBVIOUS
  <1>1. IndInv'
    <2>1. [Next]_vars
      BY SchedulerSteps DEF StreamsInv
    <2> QED
      BY <2>1, IndInvStep DEF StreamsInv
  <1>2. ASSUME NEW s \in Stream, StreamStep(s)
        PROVE  PoolRest'
    BY <1>1, <1>2, TopCancelsPullKeeps, StreamYieldsKeeps, StreamRaisesKeeps, StreamReturnsKeeps,
       StreamGoesOnKeeps, StreamAdmitsKeeps, StreamRefusedKeeps, StreamFindsNoRoomKeeps,
       StreamHarvestsKeeps, StreamWaitsKeeps, FinallyKeeps, StreamReleasesKeeps DEF StreamStep
  <1>3. ASSUME NEW s \in Stream,
               \/ OpenStream(s) \/ PullStep(s) \/ PullFails(s)
               \/ ConsumerResumes(s) \/ ConsumerLeaves(s)
        PROVE  PoolRest'
    BY <1>1, <1>3, OpenStreamKeeps, PullKeeps, ConsumerResumesKeeps, ConsumerLeavesKeeps
  <1>4. ASSUME CloseBegins \/ Abort \/ CloseStep \/ LoopWakes
        PROVE  PoolRest'
    BY <1>1, <1>4, CloseBeginsKeeps, AbortKeeps, CloserKeeps, CloseFinishesKeeps, LoopWakesKeeps
       DEF CloseStep
  <1>5. ASSUME NEW w \in Worker, ThreadAdvances(w) \/ ThreadBreaks(w)
        PROVE  PoolRest'
    BY <1>1, <1>5, ThreadsKeep
  <1>6. ASSUME UNCHANGED allVars
        PROVE  PoolRest'
    BY <1>1, <1>6, StutterKeeps
  <1>7. PoolRest'
    BY <1>2, <1>3, <1>4, <1>5, <1>6 DEF PoolNext
  <1> QED
    BY <1>1, <1>7 DEF StreamsInv, PoolRest

-----------------------------------------------------------------------------
\* The inductive invariant of the pool: the scheduler's, the books each map_stream
\* keeps on the loop against what the worker threads hold, what a stream may still
\* believe since it last cleared its wakeup, and what closing the pool implies.
THEOREM StreamsInvariant == PoolSpec => []StreamsInv
  BY StreamsInvInit, StreamsInvStep, PTL DEF PoolSpec

\* The streams of a pool and its closing are one of the drivers the scheduler was
\* proved correct for: everything SchedulerProofs shows of Scheduler holds of the
\* scheduler of a pool.
THEOREM PoolDrivesScheduler == PoolSpec => Spec
  <1>1. PoolInit => Init
    BY DEF PoolInit
  <1>2. StreamsInv /\ [PoolNext]_allVars => [Next]_vars
    BY SchedulerSteps DEF StreamsInv
  <1> QED
    BY <1>1, <1>2, StreamsInvariant, PTL DEF PoolSpec, Spec

\* The types of the pool, with the counters of the scheduler within its capacity and
\* no permit of a gate lost below zero or gained beyond the width.
THEOREM PoolTypes == PoolSpec => []PoolTypeOK
  <1>1. TypeOK /\ StreamsInv => PoolTypeOK
    BY DEF StreamsInv, PoolShape, StreamType, PoolTypeOK
  <1> QED
    BY <1>1, StreamsInvariant, PoolDrivesScheduler, TypeCorrect, PTL

\* The count a map_stream ends on, kept on the event loop, agrees with what the
\* worker threads hold of it, for any number of streams and threads.
THEOREM CountsAreExact == PoolSpec => []OutstandingExact
  <1>1. StreamsInv => OutstandingExact
    BY DEF StreamsInv, Books, OutstandingExact
  <1> QED
    BY <1>1, StreamsInvariant, PTL

\* The gate of _gated bounds what a map_stream has taken from its source and not yet
\* yielded, for every width.
THEOREM WidthRespected == PoolSpec => []PullsStayWithinWidth
  <1>1. StreamsInv => PullsStayWithinWidth
    <2> SUFFICES ASSUME StreamsInv, NEW s \in MapStream, stream[s].end = "open"
                 PROVE  Cardinality(Owed(s)) + (IF stream[s].carried THEN 1 ELSE 0)
                          + (IF stream[s].pull = "item" THEN 1 ELSE 0) <= Width
      BY DEF PullsStayWithinWidth
    <2> DEFINE a == Cardinality(Owed(s))
               c == IF stream[s].carried THEN 1 ELSE 0
               i == IF stream[s].pull = "item" THEN 1 ELSE 0
               g == stream[s].gate
    <2>1. s \in Stream
      BY StreamAssumption
    <2>2. g + a + c + i <= Width
      BY DEF StreamsInv, Books, One
    <2>3. a \in Nat /\ c \in Nat /\ i \in Nat /\ g \in Nat /\ Width \in Nat
      BY <2>1, BookNumbers, StreamFacts
    <2> HIDE DEF a, c, i, g
    <2>4. a + c + i <= Width
      BY <2>2, <2>3
    <2> QED
      BY <2>4 DEF a, c, i
  <1> QED
    BY <1>1, StreamsInvariant, PTL

\* A map_stream that returns has yielded every completion of its own jobs, and the
\* whole source unless the pool was closed under it.
THEOREM ReturnedMapIsComplete == PoolSpec => []MapStreamComplete
  <1>1. StreamsInv => MapStreamComplete
    BY DEF StreamsInv, Yielded, Mine, MapStreamComplete
  <1> QED
    BY <1>1, StreamsInvariant, PTL

\* A closed pool without streams holds nothing, whichever of the last stream and
\* the closing task finished last.
THEOREM ClosedPoolIsEmpty == PoolSpec => []ClosedPoolHoldsNothing
  <1>1. StreamsInv => ClosedPoolHoldsNothing
    BY DEF StreamsInv
  <1> QED
    BY <1>1, StreamsInvariant, PTL

\* No wakeup of a stream is lost between the claim, the admission, the wait and the
\* callbacks the other threads post.
THEOREM WakeupsAreNotLost == PoolSpec => []NoStreamAsleep
  <1>1. StreamsInv => NoStreamAsleep
    BY DEF StreamsInv, Informed, NoStreamAsleep
  <1> QED
    BY <1>1, StreamsInvariant, PTL
=============================================================================
