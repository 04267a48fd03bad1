------------------------- MODULE SchedulerRefinement -------------------------
(***************************************************************************)
(* Scheduler implements JobService: the history of the tickets is the stage *)
(* of the jobs, a closed intake is a service that is no longer open.        *)
(***************************************************************************)
EXTENDS SchedulerProofs

\* The jobs the service holds are the tickets that occupy the scheduler.
LEMMA HeldIsOccupying ==
  /\ Service!Held = Occupying
  /\ \A f : Service!In(f) = Having(f)
  BY DEF Service!Held, Service!In, Occupying, Having

\* Moving jobs to a stage is the change of history of the scheduler.
LEMMA MoveIsBecomes ==
  ASSUME NEW S, NEW f, fate' = Becomes(S, f)
  PROVE  Service!Move(S, f)
  BY DEF Service!Move, Becomes

\* Cardinality means the same on both sides of the instance.
LEMMA SameCardinality == \A S : Service!Cardinality(S) = Cardinality(S)
  BY DEF Service!Cardinality, Cardinality

\* Init maps to the initial state of the service.
LEMMA RefineInit == Init => Service!ServiceInit
  BY DEF Init, Service!ServiceInit

\* What a driver does is a step of the service or invisible to it.
LEMMA RefineDriver ==
  ASSUME IndInv, DriverStep
  PROVE  [Service!ServiceNext]_(Service!abstractVars)
  <1>0. /\ Structure /\ ShapeOK /\ Links /\ QueueSizes /\ Accounting
        /\ fate \in [Ticket -> Fate]
        /\ Len(pending) + running <= workers
        /\ intake_closed \in BOOLEAN /\ broken \in BOOLEAN
    BY DEF IndInv, Structure, Counters, ShapeOK, EveryJobHasAThread
  <1>a. running \in Nat
    BY <1>0, QueuedAndRunningFit
  <1>b. ASSUME UNCHANGED <<fate, intake_closed, broken>>
        PROVE  [Service!ServiceNext]_(Service!abstractVars)
    BY <1>b DEF Service!abstractVars
  <1>1. ASSUME NEW o \in Owner, Admit(o) PROVE \E j \in Ticket : Service!Accept(j)
    <2>1. next_ticket \in Ticket /\ fate[next_ticket] = "new"
      BY <1>0, <1>1, FreshTicket DEF Admit, Admission
    <2>2. /\ ~intake_closed /\ residents < Capacity
          /\ UNCHANGED <<intake_closed, broken>>
          /\ fate' = Becomes({next_ticket}, "pending")
      BY <1>1 DEF Admit, Admission, CanAdmit, flags
    <2>3. Service!Move({next_ticket}, "pending")
      BY <2>2, MoveIsBecomes
    <2>4. Service!Cardinality(Service!Held) < Capacity
      BY <2>2, <1>0, HeldIsOccupying, SameCardinality DEF Accounting
    <2>5. Service!Accept(next_ticket)
      BY <2>1, <2>2, <2>3, <2>4 DEF Service!Accept
    <2> QED
      BY <2>1, <2>5
  <1>2. ASSUME NEW o \in Owner, AdmitStartFails(o) PROVE \E j \in Ticket : Service!Fail(j)
    <2>1. next_ticket \in Ticket /\ fate[next_ticket] = "new"
      BY <1>0, <1>2, FreshTicket DEF AdmitStartFails, Admission
    <2>2. /\ ~intake_closed /\ residents < Capacity
          /\ intake_closed' = TRUE /\ broken' = TRUE
          /\ fate' = Becomes({} \cup Range(Append(pending, next_ticket)), "dropped")
      BY <1>2 DEF AdmitStartFails, Admission, CanAdmit, Break
    <2>3. Range(Append(pending, next_ticket)) = Having("pending") \cup {next_ticket}
      BY <2>1, <1>0, AppendRange DEF ShapeOK, Links, PendingLink
    <2>4. fate' = Becomes({next_ticket} \cup Service!In("pending"), "dropped")
      BY <2>2, <2>3, HeldIsOccupying DEF Becomes
    <2>5. Service!Move({next_ticket} \cup Service!In("pending"), "dropped")
      BY <2>4, MoveIsBecomes
    <2>6. Service!Cardinality(Service!Held) < Capacity
      BY <2>2, <1>0, HeldIsOccupying, SameCardinality DEF Accounting
    <2>7. Service!Fail(next_ticket)
      BY <2>1, <2>2, <2>5, <2>6 DEF Service!Fail
    <2> QED
      BY <2>1, <2>7
  <1>3. ASSUME NEW o \in Owner, TakeReady(o) PROVE \E j \in Ticket : Service!Claim(j)
    <2>1. /\ ready[o] \in Seq(Ticket) /\ ready[o] # <<>>
          /\ Range(ready[o]) = ReadyFor(o)
      BY <1>0, <1>3 DEF ShapeOK, Links, ReadyLink, TakeReady
    <2>2. Head(ready[o]) = ready[o][1] /\ 1 \in DOMAIN ready[o]
      BY <2>1
    <2>3. Head(ready[o]) \in Ticket /\ fate[Head(ready[o])] = "ready"
      BY <2>1, <2>2 DEF Range, ReadyFor
    <2>4. /\ UNCHANGED <<intake_closed, broken>>
          /\ fate' = Becomes({Head(ready[o])}, "delivered")
      BY <1>3 DEF TakeReady, flags
    <2>5. Service!Move({Head(ready[o])}, "delivered")
      BY <2>4, MoveIsBecomes
    <2> QED
      BY <2>3, <2>4, <2>5 DEF Service!Claim
  <1>4. ASSUME NEW o \in Owner, ReleaseOwned(o)
        PROVE  \E S \in SUBSET Service!In("ready") : Service!Release(S)
    <2>1. /\ fate' = Becomes(Range(ready[o]), "released")
          /\ UNCHANGED <<intake_closed, broken>>
      BY <1>4 DEF ReleaseOwned, flags
    <2>2. Range(ready[o]) \subseteq Service!In("ready")
      BY <1>0, HeldIsOccupying DEF Links, ReadyLink, ReadyFor, Having
    <2>3. Service!Move(Range(ready[o]), "released")
      BY <2>1, MoveIsBecomes
    <2> QED
      BY <2>1, <2>2, <2>3 DEF Service!Release
  <1>5. ASSUME intake_closed' = TRUE, UNCHANGED <<fate, broken>> PROVE Service!Stop
    BY <1>5 DEF Service!Stop
  <1>6. ASSUME Joined, UNCHANGED <<intake_closed, broken>>,
               fate' = Becomes(Having("ready") \cup Having("dropped"), "released")
        PROVE  Service!Empty
    <2>1. intake_closed /\ Having("pending") = {} /\ Having("running") = {}
      BY <1>0, <1>a, <1>6, JoinedIsIdle DEF Joined
    <2>2. Service!Held = Having("ready") \cup Having("dropped")
      BY <2>1, HeldIsOccupying DEF Occupying, Having
    <2>3. Service!Move(Service!Held, "released")
      BY <1>6, <2>2, MoveIsBecomes
    <2> QED
      BY <1>6, <2>1, <2>3, HeldIsOccupying DEF Service!Empty
  <1>7. ASSUME NEW c \in Caller, NEW keep \in BOOLEAN, ShutdownEnd(c, keep)
        PROVE  [Service!ServiceNext]_(Service!abstractVars)
    <2>1. Joined /\ UNCHANGED <<intake_closed, broken>>
      BY <1>7 DEF ShutdownEnd, flags
    <2>2. pending = <<>>
      BY <2>1, <1>0, <1>a, JoinedIsIdle
    <2>3. Range(pending) = {}
      BY <2>2, EmptyRange
    <2>4. CASE keep
      <3>1. fate' = fate
        BY <2>3, <2>4, <1>0, <1>7 DEF ShutdownEnd
      <3> QED
        BY <3>1, <2>1, <1>b
    <2>5. CASE ~keep
      <3>1. fate' = Becomes(Having("ready") \cup Having("dropped"), "released")
        BY <2>3, <2>5, <1>0, <1>7 DEF ShutdownEnd, Becomes, Having
      <3> QED
        BY <3>1, <2>1, <1>6 DEF Service!ServiceNext
    <2> QED
      BY <2>4, <2>5
  <1>8. ASSUME DiscardCompletions PROVE Service!Empty
    BY <1>6, <1>8 DEF DiscardCompletions, flags
  <1>9. ASSUME Service!ServiceNext PROVE [Service!ServiceNext]_(Service!abstractVars)
    BY <1>9
  <1>10. ASSUME NEW o \in Owner, Admit(o) \/ AdmitStartFails(o) \/ TakeReady(o)
                                 \/ ReleaseOwned(o)
         PROVE  Service!ServiceNext
    BY <1>1, <1>2, <1>3, <1>4, <1>10 DEF Service!ServiceNext
  <1>11. ASSUME CloseIntake \/ DiscardCompletions \/ \E c \in Caller : ShutdownBegin(c)
         PROVE  Service!ServiceNext
    BY <1>5, <1>8, <1>11 DEF Service!ServiceNext, CloseIntake, ShutdownBegin
  <1>12. ASSUME \/ CancelAll \/ Expire
                \/ \E c \in Caller : \/ TakeCompletionBlocks(c) \/ TakeCompletionEnds(c)
                                     \/ WaitForQuiescence(c)
         PROVE  UNCHANGED <<fate, intake_closed, broken>>
    BY <1>12 DEF CancelAll, Expire, TakeCompletionBlocks, TakeCompletionEnds,
                 WaitForQuiescence, BlockIn, Returns, flags
  <1> QED
    BY <1>b, <1>7, <1>9, <1>10, <1>11, <1>12
       DEF DriverStep, TakeCompletionNowait, TakeCompletion

\* What a worker thread does is a step of the service or invisible to it.
LEMMA RefineWorker ==
  ASSUME IndInv, NEW w \in Worker, WorkerStep(w)
  PROVE  [Service!ServiceNext]_(Service!abstractVars)
  <1>0. Structure /\ ShapeOK /\ Links /\ pending \in Seq(Ticket)
    BY DEF IndInv, Structure, ShapeOK
  <1>1. ASSUME TakeAdmitted(w) PROVE \E j \in Ticket : Service!Start(j)
    <2> DEFINE h == Head(pending)
    <2>1. /\ pending # <<>> /\ UNCHANGED <<intake_closed, broken>>
          /\ fate' = Becomes({h}, "running")
      BY <1>1 DEF TakeAdmitted, flags
    <2>2. h = pending[1] /\ 1 \in DOMAIN pending /\ Len(pending) \in Nat
          /\ DOMAIN pending = 1 .. Len(pending)
      BY <2>1, <1>0
    <2>3. h \in Having("pending") /\ h \in Ticket
      BY <2>2, <1>0 DEF Links, PendingLink, Range, Having
    <2>4. \A i \in Service!In("pending") : h <= i
      <3> SUFFICES ASSUME NEW i \in Having("pending") PROVE h <= i
        BY HeldIsOccupying
      <3>1. PICK k \in 1 .. Len(pending) : i = pending[k]
        BY <2>2, <1>0 DEF Links, PendingLink, Range
      <3>2. h \in Nat /\ i \in Nat
        BY <2>3, TicketType DEF Having
      <3>3. k = 1 \/ pending[1] < pending[k]
        BY <2>2, <1>0 DEF Links, PendingLink
      <3> QED
        BY <3>1, <3>2, <3>3, <2>2
    <2>5. Service!Move({h}, "running")
      BY <2>1, MoveIsBecomes
    <2>6. fate[h] = "pending"
      BY <2>3 DEF Having
    <2> QED
      BY <2>1, <2>3, <2>4, <2>5, <2>6 DEF Service!Start
  <1>2. ASSUME FinishCompletes(w) PROVE \E j \in Ticket : Service!Complete(j)
    <2>1. /\ Finish(w) /\ UNCHANGED <<intake_closed, broken>>
          /\ fate' = Becomes({job[w]}, "ready")
      BY <1>2 DEF FinishCompletes, flags
    <2>2. job[w] \in Ticket /\ fate[job[w]] = "running"
      BY <2>1, <1>0, FinishFreesJob DEF Having
    <2>3. Service!Move({job[w]}, "ready")
      BY <2>1, MoveIsBecomes
    <2> QED
      BY <2>1, <2>2, <2>3 DEF Service!Complete
  <1>3. ASSUME FinishBreaks(w) PROVE \E j \in Ticket : Service!Fail(j)
    <2>1. /\ Finish(w) /\ intake_closed' = TRUE /\ broken' = TRUE
          /\ fate' = Becomes({job[w]} \cup Range(pending), "dropped")
      BY <1>3 DEF FinishBreaks, Break
    <2>2. job[w] \in Ticket /\ fate[job[w]] = "running"
      BY <2>1, <1>0, FinishFreesJob DEF Having
    <2>3. Range(pending) = Service!In("pending")
      BY <1>0, HeldIsOccupying DEF Links, PendingLink
    <2>4. Service!Move({job[w]} \cup Service!In("pending"), "dropped")
      BY <2>1, <2>3, MoveIsBecomes
    <2> QED
      BY <2>1, <2>2, <2>4 DEF Service!Fail
  <1>4. ASSUME TakeAdmittedBlocks(w) \/ WorkerExits(w)
        PROVE  UNCHANGED <<fate, intake_closed, broken>>
    BY <1>4 DEF TakeAdmittedBlocks, WorkerExits, flags
  <1>5. ASSUME UNCHANGED <<fate, intake_closed, broken>>
        PROVE  UNCHANGED Service!abstractVars
    BY <1>5 DEF Service!abstractVars
  <1> QED
    BY <1>1, <1>2, <1>3, <1>4, <1>5 DEF WorkerStep, Service!ServiceNext

\* Every behaviour of the scheduler is a behaviour of the job service: at most
\* Capacity jobs are held, jobs start in order, none is dropped unless the
\* machinery failed, and shutdown never empties a queue with jobs in it.
THEOREM Refinement == Spec => ImplementsService
  <1>1. IndInv /\ [Next]_vars => [Service!ServiceNext]_(Service!abstractVars)
    <2> SUFFICES ASSUME IndInv, [Next]_vars
                 PROVE  [Service!ServiceNext]_(Service!abstractVars)
      OBVIOUS
    <2>1. CASE UNCHANGED vars
      BY <2>1 DEF vars, Service!abstractVars
    <2> QED
      BY <2>1, RefineDriver, RefineWorker DEF Next
  <1> QED
    BY <1>1, RefineInit, SchedulerInvariant, PTL
       DEF Spec, ImplementsService, Service!ServiceSpec
=============================================================================
