--------------------------- MODULE BatchRunProofs ---------------------------
(***************************************************************************)
(* Safety of run_batch for every capacity and every length of the source,   *)
(* on top of the invariant of the scheduler it drives.                      *)
(***************************************************************************)
EXTENDS BatchRun, SchedulerProofs

-----------------------------------------------------------------------------
(* The inductive invariant.                                                 *)

\* Nothing is released or lost before shutdown has joined the threads, and until
\* then a break leaves a trace that keeps residents above zero: a dropped job.
Histories ==
  /\ pc # "done" => /\ \A t \in Ticket : fate[t] \notin {"released", "lost"}
                    /\ broken => \E t \in Ticket : fate[t] = "dropped"
  /\ (\E t \in Ticket : fate[t] = "dropped") => broken

\* Inside the loop only a break closes the intake.
IntakeOpen ==
  pc \in {"admitting", "pulled", "checking", "taking", "yielded", "closing"} =>
    (intake_closed => broken)

\* The source is given up only when it has ended or the scheduler broke.
Exhaustion ==
  /\ exhausted => broken \/ next_ticket = SourceJobs
  /\ pc = "pulled" => ~exhausted

\* Why the driver stopped admitting, and that there is something to wait for when
\* it calls take_completion.
Demand ==
  /\ pc = "checking" => exhausted \/ broken \/ residents >= Capacity
  /\ pc = "taking" => residents > 0

BatchInv ==
  IndInv /\ Histories /\ IntakeOpen /\ Exhaustion /\ Demand /\ RoomForPulledJob /\ NoSilentLoss

-----------------------------------------------------------------------------
(* The batch is a driver of the scheduler.                                  *)

\* Whatever the generator, its consumer and the watcher do, the scheduler sees one of
\* its own steps or none.
LEMMA SchedulerSteps == [BatchNext]_batchVars => [Next]_vars
  <1> SUFFICES ASSUME [BatchNext]_batchVars PROVE [Next]_vars
    OBVIOUS
  <1>1. Driver \in Caller /\ Plain \in Owner
    BY DriverAssumption, OwnerAssumption
  <1>2. CASE LoopStep
    <2>1. CASE AdmitJob
      BY <1>1, <2>1 DEF AdmitJob, Next, DriverStep
    <2>2. CASE AdmitRefused
      BY <1>1, <2>2 DEF AdmitRefused, Next, DriverStep
    <2>3. CASE TakeWaits \/ TakeYields \/ TakeEnds
      BY <1>1, <2>3 DEF TakeWaits, TakeYields, TakeEnds, Next, DriverStep
    <2>4. CASE PullJob \/ PullNothing \/ StopAdmitting \/ CheckReturns \/ CheckGoesOn
      BY <2>4 DEF PullJob, PullNothing, StopAdmitting, CheckReturns, CheckGoesOn
    <2> QED
      BY <1>2, <2>1, <2>2, <2>3, <2>4 DEF LoopStep
  <1>3. CASE FinallyStep
    <2>1. CASE FinallyCloseIntake \/ FinallyQuiesce \/ FinallyShutdown
      BY <1>1, <2>1 DEF FinallyCloseIntake, FinallyQuiesce, FinallyShutdown, Next, DriverStep
    <2>2. CASE FinallyDisarm
      BY <2>2 DEF FinallyDisarm
    <2>3. CASE FinallyJoined
      BY <1>1, <2>3 DEF FinallyJoined, Next, DriverStep
    <2> QED
      BY <1>3, <2>1, <2>2, <2>3 DEF FinallyStep
  <1>4. CASE SourceRaises \/ Resume \/ CloseEarly
    BY <1>4 DEF SourceRaises, Resume, CloseEarly
  <1>5. CASE WatcherStep
    BY <1>5 DEF WatcherStep, WatcherTimesOut, WatcherDisarmed, WatcherGoesOn, WatcherExpires,
          Next, DriverStep
  <1>6. CASE \E w \in Worker : Working(w)
    BY <1>6 DEF Working, Next
  <1>7. CASE UNCHANGED batchVars
    BY <1>7 DEF batchVars
  <1> QED
    BY <1>2, <1>3, <1>4, <1>5, <1>6, <1>7 DEF BatchNext

-----------------------------------------------------------------------------
(* What steps do to the histories.                                          *)

\* A step that hides nothing: what was delivered or dropped stays so, nothing is
\* released or lost, and jobs are dropped exactly by a break.
Honest ==
  /\ \A t \in Ticket : /\ fate[t] \in {"delivered", "dropped"} => fate'[t] = fate[t]
                       /\ fate'[t] \in {"released", "lost"} => fate'[t] = fate[t]
                       /\ fate'[t] = "dropped" => fate[t] = "dropped" \/ broken'
  /\ broken => broken'
  /\ broken' => broken \/ \E t \in Ticket : fate'[t] = "dropped"

\* Tickets in S, none of which had ended, move on.
LEMMA HonestMove ==
  ASSUME fate \in [Ticket -> Fate], UNCHANGED broken,
         NEW S \in SUBSET Ticket, NEW f \in {"pending", "running", "ready", "delivered"},
         \A t \in S : fate[t] \notin {"delivered", "dropped"}, fate' = Becomes(S, f)
  PROVE  Honest
  BY DEF Becomes, Honest

\* A break drops tickets that had not ended, and at least one.
LEMMA HonestBreak ==
  ASSUME fate \in [Ticket -> Fate], broken' = TRUE, NEW S \in SUBSET Ticket, S # {},
         \A t \in S : fate[t] \notin {"delivered", "dropped"}, fate' = Becomes(S, "dropped")
  PROVE  Honest
  <1>1. PICK t \in S : t \in Ticket
    OBVIOUS
  <1>2. fate'[t] = "dropped"
    BY <1>1 DEF Becomes
  <1>3. \A u \in Ticket : /\ fate[u] \in {"delivered", "dropped"} => fate'[u] = fate[u]
                          /\ fate'[u] \in {"released", "lost"} => fate'[u] = fate[u]
    BY DEF Becomes
  <1> QED
    BY <1>1, <1>2, <1>3 DEF Honest

\* No job moves.
LEMMA HonestQuiet ==
  ASSUME UNCHANGED <<fate, broken>>
  PROVE  Honest
  BY DEF Honest

\* What the proofs below use of the invariant of the scheduler.
LEMMA Facts ==
  ASSUME IndInv
  PROVE  /\ Structure /\ ShapeOK /\ Links /\ Accounting /\ QueueSizes
         /\ fate \in [Ticket -> Fate] /\ owner \in [Ticket -> Owner]
         /\ residents \in Nat /\ running \in Nat /\ next_ticket \in Nat
         /\ Len(pending) + running <= workers
  BY QueuedAndRunningFit, MaxJobsAssumption
     DEF IndInv, Structure, Counters, ShapeOK, EveryJobHasAThread

\* admit, with or without a break.
LEMMA HonestAdmission ==
  ASSUME IndInv, Admit(Plain) \/ AdmitStartFails(Plain)
  PROVE  Honest
  <1>1. next_ticket \in Ticket /\ fate[next_ticket] = "new"
    BY Facts, FreshTicket DEF Admit, AdmitStartFails, Admission
  <1>2. CASE Admit(Plain)
    BY <1>1, <1>2, Facts, HonestMove DEF Admit, flags
  <1>3. CASE AdmitStartFails(Plain)
    <2>1. /\ pending \in Seq(Ticket) /\ Range(pending) = Having("pending")
          /\ Range(Append(pending, next_ticket)) = Range(pending) \cup {next_ticket}
      BY <1>1, Facts, AppendRange DEF ShapeOK, Links, PendingLink
    <2>2. /\ broken' = TRUE
          /\ fate' = Becomes({} \cup Range(Append(pending, next_ticket)), "dropped")
      BY <1>3 DEF AdmitStartFails, Break
    <2>3. fate' = Becomes(Having("pending") \cup {next_ticket}, "dropped")
      BY <2>1, <2>2 DEF Becomes
    <2>4. /\ Having("pending") \cup {next_ticket} \in SUBSET Ticket
          /\ Having("pending") \cup {next_ticket} # {}
          /\ \A t \in Having("pending") \cup {next_ticket} : fate[t] \notin {"delivered", "dropped"}
      BY <1>1 DEF Having
    <2> QED
      BY <2>2, <2>3, <2>4, Facts, HonestBreak
  <1> QED
    BY <1>2, <1>3

\* A completion is handed out.
LEMMA HonestTake ==
  ASSUME IndInv, NEW o \in Owner, TakeReady(o)
  PROVE  Honest
  <1>1. /\ ready[o] \in Seq(Ticket) /\ ready[o] # <<>> /\ Range(ready[o]) = ReadyFor(o)
        /\ \A i, j \in 1 .. Len(ready[o]) : i # j => ready[o][i] # ready[o][j]
    BY Facts DEF ShapeOK, Links, ReadyLink, TakeReady
  <1>2. Head(ready[o]) \in ReadyFor(o) /\ Head(ready[o]) \in Ticket
    BY <1>1, TailRange
  <1>3. fate' = Becomes({Head(ready[o])}, "delivered") /\ UNCHANGED broken
    BY DEF TakeReady, flags
  <1> QED
    BY <1>2, <1>3, Facts, HonestMove DEF ReadyFor

\* The threads.
LEMMA HonestWorker ==
  ASSUME IndInv, NEW w \in Worker, WorkerStep(w)
  PROVE  /\ Honest /\ UNCHANGED <<residents, next_ticket>>
         /\ intake_closed' => intake_closed \/ broken'
  <1>1. CASE TakeAdmittedBlocks(w) \/ WorkerExits(w)
    BY <1>1, HonestQuiet DEF TakeAdmittedBlocks, WorkerExits, queues, flags
  <1>2. CASE TakeAdmitted(w)
    <2>1. pending \in Seq(Ticket) /\ pending # <<>> /\ Range(pending) = Having("pending")
      BY <1>2, Facts DEF TakeAdmitted, ShapeOK, Links, PendingLink
    <2>2. Head(pending) = pending[1] /\ 1 \in DOMAIN pending /\ Head(pending) \in Ticket
      BY <2>1
    <2>3. Head(pending) \in Having("pending")
      BY <2>1, <2>2 DEF Range
    <2>4. fate' = Becomes({Head(pending)}, "running") /\ UNCHANGED broken
      BY <1>2 DEF TakeAdmitted, flags
    <2>5. Honest
      BY <2>2, <2>3, <2>4, Facts, HonestMove DEF Having
    <2> QED
      BY <1>2, <2>5 DEF TakeAdmitted, flags
  <1>3. CASE FinishCompletes(w)
    <2>1. job[w] \in Having("running") /\ job[w] \in Ticket
      BY <1>3, Facts, FinishFreesJob DEF FinishCompletes
    <2>2. Honest
      BY <1>3, <2>1, Facts, HonestMove DEF FinishCompletes, Having, flags
    <2> QED
      BY <1>3, <2>2 DEF FinishCompletes, Finish, flags
  <1>4. CASE FinishBreaks(w)
    <2>1. job[w] \in Having("running") /\ job[w] \in Ticket
      BY <1>4, Facts, FinishFreesJob DEF FinishBreaks
    <2>2. Range(pending) = Having("pending")
      BY Facts DEF Links, PendingLink
    <2>3. fate' = Becomes({job[w]} \cup Having("pending"), "dropped") /\ broken' = TRUE
      BY <1>4, <2>2 DEF FinishBreaks, Break
    <2>4. /\ {job[w]} \cup Having("pending") \in SUBSET Ticket
          /\ {job[w]} \cup Having("pending") # {}
          /\ \A t \in {job[w]} \cup Having("pending") : fate[t] \notin {"delivered", "dropped"}
      BY <2>1 DEF Having
    <2>5. Honest
      BY <2>3, <2>4, Facts, HonestBreak
    <2> QED
      BY <1>4, <2>3, <2>5 DEF FinishBreaks, Finish
  <1> QED
    BY <1>1, <1>2, <1>3, <1>4 DEF WorkerStep

-----------------------------------------------------------------------------
(* The end of the loop.                                                     *)

\* The source has ended and nothing is resident: every job was delivered.
LEMMA NothingMissing ==
  ASSUME IndInv, Histories, Exhaustion, pc # "done", NothingLeft
  PROVE  \A t \in 0 .. SourceJobs - 1 : fate[t] = "delivered"
  <1>1. Occupying = {}
    <2>1. Occupying \in SUBSET Ticket /\ Cardinality(Occupying) = 0
      BY Facts, CountedSets DEF Accounting, NothingLeft
    <2>2. IsFiniteSet(Occupying)
      BY <2>1, TicketSets
    <2> QED
      BY <2>1, <2>2, FS_EmptySet
  <1>2. ~broken /\ next_ticket = SourceJobs
    BY <1>1 DEF Occupying, Histories, Exhaustion, NothingLeft
  <1>3. ASSUME NEW t \in 0 .. SourceJobs - 1 PROVE fate[t] = "delivered"
    <2>1. t \in Ticket /\ ~(next_ticket <= t)
      BY <1>2, <1>3, SourceAssumption, MaxJobsAssumption DEF Ticket
    <2>2. fate[t] # "new"
      BY <2>1, Facts DEF Links, TicketLink
    <2>3. fate[t] \in Fate /\ t \notin Occupying
      BY <1>1, <2>1, Facts
    <2> QED
      BY <2>1, <2>2, <2>3 DEF Fate, Occupying, Histories
  <1> QED
    BY <1>3

\* Something is resident, nothing is buffered and nothing runs or waits: the
\* scheduler broke, and take_completion raises.
LEMMA StuckIsBroken ==
  ASSUME IndInv, Histories, residents > 0, Takeable, \A o \in Owner : ready[o] = <<>>
  PROVE  broken
  <1> SUFFICES ASSUME ~broken PROVE FALSE
    OBVIOUS
  <1>1. running = 0 /\ pending = <<>>
    BY DEF Takeable, Quiescent
  <1>2. Having("pending") = {}
    BY <1>1, Facts, EmptyRange DEF Links, PendingLink
  <1>3. Having("running") = {}
    <2>1. Having("running") \in SUBSET Ticket /\ Cardinality(Having("running")) = 0
      BY <1>1, Facts DEF Accounting, Having
    <2>2. IsFiniteSet(Having("running"))
      BY <2>1, TicketSets
    <2> QED
      BY <2>1, <2>2, FS_EmptySet
  <1>4. \A o \in Owner : ReadyFor(o) = {}
    BY Facts, EmptyRange DEF Links, ReadyLink
  <1>5. \A t \in Ticket : fate[t] # "ready"
    BY <1>4, Facts DEF ReadyFor
  <1>6. Occupying = {}
    BY <1>2, <1>3, <1>5 DEF Occupying, Having, Histories
  <1>7. residents = 0
    BY <1>6, Facts, FS_EmptySet DEF Accounting
  <1> QED
    BY <1>7

-----------------------------------------------------------------------------
(* Steps.                                                                   *)

\* Steps that hide nothing keep the histories and what was delivered.
LEMMA HonestKeeps ==
  ASSUME IndInv, Histories, NoSilentLoss, Honest, pc # "done", outcome' = outcome
  PROVE  Histories' /\ NoSilentLoss'
  <1>1. Histories'
    <2>1. \A t \in Ticket : fate'[t] \notin {"released", "lost"}
      BY DEF Honest, Histories
    <2>2. broken' => \E t \in Ticket : fate'[t] = "dropped"
      BY DEF Honest, Histories
    <2>3. (\E t \in Ticket : fate'[t] = "dropped") => broken'
      BY DEF Honest, Histories
    <2> QED
      BY <2>1, <2>2, <2>3 DEF Histories
  <1>2. \A t \in 0 .. SourceJobs - 1 : t \in Ticket
    BY SourceAssumption, MaxJobsAssumption DEF Ticket
  <1>3. NoSilentLoss'
    BY <1>2 DEF Honest, NoSilentLoss
  <1> QED
    BY <1>1, <1>3

\* Threads and watcher, whatever the generator is doing.
LEMMA OthersStep ==
  ASSUME BatchInv, Honest, UNCHANGED <<pc, exhausted, outcome, residents, next_ticket>>,
         intake_closed' => intake_closed \/ broken'
  PROVE  Histories' /\ IntakeOpen' /\ Exhaustion' /\ Demand' /\ RoomForPulledJob' /\ NoSilentLoss'
  <1>1. IntakeOpen' /\ Exhaustion' /\ Demand' /\ RoomForPulledJob'
    BY DEF BatchInv, Honest, IntakeOpen, Exhaustion, Demand, RoomForPulledJob
  <1>2. \A t \in 0 .. SourceJobs - 1 : t \in Ticket
    BY SourceAssumption, MaxJobsAssumption DEF Ticket
  <1>3. NoSilentLoss'
    BY <1>2 DEF BatchInv, Honest, NoSilentLoss
  <1>4. Histories'
    BY DEF BatchInv, Honest, Histories
  <1> QED
    BY <1>1, <1>3, <1>4

\* The generator moves and the scheduler does not.
LEMMA DriverAlone ==
  ASSUME BatchInv, UNCHANGED vars,
         \/ PullJob \/ PullNothing \/ SourceRaises \/ StopAdmitting \/ CheckReturns
         \/ CheckGoesOn \/ Resume \/ CloseEarly \/ FinallyDisarm
  PROVE  Histories' /\ IntakeOpen' /\ Exhaustion' /\ Demand' /\ RoomForPulledJob' /\ NoSilentLoss'
  <1> USE DEF BatchInv
  <1>1. UNCHANGED <<fate, broken, intake_closed, residents, next_ticket>> /\ residents \in Nat
    BY Facts DEF vars
  <1>2. Histories'
    <2>1. pc # "done"
      BY DEF PullJob, PullNothing, SourceRaises, StopAdmitting, CheckReturns, CheckGoesOn,
            Resume, CloseEarly, FinallyDisarm, Goto, Leave
    <2> QED
      BY <1>1, <2>1 DEF Histories
  <1>3. IntakeOpen' /\ Exhaustion' /\ RoomForPulledJob'
    BY <1>1 DEF PullJob, PullNothing, SourceRaises, StopAdmitting, CheckReturns, CheckGoesOn,
          Resume, CloseEarly, FinallyDisarm, Goto, Leave, IntakeOpen, Exhaustion, RoomForPulledJob,
          CanAdmit
  <1>4. Demand'
    <2>1. CASE CheckGoesOn
      <3>1. residents # 0
        <4>1. broken => residents # 0
          <5>1. broken => Occupying # {}
            BY <2>1 DEF CheckGoesOn, Goto, Histories, Occupying
          <5>2. Occupying \in SUBSET Ticket /\ residents = Cardinality(Occupying)
            BY Facts, CountedSets DEF Accounting
          <5>3. IsFiniteSet(Occupying)
            BY <5>2, TicketSets
          <5> QED
            BY <5>1, <5>2, <5>3, FS_EmptySet
        <4> QED
          BY <2>1, <4>1, CapacityAssumption DEF CheckGoesOn, NothingLeft, Goto, Demand
      <3> QED
        BY <1>1, <2>1, <3>1 DEF CheckGoesOn, Goto, Demand
    <2>2. CASE StopAdmitting
      <3>1. exhausted \/ intake_closed \/ residents >= Capacity
        BY <1>1, <2>2, CapacityAssumption DEF StopAdmitting, CanAdmit
      <3> QED
        BY <1>1, <2>2, <3>1 DEF StopAdmitting, Goto, IntakeOpen, Demand
    <2>3. CASE PullNothing
      BY <2>3 DEF PullNothing, Goto, Demand
    <2> QED
      BY <2>1, <2>2, <2>3 DEF PullJob, SourceRaises, CheckReturns, Resume, CloseEarly,
            FinallyDisarm, Goto, Leave, Demand
  <1>5. NoSilentLoss'
    <2>1. CASE CheckReturns
      <3>1. NothingLeft /\ pc # "done"
        BY <2>1 DEF CheckReturns, Leave, Goto
      <3> QED
        BY <1>1, <3>1, NothingMissing DEF NoSilentLoss
    <2>2. CASE ~CheckReturns
      BY <1>1, <2>2 DEF PullJob, PullNothing, SourceRaises, StopAdmitting, CheckGoesOn, Resume,
            CloseEarly, FinallyDisarm, Leave, NoSilentLoss
    <2> QED
      BY <2>1, <2>2
  <1> QED
    BY <1>2, <1>3, <1>4, <1>5

\* admit and take_completion, called from the loop.
LEMMA LoopCalls ==
  ASSUME BatchInv, AdmitJob \/ AdmitRefused \/ TakeWaits \/ TakeYields \/ TakeEnds
  PROVE  Histories' /\ IntakeOpen' /\ Exhaustion' /\ Demand' /\ RoomForPulledJob' /\ NoSilentLoss'
  <1> USE DEF BatchInv
  <1>1. CASE AdmitJob
    <2>1. /\ Honest /\ pc = "pulled" /\ pc' = "admitting" /\ UNCHANGED <<exhausted, outcome>>
          /\ UNCHANGED <<intake_closed, broken>>
      BY <1>1, HonestAdmission DEF AdmitJob, Goto, Admit, flags
    <2>2. Histories' /\ NoSilentLoss'
      BY <2>1, HonestKeeps
    <2> QED
      BY <2>1, <2>2 DEF IntakeOpen, Exhaustion, Demand, RoomForPulledJob
  <1>2. CASE AdmitRefused
    <2>1. pc = "pulled" /\ pc' = "checking" /\ UNCHANGED outcome /\ exhausted' = TRUE
      BY <1>2 DEF AdmitRefused, Goto
    <2>2. CASE AdmitStartFails(Plain)
      <3>1. Honest /\ broken' = TRUE
        BY <2>2, HonestAdmission DEF AdmitStartFails, Break
      <3>2. Histories' /\ NoSilentLoss'
        BY <2>1, <3>1, HonestKeeps
      <3> QED
        BY <2>1, <3>1, <3>2 DEF IntakeOpen, Exhaustion, Demand, RoomForPulledJob
    <2>3. CASE intake_closed /\ UNCHANGED vars
      <3>1. UNCHANGED <<fate, broken, intake_closed>> /\ broken
        BY <2>1, <2>3 DEF vars, IntakeOpen
      <3>2. Histories' /\ NoSilentLoss'
        BY <2>1, <3>1, HonestQuiet, HonestKeeps
      <3> QED
        BY <2>1, <3>1, <3>2 DEF IntakeOpen, Exhaustion, Demand, RoomForPulledJob
    <2> QED
      BY <1>2, <2>2, <2>3 DEF AdmitRefused
  <1>3. CASE TakeWaits
    <2>1. /\ UNCHANGED <<fate, broken, intake_closed, residents, next_ticket>>
          /\ UNCHANGED <<pc, exhausted, outcome>>
      BY <1>3 DEF TakeWaits, TakeCompletionBlocks, BlockIn, driverVars, queues, flags
    <2> QED
      BY <2>1, HonestQuiet, OthersStep
  <1>4. CASE TakeYields
    <2>1. pc = "taking" /\ pc' = "yielded" /\ UNCHANGED <<outcome, exhausted>>
      BY <1>4 DEF TakeYields, Goto
    <2>2. PICK o \in Owner : TakeReady(o)
      BY <1>4 DEF TakeYields, TakeCompletion
    <2>3. UNCHANGED <<intake_closed, broken, next_ticket>>
      BY <2>2 DEF TakeReady, flags
    <2>4. Histories' /\ NoSilentLoss'
      BY <2>1, <2>2, HonestTake, HonestKeeps
    <2> QED
      BY <2>1, <2>3, <2>4 DEF IntakeOpen, Exhaustion, Demand, RoomForPulledJob
  <1>5. CASE TakeEnds
    <2>1. /\ pc = "taking" /\ pc' = "closing" /\ UNCHANGED exhausted
          /\ outcome' = IF broken THEN "raised" ELSE "returned"
          /\ UNCHANGED <<fate, broken, intake_closed, next_ticket>>
          /\ Takeable /\ \A o \in Owner : ready[o] = <<>>
      BY <1>5 DEF TakeEnds, Leave, Goto, TakeCompletionEnds, Returns, flags
    <2>2. broken
      BY <2>1, StuckIsBroken DEF Demand
    <2>3. outcome' # "returned"
      BY <2>1, <2>2
    <2> QED
      BY <2>1, <2>3 DEF Histories, IntakeOpen, Exhaustion, Demand, RoomForPulledJob, NoSilentLoss
  <1> QED
    BY <1>1, <1>2, <1>3, <1>4, <1>5

\* The finally clause.
LEMMA FinallyCalls ==
  ASSUME BatchInv, FinallyCloseIntake \/ FinallyQuiesce \/ FinallyShutdown \/ FinallyJoined
  PROVE  Histories' /\ IntakeOpen' /\ Exhaustion' /\ Demand' /\ RoomForPulledJob' /\ NoSilentLoss'
  <1> USE DEF BatchInv
  <1>1. CASE FinallyCloseIntake \/ FinallyQuiesce \/ FinallyShutdown
    <2>1. /\ pc \in {"closing", "quiescing", "stopping"}
          /\ pc' \in {"quiescing", "disarming", "joining"}
          /\ UNCHANGED <<exhausted, outcome>>
      BY <1>1 DEF FinallyCloseIntake, FinallyQuiesce, FinallyShutdown, Goto
    <2>2. UNCHANGED <<fate, broken, next_ticket>>
      BY <1>1 DEF FinallyCloseIntake, FinallyQuiesce, FinallyShutdown, CloseIntake,
            WaitForQuiescence, Returns, BlockIn, ShutdownBegin, flags
    <2>3. Histories' /\ NoSilentLoss'
      BY <2>1, <2>2, HonestQuiet, HonestKeeps
    <2> QED
      BY <2>1, <2>2, <2>3 DEF IntakeOpen, Exhaustion, Demand, RoomForPulledJob
  <1>2. CASE FinallyJoined
    <2>1. pc = "joining" /\ pc' = "done" /\ UNCHANGED <<exhausted, outcome, broken, next_ticket>>
      BY <1>2 DEF FinallyJoined, Goto, ShutdownEnd, flags
    <2>2. fate' = [t \in Ticket |->
                    IF t \in Range(pending) THEN "lost"
                    ELSE IF fate[t] \in {"ready", "dropped"} THEN "released" ELSE fate[t]]
      BY <1>2 DEF FinallyJoined, ShutdownEnd
    <2>3. Range(pending) = Having("pending")
      BY Facts DEF Links, PendingLink
    <2>4. /\ \A t \in Ticket : fate'[t] # "dropped"
          /\ \A t \in Ticket : fate[t] = "delivered" => fate'[t] = "delivered"
      BY <2>2, <2>3 DEF Having
    <2>5. \A t \in 0 .. SourceJobs - 1 : t \in Ticket
      BY SourceAssumption, MaxJobsAssumption DEF Ticket
    <2> QED
      BY <2>1, <2>4, <2>5 DEF Histories, IntakeOpen, Exhaustion, Demand, RoomForPulledJob, NoSilentLoss
  <1> QED
    BY <1>1, <1>2

\* The initial state: nothing admitted, nothing broken, outcome open.
LEMMA BatchInvInit == BatchInit => BatchInv
  <1> SUFFICES ASSUME BatchInit PROVE BatchInv
    OBVIOUS
  <1>1. IndInv
    BY IndInvInit DEF BatchInit
  <1>2. pc = "admitting" /\ outcome = "open" /\ exhausted = FALSE /\ intake_closed = FALSE
        /\ broken = FALSE /\ \A t \in Ticket : fate[t] = "new"
    BY DEF BatchInit, Init
  <1> QED
    BY <1>1, <1>2 DEF BatchInv, Histories, IntakeOpen, Exhaustion, Demand, RoomForPulledJob, NoSilentLoss

\* Every step of the four parties keeps the invariant.
LEMMA BatchInvStep == BatchInv /\ [BatchNext]_batchVars => BatchInv'
  <1> SUFFICES ASSUME BatchInv, [BatchNext]_batchVars
               PROVE  /\ IndInv'
                      /\ Histories' /\ IntakeOpen' /\ Exhaustion' /\ Demand' /\ RoomForPulledJob'
                      /\ NoSilentLoss'
    BY DEF BatchInv
  <1>1. IndInv'
    BY SchedulerSteps, IndInvStep DEF BatchInv
  <1>2. CASE \/ PullJob \/ PullNothing \/ SourceRaises \/ StopAdmitting \/ CheckReturns
             \/ CheckGoesOn \/ Resume \/ CloseEarly \/ FinallyDisarm
    <2>1. UNCHANGED vars
      BY <1>2 DEF PullJob, PullNothing, SourceRaises, StopAdmitting, CheckReturns, CheckGoesOn,
            Resume, CloseEarly, FinallyDisarm
    <2> QED
      BY <1>1, <1>2, <2>1, DriverAlone
  <1>3. CASE AdmitJob \/ AdmitRefused \/ TakeWaits \/ TakeYields \/ TakeEnds
    BY <1>1, <1>3, LoopCalls
  <1>4. CASE FinallyCloseIntake \/ FinallyQuiesce \/ FinallyShutdown \/ FinallyJoined
    BY <1>1, <1>4, FinallyCalls
  <1>5. CASE WatcherStep \/ UNCHANGED batchVars
    <2>1. /\ UNCHANGED <<pc, exhausted, outcome>>
          /\ UNCHANGED <<fate, broken, intake_closed, residents, next_ticket>>
      BY <1>5 DEF WatcherStep, WatcherTimesOut, WatcherDisarmed, WatcherGoesOn, WatcherExpires,
            Expire, vars, queues, batchVars, driverVars
    <2> QED
      BY <1>1, <2>1, HonestQuiet, OthersStep
  <1>6. CASE \E w \in Worker : Working(w)
    <2>1. PICK w \in Worker : WorkerStep(w) /\ UNCHANGED driverVars
      BY <1>6 DEF Working
    <2>2. UNCHANGED <<pc, exhausted, outcome>>
      BY <2>1 DEF driverVars
    <2>3. Honest /\ UNCHANGED <<residents, next_ticket>> /\ (intake_closed' => intake_closed \/ broken')
      BY <2>1, HonestWorker DEF BatchInv
    <2> QED
      BY <1>1, <2>2, <2>3, OthersStep
  <1> QED
    BY <1>2, <1>3, <1>4, <1>5, <1>6 DEF BatchNext, LoopStep, FinallyStep

-----------------------------------------------------------------------------
\* The inductive invariant of run_batch: the scheduler's, and how the place of the
\* generator, the flag exhausted and the histories of the tickets fit together.
THEOREM BatchInvariant == BatchSpec => []BatchInv
  BY BatchInvInit, BatchInvStep, PTL DEF BatchSpec

\* run_batch is one of the drivers the scheduler was proved correct for: everything
\* SchedulerProofs shows of Scheduler holds of the scheduler of a batch.
THEOREM BatchDrivesScheduler == BatchSpec => Spec
  <1>1. BatchInit => Init
    BY DEF BatchInit
  <1> QED
    BY <1>1, SchedulerSteps, PTL DEF BatchSpec, Spec

\* A generator that returned yielded every job of its source: when the loop ends,
\* residents = 0 rules out a dropped job, and take_completion never answers None to a
\* driver that has something resident unless the scheduler broke, which raises.
THEOREM ReturnedMeansDelivered == BatchSpec => []NoSilentLoss
  <1>1. BatchInv => NoSilentLoss
    BY DEF BatchInv
  <1> QED
    BY <1>1, BatchInvariant, PTL

\* The NO_ROOM answer is out of reach of run_batch, for any capacity: threads and the
\* watcher never take the room can_admit reported.
THEOREM PulledJobHasRoom == BatchSpec => []RoomForPulledJob
  <1>1. BatchInv => RoomForPulledJob
    BY DEF BatchInv
  <1> QED
    BY <1>1, BatchInvariant, PTL
=============================================================================
