------------------------------ MODULE BatchRun ------------------------------
(***************************************************************************)
(* run_batch of scheduling/scheduler.py: the generator that drives a        *)
(* private ExecutionScheduler through a finite batch, and the thread that   *)
(* expires the batch at its wall-time deadline.                             *)
(*                                                                          *)
(* Four parties interleave: the driver (the body of the generator, in the   *)
(* consumer's thread), the consumer (who resumes the generator, closes it   *)
(* early or never comes back), the scheduler's worker threads and the       *)
(* deadline watcher.  Between two calls of the scheduler the driver holds   *)
(* no lock, so each call is a step of its own.  A ticket is the position of *)
(* its job in the source, because only the driver admits.                   *)
(***************************************************************************)
EXTENDS Scheduler

CONSTANTS SourceJobs,  \* length of the source
          Endless,     \* jobs that end only when they are cancelled
          Driver       \* the thread of the generator

ASSUME SourceAssumption == SourceJobs \in 0 .. MaxJobs
ASSUME DriverAssumption == Caller = {Driver}

VARIABLES
  pc,         \* where the generator stands
  exhausted,
  outcome,    \* how the generator's loop ended
  wall_time,  \* was a finite wall_time given
  disarm,     \* the Event that disarms the watcher
  watcher     \* where the watcher thread stands

driverVars == <<pc, exhausted, outcome, wall_time, disarm, watcher>>
batchVars == <<vars, driverVars>>

\* The scheduler's types, and where the generator and the watcher can stand.
BatchTypeOK ==
  /\ TypeOK
  /\ pc \in {"admitting", "pulled", "checking", "taking", "yielded", "closing",
             "quiescing", "disarming", "stopping", "joining", "done"}
  /\ exhausted \in BOOLEAN
  /\ outcome \in {"open", "returned", "raised", "closed"}
  /\ wall_time \in BOOLEAN
  /\ disarm \in BOOLEAN
  /\ watcher \in {"none", "waiting", "checking", "expiring", "done"}

BatchInit ==
  /\ Init
  /\ pc = "admitting"
  /\ exhausted = FALSE
  /\ outcome = "open"
  /\ wall_time \in BOOLEAN
  /\ disarm = FALSE
  /\ watcher = IF wall_time THEN "waiting" ELSE "none"

-----------------------------------------------------------------------------
(* The driver.                                                              *)

Goto(here, there) == pc = here /\ pc' = there

Leave(here, how) ==
  /\ Goto(here, "closing")
  /\ outcome' = how
  /\ UNCHANGED <<exhausted, wall_time, disarm, watcher>>

\* The inner loop asks can_admit and then pulls the source, both outside any
\* critical section of the admission that follows.
PullJob ==
  /\ Goto("admitting", "pulled")
  /\ ~exhausted /\ CanAdmit
  /\ next_ticket < SourceJobs
  /\ UNCHANGED <<vars, exhausted, outcome, wall_time, disarm, watcher>>

PullNothing ==
  /\ Goto("admitting", "checking")
  /\ ~exhausted /\ CanAdmit
  /\ next_ticket = SourceJobs
  /\ exhausted' = TRUE
  /\ UNCHANGED <<vars, outcome, wall_time, disarm, watcher>>

\* The source iterator raises: the exception leaves the loop.
SourceRaises ==
  /\ ~exhausted /\ CanAdmit
  /\ Leave("admitting", "raised")
  /\ UNCHANGED vars

StopAdmitting ==
  /\ Goto("admitting", "checking")
  /\ exhausted \/ ~CanAdmit
  /\ UNCHANGED <<vars, exhausted, outcome, wall_time, disarm, watcher>>

\* admit.  NO_ROOM cannot come back here (RoomForPulledJob), so the job the
\* code would carry over is never there.
AdmitJob ==
  /\ Goto("pulled", "admitting")
  /\ Admit(Plain)
  /\ UNCHANGED <<exhausted, outcome, wall_time, disarm, watcher>>

AdmitRefused ==
  /\ Goto("pulled", "checking")
  /\ \/ AdmitStartFails(Plain)
     \/ intake_closed /\ UNCHANGED vars
  /\ exhausted' = TRUE
  /\ UNCHANGED <<outcome, wall_time, disarm, watcher>>

\* Faulty variant: returns as soon as no job is queued or running.
NothingUnfinished == exhausted /\ Quiescent

NothingLeft == exhausted /\ residents = 0

CheckReturns ==
  /\ NothingLeft
  /\ Leave("checking", "returned")
  /\ UNCHANGED vars

CheckGoesOn ==
  /\ ~NothingLeft
  /\ Goto("checking", "taking")
  /\ UNCHANGED <<vars, exhausted, outcome, wall_time, disarm, watcher>>

TakeWaits ==
  /\ pc = "taking"
  /\ TakeCompletionBlocks(Driver)
  /\ UNCHANGED driverVars

TakeYields ==
  /\ Goto("taking", "yielded")
  /\ TakeCompletion(Driver)
  /\ UNCHANGED <<exhausted, outcome, wall_time, disarm, watcher>>

\* take_completion raises SchedulerBroken, or returns None and the loop ends.
TakeEnds ==
  /\ TakeCompletionEnds(Driver)
  /\ Leave("taking", IF broken THEN "raised" ELSE "returned")

\* The consumer asks for the next completion ...
Resume ==
  /\ Goto("yielded", "admitting")
  /\ UNCHANGED <<vars, exhausted, outcome, wall_time, disarm, watcher>>

\* ... or closes the generator: GeneratorExit is raised at the yield.
CloseEarly ==
  /\ Leave("yielded", "closed")
  /\ UNCHANGED vars

\* Faulty variant: the watcher is disarmed before the drain.
FinallyDisarmFirst ==
  /\ Goto("closing", "quiescing")
  /\ CloseIntake
  /\ disarm' = TRUE
  /\ UNCHANGED <<exhausted, outcome, wall_time, watcher>>

\* The finally clause, in the order of its four statements.
FinallyCloseIntake ==
  /\ Goto("closing", "quiescing")
  /\ CloseIntake
  /\ UNCHANGED <<exhausted, outcome, wall_time, disarm, watcher>>

FinallyQuiesce ==
  /\ pc = "quiescing"
  /\ WaitForQuiescence(Driver)
  /\ pc' = IF Quiescent THEN "disarming" ELSE "quiescing"
  /\ UNCHANGED <<exhausted, outcome, wall_time, disarm, watcher>>

FinallyDisarm ==
  /\ Goto("disarming", "stopping")
  /\ disarm' = TRUE
  /\ UNCHANGED <<vars, exhausted, outcome, wall_time, watcher>>

FinallyShutdown ==
  /\ Goto("stopping", "joining")
  /\ ShutdownBegin(Driver)
  /\ UNCHANGED <<exhausted, outcome, wall_time, disarm, watcher>>

FinallyJoined ==
  /\ Goto("joining", "done")
  /\ ShutdownEnd(Driver, FALSE)
  /\ UNCHANGED <<exhausted, outcome, wall_time, disarm, watcher>>

-----------------------------------------------------------------------------
(* The watcher thread: wait for the deadline or the disarming, look at the  *)
(* event once more, then expire the scheduler.                              *)

WatcherTimesOut ==
  /\ watcher = "waiting"
  /\ watcher' = "checking"
  /\ UNCHANGED <<vars, pc, exhausted, outcome, wall_time, disarm>>

WatcherDisarmed ==
  /\ watcher \in {"waiting", "checking"}
  /\ disarm
  /\ watcher' = "done"
  /\ UNCHANGED <<vars, pc, exhausted, outcome, wall_time, disarm>>

WatcherGoesOn ==
  /\ watcher = "checking"
  /\ ~disarm
  /\ watcher' = "expiring"
  /\ UNCHANGED <<vars, pc, exhausted, outcome, wall_time, disarm>>

WatcherExpires ==
  /\ watcher = "expiring"
  /\ Expire
  /\ watcher' = "done"
  /\ UNCHANGED <<pc, exhausted, outcome, wall_time, disarm>>

-----------------------------------------------------------------------------
LoopStep ==
  \/ PullJob \/ PullNothing \/ StopAdmitting \/ AdmitJob \/ AdmitRefused
  \/ CheckReturns \/ CheckGoesOn \/ TakeWaits \/ TakeYields \/ TakeEnds

FinallyStep ==
  \/ FinallyCloseIntake \/ FinallyQuiesce \/ FinallyDisarm
  \/ FinallyShutdown \/ FinallyJoined

WatcherStep ==
  WatcherTimesOut \/ WatcherDisarmed \/ WatcherGoesOn \/ WatcherExpires

Working(w) == WorkerStep(w) /\ UNCHANGED driverVars

BatchNext ==
  \/ LoopStep \/ SourceRaises \/ Resume \/ CloseEarly \/ FinallyStep
  \/ WatcherStep
  \/ \E w \in Worker : Working(w)

\* A job ends by itself unless it is endless, and an endless one ends once it
\* is cancelled (the executors' cancel path).  Endless jobs are only put into
\* batches that have a wall time.
Ends(t) == ~wall_time \/ t \notin Endless \/ t \in cancelled

JobEnds(w) == Ends(job[w]) /\ FinishCompletes(w) /\ UNCHANGED driverVars
WorkerAdvances(w) ==
  /\ TakeAdmittedBlocks(w) \/ TakeAdmitted(w) \/ WorkerExits(w)
  /\ UNCHANGED driverVars

\* Threads are scheduled, the timer fires and jobs end as above.  Nothing is
\* assumed of the consumer: it may never resume or close the generator.
Fairness ==
  /\ WF_batchVars(LoopStep)
  /\ WF_batchVars(FinallyStep)
  /\ WF_batchVars(WatcherStep)
  /\ \A w \in Worker : WF_batchVars(WorkerAdvances(w)) /\ WF_batchVars(JobEnds(w))

BatchSpec == BatchInit /\ [][BatchNext]_batchVars /\ Fairness

-----------------------------------------------------------------------------
(* Properties.                                                              *)

\* A batch whose generator ran to its end without an error yielded the
\* completion of every job of its source, whatever broke or expired meanwhile.
NoSilentLoss ==
  outcome = "returned" =>
    \A t \in 0 .. SourceJobs - 1 : fate[t] = "delivered"

\* The room can_admit reported is still there when admit is reached, so the
\* NO_ROOM branch of run_batch is dead.
RoomForPulledJob == pc = "pulled" => residents < Capacity

\* Whoever waits for the batch gets the next completion or the end of it.
EveryRequestAnswered ==
  pc \in {"admitting", "pulled", "checking", "taking"} ~> pc \in {"yielded", "done"}

\* Leaving the loop (end, error or early close) drains and ends, even with
\* endless jobs in flight: the watcher stays armed through the drain.
ClosingTerminates == pc = "closing" ~> pc = "done"

=============================================================================
