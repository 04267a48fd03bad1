---------------------------- MODULE ExecutionPool ----------------------------
(***************************************************************************)
(* ExecutionPool of scheduling/pool.py: streams on one event loop that      *)
(* share a Scheduler, and the closing of the pool.                          *)
(*                                                                          *)
(* All stream code runs on the event loop: a stream that has not reached an *)
(* await keeps the loop, and only the scheduler's worker threads and the    *)
(* thread that closes the pool interleave with it, between two calls of the *)
(* scheduler.  Whoever changes the scheduler posts a callback (posted) that *)
(* sets the wakeup event of every stream once the loop is free.             *)
(*                                                                          *)
(* Init is the pool just entered.  An owner of Scheduler is a map_stream,   *)
(* or Plain for everything submitted through run_stream.                    *)
(***************************************************************************)
EXTENDS Scheduler

CONSTANTS Stream,
          MapStream,   \* the streams opened by map_stream
          SourceJobs,  \* the number of submissions in each stream's source
          Width,       \* concurrency of a map_stream
          Steady,      \* streams whose consumer never leaves early and whose
                       \* source never fails
          Closer,      \* the thread _finish_close offloads to
          Free         \* nobody holds the event loop

ASSUME StreamAssumption ==
  /\ MapStream \subseteq Stream
  /\ Steady \subseteq Stream
  /\ Owner = MapStream \cup {Plain}
  /\ Plain \notin MapStream
  /\ Free \notin Stream
  /\ SourceJobs \in [Stream -> Nat]
  /\ Width \in Nat \ {0}
  /\ Caller = {Closer}

VARIABLES
  state,   \* ExecutionPoolState
  closer,  \* progress of the _finish_close task
  stream,  \* the local variables of each stream
  loop,    \* the stream that holds the event loop
  posted   \* is a _wake_streams callback queued

poolVars == <<state, closer, stream, loop, posted>>
allVars == <<vars, poolVars>>

At == {"unopened", "top", "claiming", "admitting", "settling", "waiting",
       "yielded", "finally", "releasing", "done"}

\* The scheduler's types, the pool's, and no stream holds more permits of its
\* gate than it has or fewer than none.
PoolTypeOK ==
  /\ TypeOK
  /\ state \in {"running", "draining", "closed", "broken"}
  /\ closer \in {"none", "quiescing", "stopping", "joining", "finishing", "done"}
  /\ stream \in [Stream -> [at : At, exhausted : BOOLEAN, carried : BOOLEAN,
                            pull : {"none", "pulling", "item", "end", "error"},
                            outstanding : Int, wakeup : BOOLEAN,
                            left : Nat, gate : 0 .. Width,
                            end : {"open", "returned", "raised", "left"}]]
  /\ loop \in Stream \cup {Free}
  /\ posted \in BOOLEAN

PoolInit ==
  /\ Init
  /\ state = "running"
  /\ closer = "none"
  /\ stream = [s \in Stream |->
                 [at |-> "unopened", exhausted |-> FALSE, carried |-> FALSE,
                  pull |-> "none", outstanding |-> 0, wakeup |-> FALSE,
                  left |-> SourceJobs[s], gate |-> Width, end |-> "open"]]
  /\ loop = Free
  /\ posted = FALSE

-----------------------------------------------------------------------------
(* Helpers.                                                                 *)

OwnerOf(s) == IF s \in MapStream THEN s ELSE Plain

OnLoop(s) == loop \in {s, Free}

\* Streams counted in _active_streams, whose wakeups are registered: those not
\* ended, and those that ended on a failed pull.
Active == {s \in Stream : \/ stream[s].at \notin {"unopened", "releasing", "done"}
                          \/ stream[s].pull = "error"}

\* _wake_streams.
WakeAll(strs) ==
  [s \in Stream |-> [strs[s] EXCEPT !.wakeup = @ \/ s \in Active]]

\* _running_scheduler and the registration of the stream; a pool that is not
\* running refuses it.
OpenStream(s) ==
  /\ stream[s].at = "unopened"
  /\ loop = Free
  /\ stream' = IF state = "running"
               THEN [stream EXCEPT ![s].at = "top"]
               ELSE [stream EXCEPT ![s].at = "done", ![s].end = "raised"]
  /\ UNCHANGED <<vars, state, closer, loop, posted>>

Pulled(s) == stream[s].pull \in {"item", "end", "error"}

\* At the head of the loop, or woken from asyncio.wait.
AtTop(s) ==
  /\ OnLoop(s)
  /\ \/ stream[s].at = "top"
     \/ stream[s].at = "waiting" /\ (stream[s].wakeup \/ Pulled(s))

Stopping == state # "running"

\* The pool is closing or broken: stop submitting and await the cancelled pull.
\* A pull that had already failed raises its error here.
TopCancelsPull(s) ==
  /\ AtTop(s)
  /\ Stopping
  /\ stream[s].pull # "none"
  /\ stream' = IF stream[s].pull = "error"
               THEN [stream EXCEPT ![s].at = "finally", ![s].end = "raised"]
               ELSE [stream EXCEPT ![s].at = "claiming", ![s].pull = "none",
                                   ![s].exhausted = TRUE, ![s].carried = FALSE,
                                   ![s].wakeup = FALSE]
  /\ loop' = Free
  /\ UNCHANGED <<vars, state, closer, posted>>

\* take_completion_nowait is next.  The flags as the head of the loop left
\* them are Exhausted and Carried.
Claiming(s) ==
  \/ OnLoop(s) /\ stream[s].at = "claiming"
  \/ AtTop(s) /\ ~(Stopping /\ stream[s].pull # "none")
Exhausted(s) == stream[s].exhausted \/ Stopping
Carried(s) == stream[s].carried /\ ~Stopping

WantsPull(s, exhausted, carried) ==
  ~exhausted /\ ~carried /\ stream[s].pull = "none"

\* A completion of the stream's own class: yield it, and keep the source busy.
StreamYields(s) ==
  /\ Claiming(s)
  /\ TakeCompletionNowait(OwnerOf(s))
  /\ stream' =
       [stream EXCEPT
         ![s].at = "yielded", ![s].wakeup = FALSE,
         ![s].exhausted = Exhausted(s), ![s].carried = Carried(s),
         ![s].outstanding = @ - 1,
         ![s].gate = IF s \in MapStream THEN @ + 1 ELSE @,
         ![s].pull = IF WantsPull(s, Exhausted(s), Carried(s)) /\ CanAdmit'
                     THEN "pulling" ELSE @]
  /\ loop' = Free
  /\ posted' = TRUE
  /\ UNCHANGED <<state, closer>>

\* SchedulerBroken leaves the loop and marks a running pool broken.
StreamRaises(s) ==
  /\ Claiming(s)
  /\ ready[OwnerOf(s)] = <<>> /\ broken
  /\ stream' = [stream EXCEPT ![s].at = "finally", ![s].end = "raised"]
  /\ state' = IF state = "running" THEN "broken" ELSE state
  /\ loop' = Free
  /\ UNCHANGED <<vars, closer, posted>>

\* Faulty variant: a stream ends as soon as nothing is buffered for it.
NothingBufferedFor(s) == ready[OwnerOf(s)] = <<>>

\* A map_stream ends on its own work, a plain stream on an empty pool.
NothingLeftFor(s) ==
  IF s \in MapStream THEN stream[s].outstanding = 0 ELSE residents = 0

StreamReturns(s) ==
  /\ Claiming(s)
  /\ ready[OwnerOf(s)] = <<>> /\ ~broken
  /\ Exhausted(s) /\ ~Carried(s) /\ NothingLeftFor(s)
  /\ stream' = [stream EXCEPT ![s].at = "finally", ![s].end = "returned"]
  /\ loop' = Free
  /\ UNCHANGED <<vars, state, closer, posted>>

StreamGoesOn(s) ==
  /\ Claiming(s)
  /\ ready[OwnerOf(s)] = <<>> /\ ~broken
  /\ ~(Exhausted(s) /\ ~Carried(s) /\ NothingLeftFor(s))
  /\ stream' =
       [stream EXCEPT
         ![s].at = IF Carried(s) THEN "admitting" ELSE "settling",
         ![s].wakeup = FALSE,
         ![s].exhausted = Exhausted(s), ![s].carried = Carried(s)]
  /\ loop' = s
  /\ UNCHANGED <<vars, state, closer, posted>>

-----------------------------------------------------------------------------
(* admit, with its three answers.                                           *)

\* Faulty variant: the admitted submission is not counted as outstanding.
StreamAdmitsUncounted(s) ==
  /\ stream[s].at = "admitting" /\ OnLoop(s)
  /\ Admit(OwnerOf(s))
  /\ stream' = [stream EXCEPT ![s].at = "top", ![s].carried = FALSE]
  /\ posted' = TRUE
  /\ UNCHANGED <<state, closer, loop>>

StreamAdmits(s) ==
  /\ stream[s].at = "admitting" /\ OnLoop(s)
  /\ Admit(OwnerOf(s))
  /\ stream' = [stream EXCEPT ![s].at = "top", ![s].carried = FALSE,
                              ![s].outstanding = @ + 1]
  /\ posted' = TRUE
  /\ UNCHANGED <<state, closer, loop>>

StreamRefused(s) ==
  /\ stream[s].at = "admitting" /\ OnLoop(s)
  /\ \/ AdmitStartFails(OwnerOf(s)) /\ posted' = TRUE
     \/ intake_closed /\ UNCHANGED <<vars, posted>>
  /\ stream' = [stream EXCEPT ![s].at = "top", ![s].carried = FALSE,
                              ![s].exhausted = TRUE]
  /\ UNCHANGED <<state, closer, loop>>

StreamFindsNoRoom(s) ==
  /\ stream[s].at = "admitting" /\ OnLoop(s)
  /\ ~intake_closed /\ residents >= Capacity
  /\ stream' = [stream EXCEPT ![s].at = "settling"]
  /\ UNCHANGED <<vars, state, closer, loop, posted>>

\* A finished pull is harvested ...
StreamHarvests(s) ==
  /\ stream[s].at = "settling" /\ OnLoop(s)
  /\ Pulled(s)
  /\ stream' =
       CASE stream[s].pull = "error" ->
              [stream EXCEPT ![s].at = "finally", ![s].end = "raised"]
         [] stream[s].pull = "end" ->
              [stream EXCEPT ![s].at = "top", ![s].pull = "none",
                             ![s].exhausted = TRUE]
         [] OTHER ->
              [stream EXCEPT ![s].at = "top", ![s].pull = "none",
                             ![s].carried = (state = "running")]
  /\ loop' = IF stream[s].pull = "error" THEN Free ELSE loop
  /\ UNCHANGED <<vars, state, closer, posted>>

\* ... or one is started if there is room, and the stream waits.
StreamWaits(s) ==
  /\ stream[s].at = "settling" /\ OnLoop(s)
  /\ ~Pulled(s)
  /\ stream' =
       [stream EXCEPT
         ![s].at = "waiting",
         ![s].pull = IF WantsPull(s, stream[s].exhausted, stream[s].carried) /\ CanAdmit
                     THEN "pulling" ELSE @]
  /\ loop' = Free
  /\ UNCHANGED <<vars, state, closer, posted>>

-----------------------------------------------------------------------------
(* The task that pulls the source.  A map_stream's source is behind _gated: *)
(* it is asked only with a permit in hand, which its completion gives back. *)

HasPermit(s) == s \in MapStream => stream[s].gate > 0

PullItem(s) ==
  /\ loop = Free
  /\ stream[s].pull = "pulling"
  /\ HasPermit(s)
  /\ stream[s].left > 0
  /\ stream' = [stream EXCEPT ![s].pull = "item", ![s].left = @ - 1,
                              ![s].gate = IF s \in MapStream THEN @ - 1 ELSE @]
  /\ UNCHANGED <<vars, state, closer, loop, posted>>

PullEnd(s) ==
  /\ loop = Free
  /\ stream[s].pull = "pulling"
  /\ HasPermit(s)
  /\ stream[s].left = 0
  /\ stream' = [stream EXCEPT ![s].pull = "end"]
  /\ UNCHANGED <<vars, state, closer, loop, posted>>

PullFails(s) ==
  /\ loop = Free
  /\ s \notin Steady
  /\ stream[s].pull = "pulling"
  /\ HasPermit(s)
  /\ stream' = [stream EXCEPT ![s].pull = "error"]
  /\ UNCHANGED <<vars, state, closer, loop, posted>>

-----------------------------------------------------------------------------
(* The consumer, and the end of a stream.                                   *)

ConsumerResumes(s) ==
  /\ loop = Free
  /\ stream[s].at = "yielded"
  /\ stream' = [stream EXCEPT ![s].at = "top"]
  /\ UNCHANGED <<vars, state, closer, loop, posted>>

\* Closing the outer generator releases first; the inner one is finalised by
\* the loop afterwards.
ConsumerLeaves(s) ==
  /\ loop = Free
  /\ s \notin Steady
  /\ stream[s].at = "yielded"
  /\ IF s \in MapStream THEN ReleaseOwned(s) /\ posted' = TRUE
                        ELSE UNCHANGED <<vars, posted>>
  /\ stream' = [stream EXCEPT ![s].at = "finally", ![s].end = "left"]
  /\ UNCHANGED <<state, closer, loop>>

\* Out of _drive_stream, into the finally clause of map_stream unless its consumer
\* has already been through it.
DriverEnds(s) ==
  /\ loop = Free
  /\ stream[s].at = "finally"
  /\ stream' = [stream EXCEPT
                 ![s].pull = IF @ = "error" THEN @ ELSE "none",
                 ![s].at = IF s \in MapStream /\ stream[s].end # "left"
                           THEN "releasing" ELSE "done"]
  /\ UNCHANGED <<state, closer, loop>>

\* Faulty variant: the last stream does not discard what a closed pool holds.
StreamFinallyKeeps(s) == DriverEnds(s) /\ UNCHANGED <<vars, posted>>

\* The finally clause of _drive_stream.  Cancelling a pull that has failed raises
\* its error once more, and the rest of the clause is skipped: the stream stays
\* counted and discards nothing.
StreamFinally(s) ==
  /\ DriverEnds(s)
  /\ IF stream[s].pull # "error" /\ Active = {s} /\ closer = "done"
     THEN DiscardCompletions /\ posted' = TRUE
     ELSE UNCHANGED <<vars, posted>>

\* The finally clause of map_stream.
StreamReleases(s) ==
  /\ loop = Free
  /\ stream[s].at = "releasing"
  /\ ReleaseOwned(s)
  /\ stream' = [stream EXCEPT ![s].at = "done"]
  /\ posted' = TRUE
  /\ UNCHANGED <<state, closer, loop>>

-----------------------------------------------------------------------------
(* drain, abort and the _finish_close task.                                 *)

CloseBegins ==
  /\ loop = Free
  /\ closer = "none"
  /\ closer' = "quiescing"
  /\ state' = "draining"
  /\ CloseIntake
  /\ stream' = WakeAll(stream)
  /\ posted' = TRUE
  /\ UNCHANGED loop

\* abort also cancels, whether or not a drain is already under way.  One that
\* finds nothing left to cancel changes nothing and is left out.
Abort ==
  /\ loop = Free
  /\ ~(tokens \subseteq cancelled)
  /\ closer \notin {"none", "done"}
  /\ CancelAll
  /\ posted' = TRUE
  /\ UNCHANGED <<state, closer, stream, loop>>

CloseQuiesces ==
  /\ closer = "quiescing"
  /\ WaitForQuiescence(Closer)
  /\ closer' = IF Quiescent THEN "stopping" ELSE closer
  /\ UNCHANGED <<state, stream, loop, posted>>

CloseStops ==
  /\ closer = "stopping"
  /\ ShutdownBegin(Closer)
  /\ closer' = "joining"
  /\ posted' = TRUE
  /\ UNCHANGED <<state, stream, loop>>

CloseJoins ==
  /\ closer = "joining"
  /\ ShutdownEnd(Closer, TRUE)
  /\ closer' = "finishing"
  /\ posted' = TRUE
  /\ UNCHANGED <<state, stream, loop>>

CloseFinishes ==
  /\ loop = Free
  /\ closer = "finishing"
  /\ closer' = "done"
  /\ state' = IF broken THEN "broken" ELSE "closed"
  /\ stream' = WakeAll(stream)
  /\ IF Active = {} THEN DiscardCompletions /\ posted' = TRUE
                    ELSE UNCHANGED <<vars, posted>>
  /\ UNCHANGED loop

\* Faulty variant: only one stream is woken.
WakesOne ==
  /\ loop = Free
  /\ posted
  /\ posted' = FALSE
  /\ \E s \in Stream : stream' = [stream EXCEPT ![s].wakeup = TRUE]
  /\ UNCHANGED <<vars, state, closer, loop>>

\* The queued _wake_streams callback runs.
LoopWakes ==
  /\ loop = Free
  /\ posted
  /\ posted' = FALSE
  /\ stream' = WakeAll(stream)
  /\ UNCHANGED <<vars, state, closer, loop>>

-----------------------------------------------------------------------------
StreamStep(s) ==
  \/ TopCancelsPull(s) \/ StreamYields(s) \/ StreamRaises(s) \/ StreamReturns(s)
  \/ StreamGoesOn(s) \/ StreamAdmits(s) \/ StreamRefused(s) \/ StreamFindsNoRoom(s)
  \/ StreamHarvests(s) \/ StreamWaits(s) \/ StreamFinally(s) \/ StreamReleases(s)

PullStep(s) == PullItem(s) \/ PullEnd(s)

CloseStep == CloseQuiesces \/ CloseStops \/ CloseJoins \/ CloseFinishes

ThreadAdvances(w) ==
  \/ /\ TakeAdmittedBlocks(w) \/ TakeAdmitted(w) \/ WorkerExits(w)
     /\ UNCHANGED poolVars
  \/ /\ FinishCompletes(w)
     /\ posted' = TRUE
     /\ UNCHANGED <<state, closer, stream, loop>>

ThreadBreaks(w) ==
  /\ FinishBreaks(w)
  /\ posted' = TRUE
  /\ UNCHANGED <<state, closer, stream, loop>>

PoolNext ==
  \/ \E s \in Stream : \/ OpenStream(s) \/ StreamStep(s) \/ PullStep(s) \/ PullFails(s)
                       \/ ConsumerResumes(s) \/ ConsumerLeaves(s)
  \/ CloseBegins \/ Abort \/ CloseStep \/ LoopWakes
  \/ \E w \in Worker : ThreadAdvances(w) \/ ThreadBreaks(w)

\* The loop and the threads are scheduled, sources answer, jobs end and
\* consumers come back.  Nobody has to open a stream or close the pool.
PoolFairness ==
  /\ \A s \in Stream : /\ WF_allVars(StreamStep(s))
                       /\ WF_allVars(PullStep(s))
                       /\ WF_allVars(ConsumerResumes(s))
  /\ WF_allVars(CloseStep)
  /\ WF_allVars(LoopWakes)
  /\ \A w \in Worker : WF_allVars(ThreadAdvances(w))

PoolSpec == PoolInit /\ [][PoolNext]_allVars /\ PoolFairness

-----------------------------------------------------------------------------
(* Properties.                                                              *)

\* The tickets of a map_stream it has not been handed yet.
Owed(s) == {t \in Occupying : owner[t] = s}

\* The count a map_stream ends on is the number of its jobs still in the pool:
\* counted on the loop, it agrees with what the worker threads hold until the
\* scheduler breaks.
OutstandingExact ==
  \A s \in MapStream :
    stream[s].end = "open" /\ ~broken => stream[s].outstanding = Cardinality(Owed(s))

\* A stream waits only when it can do nothing, unless a wakeup is on its way:
\* no completion, break, room or end of the pool is missed.
NoStreamAsleep ==
  \A s \in Stream :
    /\ stream[s].at = "waiting" /\ loop = Free
    /\ ~posted /\ ~stream[s].wakeup /\ ~Pulled(s)
    => /\ ready[OwnerOf(s)] = <<>>
       /\ ~broken
       /\ stream[s].carried => ~intake_closed /\ residents >= Capacity
       /\ WantsPull(s, stream[s].exhausted, stream[s].carried) => ~CanAdmit
       /\ stream[s].exhausted /\ ~stream[s].carried => ~NothingLeftFor(s)
       /\ Stopping => stream[s].exhausted

\* A map_stream that returns has yielded the completion of every submission it
\* pulled, unless the pool was closed under it; even then it has yielded the
\* completion of every one the pool admitted.
MapStreamComplete ==
  \A s \in MapStream :
    stream[s].end = "returned" =>
      /\ \A t \in Ticket : owner[t] = s => fate[t] = "delivered"
      /\ closer = "none" =>
           /\ stream[s].left = 0
           /\ Cardinality({t \in Ticket : owner[t] = s}) = SourceJobs[s]

\* Submissions pulled from a map_stream's source and not yet yielded never
\* exceed its width, counting the one in hand and those in the pool.
PullsStayWithinWidth ==
  \A s \in MapStream :
    stream[s].end = "open" =>
      Cardinality(Owed(s)) + (IF stream[s].carried THEN 1 ELSE 0)
                           + (IF stream[s].pull = "item" THEN 1 ELSE 0) <= Width

\* Once the pool is closed and the last counted stream is gone nothing is held,
\* in whichever order the two happened.  A stream whose source failed is counted
\* for ever, and the pool may then keep results nobody can consume.
ClosedPoolHoldsNothing ==
  closer = "done" /\ Active = {} => residents = 0 /\ tokens = {}

\* Stream s was deserted: its consumer left before its end, or its source failed.
Deserted(s) == stream[s].end = "left" \/ stream[s].pull = "error"

\* Every stream ends if nobody deserts the pool: streams that compete for its
\* slots and are carried, woken and closed under do not block each other.
SteadyStreamsEnd ==
  \A s \in Stream :
    stream[s].at = "top" ~> stream[s].at = "done" \/ \E t \in Stream : Deserted(t)

\* A driver that ended early does not stall the drivers that outlive it: every
\* stream ends, whatever the others do.
StreamsEnd == \A s \in Stream : stream[s].at = "top" ~> stream[s].at = "done"

\* A drain or an abort completes.
CloseCompletes == closer = "quiescing" ~> closer = "done"
=============================================================================
