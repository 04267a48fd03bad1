------------------------------ MODULE Scheduler ------------------------------
(***************************************************************************)
(* ExecutionScheduler of scheduling/scheduler.py: a bounded set of threads  *)
(* that runs admitted jobs and buffers their completions for the drivers    *)
(* that admitted them.                                                      *)
(*                                                                          *)
(* Every method body runs inside `with self._condition`, so one action is   *)
(* one critical section; what happens between two of them (a job running,   *)
(* shutdown joining its threads, a thread blocked in Condition.wait) is     *)
(* where the other threads interleave.  A thread that finds the predicate   *)
(* of its wait_for false joins a wait set and stays there until somebody    *)
(* calls notify_all, so a missing notification is a visible error here.     *)
(*                                                                          *)
(* The module leaves the drivers open: any caller may make any call at any  *)
(* time.  BatchRun and ExecutionPool say what the real drivers do.          *)
(*                                                                          *)
(* Calls that change nothing (can_admit, has_residents, is_broken, a        *)
(* refused admit, a nowait take that finds nothing) are not actions: a      *)
(* driver model reads CanAdmit, residents and broken where it makes them.   *)
(***************************************************************************)
EXTENDS Integers, Sequences, FiniteSets, Functions

CONSTANTS Capacity,  \* resident bound, also the bound on worker threads
          MaxJobs,   \* bound on the ticket counter
          Owner,     \* claim classes: one per map_stream, and Plain for the rest
          Plain,
          Caller     \* threads that may block in a call of the scheduler

ASSUME CapacityAssumption == Capacity \in Nat \ {0}
ASSUME MaxJobsAssumption == MaxJobs \in Nat
ASSUME OwnerAssumption == Plain \in Owner

Ticket == 0 .. MaxJobs - 1
NoTicket == -1

\* Thread w of self._workers; thread names count from len(self._workers).
Worker == 1 .. Capacity

VARIABLES
  pending,        \* deque of admitted tickets no thread has taken yet
  ready,          \* completions not yet claimed, oldest first, per claiming
                  \* owner: a claim of the pool never looks across owners,
                  \* and a batch has one owner, so one deque per owner is
                  \* the one deque of the code
  tokens,         \* tickets whose CancelToken is registered in self._tokens
  workers,        \* len(self._workers)
  next_ticket,
  residents,
  running,
  intake_closed,
  expired,
  broken,
  cancelled,      \* tickets whose CancelToken has been cancelled
  owner,          \* the context a ticket was admitted with
  phase,          \* where each worker thread is
  job,            \* the ticket a worker thread is executing
  sleeping,       \* worker threads blocked in Condition.wait
  call,           \* the blocking call each caller is in
  blocked,        \* callers blocked in Condition.wait
  departed,       \* owners whose driver ended (release_owned was called)
  fate            \* history: what became of each ticket

queues == <<pending, ready, tokens, residents>>
flags  == <<intake_closed, expired, broken>>
threads == <<workers, phase, job>>
vars == <<pending, ready, tokens, workers, next_ticket, residents, running,
          intake_closed, expired, broken, cancelled, owner, phase, job,
          sleeping, call, blocked, departed, fate>>

Fate == {"new", "pending", "running", "ready", "dropped", "delivered",
         "released", "lost"}

Call == {"none", "take_completion", "wait_for_quiescence", "shutdown"}

\* The shape of the state, and the bounds of the two counters.
ShapeOK ==
  /\ pending \in Seq(Ticket)
  /\ ready \in [Owner -> Seq(Ticket)]
  /\ tokens \subseteq Ticket
  /\ workers \in 0 .. Capacity
  /\ next_ticket \in 0 .. MaxJobs
  /\ intake_closed \in BOOLEAN
  /\ expired \in BOOLEAN
  /\ broken \in BOOLEAN
  /\ cancelled \subseteq Ticket
  /\ owner \in [Ticket -> Owner]
  /\ phase \in [Worker -> {"absent", "taking", "running", "exited"}]
  /\ job \in [Worker -> Ticket \cup {NoTicket}]
  /\ sleeping \subseteq Worker
  /\ call \in [Caller -> Call]
  /\ blocked \subseteq Caller
  /\ departed \subseteq Owner
  /\ fate \in [Ticket -> Fate]

\* The state has the types the code gives it, and residents and running stay
\* within the capacity.
TypeOK ==
  /\ ShapeOK
  /\ residents \in 0 .. Capacity
  /\ running \in 0 .. Capacity

Init ==
  /\ pending = <<>>
  /\ ready = [o \in Owner |-> <<>>]
  /\ tokens = {}
  /\ workers = 0
  /\ next_ticket = 0
  /\ residents = 0
  /\ running = 0
  /\ intake_closed = FALSE
  /\ expired = FALSE
  /\ broken = FALSE
  /\ cancelled = {}
  /\ owner = [t \in Ticket |-> Plain]
  /\ phase = [w \in Worker |-> "absent"]
  /\ job = [w \in Worker |-> NoTicket]
  /\ sleeping = {}
  /\ call = [c \in Caller |-> "none"]
  /\ blocked = {}
  /\ departed = {}
  /\ fate = [t \in Ticket |-> "new"]

-----------------------------------------------------------------------------
(* Helpers.                                                                 *)

\* Faulty variant: notify() in place of notify_all().
NotifyOne ==
  /\ sleeping' \in IF sleeping = {} THEN {{}} ELSE {sleeping \ {w} : w \in sleeping}
  /\ blocked' = {}

\* _announce_change: notify_all empties both wait sets.
AnnounceChange ==
  /\ sleeping' = {}
  /\ blocked' = {}

\* The tickets with a given history, and how a set of tickets moves on.
Having(f) == {t \in Ticket : fate[t] = f}
ReadyFor(o) == {t \in Ticket : fate[t] = "ready" /\ owner[t] = o}
Occupying == {t \in Ticket : fate[t] \in {"pending", "running", "ready", "dropped"}}
Becomes(S, f) == [t \in Ticket |-> IF t \in S THEN f ELSE fate[t]]

\* Faulty variant: off by one at the bound.
CanAdmitOneMore == residents <= Capacity /\ ~intake_closed

CanAdmit == residents < Capacity /\ ~intake_closed

\* Faulty variant: start a thread only when none is idle.
NeedsWorkerWhenNoneIdle(queue) ==
  /\ workers = running
  /\ workers < Capacity

\* _ensure_worker starts a thread when the queue outgrows the idle threads.
NeedsWorker(queue) ==
  /\ workers - running < Len(queue)
  /\ workers < Capacity

\* Faulty variant: tokens are born live.
BornLive == {}

\* expire births later tokens cancelled.
BornCancelled == IF expired THEN {next_ticket} ELSE {}

\* Faulty variant: a closed intake ends the thread at once.
WorkerStopsOnClose == broken \/ intake_closed

\* _take_admitted returns None: the thread ends.
WorkerStops == broken \/ pending = <<>>

\* Faulty variant: the tokens of the dropped queue stay registered.
BreakKeepsTokens(queue, victims, known) ==
  /\ broken' = TRUE
  /\ intake_closed' = TRUE
  /\ pending' = <<>>
  /\ cancelled' = cancelled \cup Range(queue)
  /\ tokens' = known \ victims
  /\ fate' = Becomes(victims \cup Range(queue), "dropped")
  /\ UNCHANGED expired

\* _break: the queue is dropped and its tokens cancelled and forgotten, but
\* residents keeps counting what was dropped.  A second break finds the queue
\* empty already, so the code's early return changes nothing.
Break(queue, victims, known) ==
  /\ broken' = TRUE
  /\ intake_closed' = TRUE
  /\ pending' = <<>>
  /\ cancelled' = cancelled \cup Range(queue)
  /\ tokens' = known \ (victims \cup Range(queue))
  /\ fate' = Becomes(victims \cup Range(queue), "dropped")
  /\ UNCHANGED expired

-----------------------------------------------------------------------------
(* Operations of a driver.                                                  *)

\* admit up to _ensure_worker: the ticket is issued, queued and counted.  After
\* expire its token is born cancelled.
Admission(o) ==
  /\ CanAdmit
  /\ o \notin departed
  /\ next_ticket < MaxJobs
  /\ next_ticket' = next_ticket + 1
  /\ residents' = residents + 1
  /\ owner' = [owner EXCEPT ![next_ticket] = o]
  /\ UNCHANGED <<ready, running, job, call, departed>>

Admit(o) ==
  LET queue == Append(pending, next_ticket)
      starts == NeedsWorker(queue)
  IN  /\ Admission(o)
      /\ pending' = queue
      /\ tokens' = tokens \cup {next_ticket}
      /\ cancelled' = cancelled \cup BornCancelled
      /\ fate' = Becomes({next_ticket}, "pending")
      /\ workers' = IF starts THEN workers + 1 ELSE workers
      /\ phase' = IF starts THEN [phase EXCEPT ![workers + 1] = "taking"] ELSE phase
      /\ AnnounceChange
      /\ UNCHANGED flags

\* Thread.start raises inside _ensure_worker: the scheduler breaks and admit
\* answers INTAKE_CLOSED with the submission already dropped.
AdmitStartFails(o) ==
  LET queue == Append(pending, next_ticket)
  IN  /\ Admission(o)
      /\ NeedsWorker(queue)
      /\ Break(queue, {}, tokens \cup {next_ticket})
      /\ AnnounceChange
      /\ UNCHANGED <<workers, phase>>

CloseIntake ==
  /\ intake_closed' = TRUE
  /\ AnnounceChange
  /\ UNCHANGED <<queues, threads, next_ticket, running, expired, broken,
                 cancelled, owner, call, departed, fate>>

\* _take_ready and _take_ready_owned: hand out the oldest completion of o.
TakeReady(o) ==
  /\ ready[o] # <<>>
  /\ ready' = [ready EXCEPT ![o] = Tail(@)]
  /\ tokens' = tokens \ {Head(ready[o])}
  /\ residents' = residents - 1
  /\ fate' = Becomes({Head(ready[o])}, "delivered")
  /\ AnnounceChange
  /\ UNCHANGED <<pending, threads, next_ticket, running, flags, cancelled,
                 owner, departed>>

\* take_completion_nowait that finds a completion of the asking owner.
TakeCompletionNowait(o) ==
  /\ o \notin departed
  /\ TakeReady(o)
  /\ UNCHANGED call

\* The wait_for predicates of the two blocking calls.
Quiescent == running = 0 /\ pending = <<>>
Takeable == (\E o \in Owner : ready[o] # <<>>) \/ broken \/ Quiescent

\* A caller enters a blocking call, or resumes in it after a notification.
Enters(c, name) == c \notin blocked /\ call[c] \in {"none", name}

\* wait_for finds its predicate false: the caller sleeps until notify_all.
BlockIn(c, name) ==
  /\ call' = [call EXCEPT ![c] = name]
  /\ blocked' = blocked \cup {c}
  /\ UNCHANGED <<queues, threads, next_ticket, running, flags, cancelled,
                 owner, sleeping, departed, fate>>

Returns(c) ==
  /\ call' = [call EXCEPT ![c] = "none"]
  /\ UNCHANGED <<queues, threads, next_ticket, running, flags, cancelled,
                 owner, sleeping, blocked, departed, fate>>

TakeCompletion(c) ==
  /\ Enters(c, "take_completion")
  /\ \E o \in Owner : TakeReady(o)
  /\ call' = [call EXCEPT ![c] = "none"]

TakeCompletionBlocks(c) ==
  /\ Enters(c, "take_completion")
  /\ ~Takeable
  /\ BlockIn(c, "take_completion")

\* Nothing is buffered and nothing will be: raise if broken, else return None.
TakeCompletionEnds(c) ==
  /\ Enters(c, "take_completion")
  /\ Takeable
  /\ \A o \in Owner : ready[o] = <<>>
  /\ Returns(c)

WaitForQuiescence(c) ==
  /\ Enters(c, "wait_for_quiescence")
  /\ IF Quiescent THEN Returns(c) ELSE BlockIn(c, "wait_for_quiescence")

CancelAll ==
  /\ cancelled' = cancelled \cup tokens
  /\ AnnounceChange
  /\ UNCHANGED <<queues, threads, next_ticket, running, flags, owner, call,
                 departed, fate>>

Expire ==
  /\ expired' = TRUE
  /\ cancelled' = cancelled \cup tokens
  /\ AnnounceChange
  /\ UNCHANGED <<queues, threads, next_ticket, running, intake_closed, broken,
                 owner, call, departed, fate>>

\* shutdown, up to the joins.
ShutdownBegin(c) ==
  /\ c \notin blocked /\ call[c] = "none"
  /\ call' = [call EXCEPT ![c] = "shutdown"]
  /\ intake_closed' = TRUE
  /\ AnnounceChange
  /\ UNCHANGED <<queues, threads, next_ticket, running, expired, broken,
                 cancelled, owner, departed, fate>>

\* No thread was started after intake closed, so the threads joined are all.
Joined == intake_closed /\ \A w \in Worker : phase[w] \in {"absent", "exited"}

\* _discard_completions; whatever still sat in the cleared queue is lost.
DiscardAll ==
  /\ ready' = [o \in Owner |-> <<>>]
  /\ tokens' = {}
  /\ residents' = 0

ShutdownEnd(c, preserve_completions) ==
  /\ call[c] = "shutdown"
  /\ Joined
  /\ call' = [call EXCEPT ![c] = "none"]
  /\ workers' = 0
  /\ pending' = <<>>
  /\ fate' = [t \in Ticket |->
                 IF t \in Range(pending) THEN "lost"
                 ELSE IF ~preserve_completions /\ fate[t] \in {"ready", "dropped"}
                 THEN "released" ELSE fate[t]]
  /\ IF preserve_completions THEN UNCHANGED <<ready, tokens, residents>>
                             ELSE DiscardAll
  /\ AnnounceChange
  /\ UNCHANGED <<phase, job, next_ticket, running, flags, cancelled, owner,
                 departed>>

\* discard_completions: the pool calls it once its shutdown has completed and
\* no stream is active, which is where its guard comes from.
DiscardCompletions ==
  /\ Joined /\ workers = 0
  /\ fate' = Becomes(Having("ready") \cup Having("dropped"), "released")
  /\ DiscardAll
  /\ AnnounceChange
  /\ UNCHANGED <<pending, threads, next_ticket, running, flags, cancelled,
                 owner, call, departed>>

\* release_owned drops the completions of o that are buffered now.
ReleaseOwned(o) ==
  /\ o \notin departed \cup {Plain}
  /\ ready' = [ready EXCEPT ![o] = <<>>]
  /\ tokens' = tokens \ Range(ready[o])
  /\ residents' = residents - Len(ready[o])
  /\ departed' = departed \cup {o}
  /\ fate' = Becomes(Range(ready[o]), "released")
  /\ AnnounceChange
  /\ UNCHANGED <<pending, threads, next_ticket, running, flags, cancelled,
                 owner, call>>

-----------------------------------------------------------------------------
(* The worker threads: _work, _take_admitted, _run_one and _finish.         *)

Taking(w) == phase[w] = "taking" /\ w \notin sleeping

WorkAvailable == pending # <<>> \/ intake_closed \/ broken

TakeAdmittedBlocks(w) ==
  /\ Taking(w)
  /\ ~WorkAvailable
  /\ sleeping' = sleeping \cup {w}
  /\ UNCHANGED <<queues, threads, next_ticket, running, flags, cancelled,
                 owner, call, blocked, departed, fate>>

\* popleft; nobody is notified, since no predicate can become true by it.
TakeAdmitted(w) ==
  /\ Taking(w)
  /\ ~WorkerStops
  /\ pending # <<>>
  /\ running' = running + 1
  /\ pending' = Tail(pending)
  /\ phase' = [phase EXCEPT ![w] = "running"]
  /\ job' = [job EXCEPT ![w] = Head(pending)]
  /\ fate' = Becomes({Head(pending)}, "running")
  /\ UNCHANGED <<ready, tokens, residents, workers, next_ticket, flags,
                 cancelled, owner, sleeping, call, blocked, departed>>

WorkerExits(w) ==
  /\ Taking(w)
  /\ WorkAvailable
  /\ WorkerStops
  /\ phase' = [phase EXCEPT ![w] = "exited"]
  /\ UNCHANGED <<queues, workers, job, next_ticket, running, flags, cancelled,
                 owner, sleeping, call, blocked, departed, fate>>

\* Faulty variant: _finish returns without announcing the change.
FinishSilently(w) ==
  /\ phase[w] = "running"
  /\ running' = running - 1
  /\ phase' = [phase EXCEPT ![w] = "taking"]
  /\ job' = [job EXCEPT ![w] = NoTicket]
  /\ UNCHANGED <<workers, next_ticket, residents, owner, sleeping, call,
                 blocked, departed>>

\* The critical section of _finish that both outcomes share.
Finish(w) ==
  /\ phase[w] = "running"
  /\ running' = running - 1
  /\ phase' = [phase EXCEPT ![w] = "taking"]
  /\ job' = [job EXCEPT ![w] = NoTicket]
  /\ AnnounceChange
  /\ UNCHANGED <<workers, next_ticket, residents, owner, call, departed>>

\* run_blocking returned: the completion is buffered, its token stays.
FinishCompletes(w) ==
  /\ Finish(w)
  /\ ready' = [ready EXCEPT ![owner[job[w]]] = Append(@, job[w])]
  /\ fate' = Becomes({job[w]}, "ready")
  /\ UNCHANGED <<pending, tokens, flags, cancelled>>

\* run_blocking raised: no completion, the scheduler breaks.
FinishBreaks(w) ==
  /\ Finish(w)
  /\ Break(pending, {job[w]}, tokens)
  /\ UNCHANGED ready

-----------------------------------------------------------------------------
DriverStep ==
  \/ \E o \in Owner : \/ Admit(o) \/ AdmitStartFails(o)
                      \/ TakeCompletionNowait(o) \/ ReleaseOwned(o)
  \/ \E c \in Caller : \/ TakeCompletion(c) \/ TakeCompletionBlocks(c)
                       \/ TakeCompletionEnds(c) \/ WaitForQuiescence(c)
                       \/ ShutdownBegin(c)
                       \/ \E keep \in BOOLEAN : ShutdownEnd(c, keep)
  \/ CloseIntake \/ CancelAll \/ Expire \/ DiscardCompletions

WorkerStep(w) ==
  \/ TakeAdmittedBlocks(w) \/ TakeAdmitted(w) \/ WorkerExits(w)
  \/ FinishCompletes(w) \/ FinishBreaks(w)

Next == DriverStep \/ \E w \in Worker : WorkerStep(w)

Spec == Init /\ [][Next]_vars

-----------------------------------------------------------------------------
(* Properties.                                                              *)

\* The counters the code keeps by hand are the sizes of what they stand for:
\* residents counts every job that is queued, running, buffered or was dropped
\* by a break, running counts the jobs inside run_blocking, and _tokens holds
\* exactly the jobs that can still be cancelled or claimed.
Accounting ==
  /\ residents = Cardinality(Occupying)
  /\ running = Cardinality(Having("running"))
  /\ tokens = Having("pending") \cup Having("running") \cup Having("ready")

\* No head-of-line blocking: every queued job has a thread of its own to take
\* it, whatever the running jobs do.  _ensure_worker looks only at the moment
\* of an admission, so this must survive every later step.
EveryJobHasAThread == Len(pending) + running <= workers

\* No thread sleeps on a wait_for predicate that is true (a notification was
\* missed): workers in _take_admitted, callers in take_completion and in
\* wait_for_quiescence.
NoLostWakeup ==
  /\ sleeping # {} => ~WorkAvailable
  /\ \A c \in blocked : /\ call[c] = "take_completion" => ~Takeable
                        /\ call[c] = "wait_for_quiescence" => ~Quiescent

\* After expire, every job that has not completed runs under a cancelled
\* token, the ones admitted later included.
ExpiryReachesEveryJob ==
  expired => Having("pending") \cup Having("running") \subseteq cancelled

-----------------------------------------------------------------------------
(* What makes the properties above inductive: how the queues, the threads   *)
(* and the history of each ticket fit together.                             *)

\* pending holds the queued tickets, each once, in the order of admission.
PendingLink ==
  /\ Range(pending) = Having("pending")
  /\ \A i, j \in 1 .. Len(pending) : i < j => pending[i] < pending[j]

\* ready holds the buffered completions, each once, under its own owner.
ReadyLink ==
  \A o \in Owner :
    /\ Range(ready[o]) = ReadyFor(o)
    /\ \A i, j \in 1 .. Len(ready[o]) : i # j => ready[o][i] # ready[o][j]

\* Each running ticket is in the hands of exactly one thread.
JobLink ==
  /\ \A w \in Worker : phase[w] = "running" => job[w] \in Having("running")
  /\ \A w, v \in Worker : /\ phase[w] = "running" /\ phase[v] = "running"
                          /\ w # v
                          => job[w] # job[v]
  /\ \A t \in Having("running") :
       \E w \in Worker : phase[w] = "running" /\ job[w] = t

\* The next ticket is the first one never issued.
TicketLink == \A t \in Ticket : fate[t] = "new" <=> next_ticket <= t

\* Threads beyond len(_workers) do not run, threads within it were started,
\* and one has ended only when there is nothing left to take.
ThreadLink ==
  /\ \A w \in Worker : w <= workers => phase[w] # "absent"
  /\ \A w \in Worker : w > workers => phase[w] \in {"absent", "exited"}
  /\ \A w \in Worker : phase[w] = "exited" => intake_closed /\ pending = <<>>
  /\ broken => intake_closed /\ pending = <<>>

Links == PendingLink /\ ReadyLink /\ JobLink /\ TicketLink /\ ThreadLink

\* The lengths of the queues are the sizes of the sets they stand for.
QueueSizes ==
  /\ Len(pending) = Cardinality(Having("pending"))
  /\ \A o \in Owner : Len(ready[o]) = Cardinality(ReadyFor(o))

-----------------------------------------------------------------------------
\* The scheduler implements the thread-free service of JobService.
Service == INSTANCE JobService WITH Job <- Ticket, stage <- fate,
                                    open <- ~intake_closed, failed <- broken
ImplementsService == Service!ServiceSpec

=============================================================================
