# A TLA+ verification of dr-exec

dr-exec runs declared jobs as local processes, in-process calls or calls on long-lived worker
processes, records what happened, and schedules many jobs at once. This directory models its
stateful core, checks it with TLC on small instances, and proves with TLAPS, for every instance, each
safety property the passing runs check. Paths below are relative to `src/src/dr_exec/`.

## Inventory

| component | state | operations | hard because | module |
|---|---|---|---|---|
| scheduler, `scheduling/scheduler.py` | pending and ready deques, tokens, residents, running, flags, threads | admit, take_completion(_nowait), cancel_all, expire, close_intake, wait_for_quiescence, shutdown, release_owned, discard_completions, the worker loop | one condition variable for three kinds of waiter; counters kept by hand; thread start failures; breaks | `Scheduler`, `JobService` |
| batch driver, `run_batch` | exhausted, carried, disarm event | generator loop, finally clause, deadline watcher | consumer closes early, deadline races admission and drain | `BatchRun` |
| execution pool, `scheduling/pool.py` | pool state, per-stream locals, wakeup events, close task | run_stream, map_stream, drain, abort | event loop against threads; streams that share one buffer; closing under running streams | `ExecutionPool` |
| run store, `recording/store.py` | a record directory: manifest, two sidecars | prepare, mark_running, finalize, load | crashes between file operations; failing writes; retries | `RunStore` |
| worker pool, `execution/worker_pool.py`, `worker_pool_worker.py` | slot queue, live registry, closed event, processes, result queues | lease, release, retire, close, exchange | processes die at any time; stop conditions; close against spawn and release | `WorkerPool` |
| attempt engine, `execution/engine.py`, `execution/retention.py` | child process, transport threads, stop reason, retained head and tail | run_execution: prepare, spawn, read setup status, start transports, mark running, wait, teardown, join, finalize, close | stop reasons race; descendants hold the pipes or leave the group; teardown budgets; any step may fail | `Engine` on `RunStore`, `Retention` |
| spawn and bootstrap, `execution/spawn.py`, `runtime/bootstrap.py`, `wire.py` | none of its own | stages of the child up to exec, setup status, protocol writer | the child may die between any two stages | `SetsUp` and `ReadStatus` of `Engine`; writer of `ProtocolStream` |
| protocol, `runtime/protocol.py` | frame buffer, prelude and completion flags, outputs | read_protocol_stream | boundaries of three budgets; torn ends | `ProtocolStream` |
| in-process executor, `execution/importable_json_executor.py`, `scheduling/offload.py` | stop state, handoff, future | run, run_blocking | timer, cancel, return and interrupt race | `InProcess` |
| importable JSON jobs, `importable_json.py` | none | targets, generated driver, parse_importable_json_result | two routes to one answer | `ImportableJson` |
| outcome attribution, `execution/outcomes.py` | none | attribute_outcome | must agree with who ended the child | `Owners` of `Engine` |
| cancellation, `core/cancel.py` | one-shot flag | cancel | none of its own | `cancelled` in `Scheduler` and `Engine`, `token` in `InProcess` |
| declarations, `declarations/` | none | validation | no state | the budgets only, constants of `Engine` |
| record models, identities, runtimes, capabilities | none | validation, digests | no state | not modelled |

How they interact: `run_batch` and `ExecutionPool` drive an `ExecutionScheduler`; its threads call
`run_blocking` of an executor (process, in-process or worker pool); the process executor's engine
writes to the run store. The scheduler calls the pool back through `_on_change`, which posts
`_wake_streams` to the event loop.

What makes each correct: the scheduler loses no job and no wakeup and never exceeds its capacity;
a batch yields every completion or raises, and always ends; a pool's streams get exactly their own
completions and end; the store never loses a record and never tells a receipt that the disk
contradicts; the worker pool keeps its width, never mixes up answers and can always be closed; an
attempt blames the payload only for what the payload did, keeps all output, leaves nothing in its
group and returns once stopped; the protocol reader accepts exactly the well-formed streams within
their budgets; an in-process call that was stopped never passes for one that returned.
`PROJECT.json` lists the hazards at their lines, with the properties that cover them.

## Modules

**Scheduler.** One action is one `with self._condition` block. `sleeping` and `blocked` are the wait
sets of the condition: a thread that finds its `wait_for` predicate false joins one and leaves it
only through `AnnounceChange` (`notify_all`). `fate` is a history variable: what became of each
ticket. `ready` is one deque per claiming owner; the code has one deque and filters it by owner,
which is the same because no claim looks across owners (a batch has one owner). The module leaves its drivers
open: any call may be made at any time, so what holds here holds for both drivers.
`Thread.start` may fail (`AdmitStartFails`) and `run_blocking` may raise (`FinishBreaks`); both break the scheduler.

**JobService** is what the scheduler promises, without threads, locks or counters: at most
`Capacity` jobs are held, they start in the order of admission, and one is forgotten only when its
completion is claimed, released or the stopped service is emptied. `ImplementsService` is the
refinement, with `fate` as the stage of a job.

**BatchRun** extends Scheduler with the generator (one action per call it makes), its consumer, who may resume,
close early or never come back, and the watcher thread with its two looks at the disarm event.
The code's NO_ROOM branch and the job carried over are not modelled: `RoomForPulledJob` shows that branch dead.

**ExecutionPool** extends Scheduler with streams on one event loop. `loop` names the stream that
runs without having reached an await; only threads interleave with it. `posted` is the queued
`_wake_streams` callback. A pull of the source is a task of its own; a `map_stream` pulls through its gate. The
close task runs `wait_for_quiescence` and `shutdown` in the thread `Closer`. When the consumer of a map_stream
leaves, the outer generator releases before the inner one is finalised by the loop, as CPython does it.
`StreamFinally` skips its clause when the source has failed, as the code does (see Observations): `Active` counts such a stream for ever.

**RunStore** has one record directory and several attempts for its job. Each file operation is an
action, so a crash falls between any two. A sidecar or manifest is known by the attempt that wrote
it; `NoOne` stands for missing or torn content. `publish` of the external library dr-store replaces the
manifest atomically, and when it raises the manifest may or may not have been replaced. Every read of the manifest may fail too
(`first` and `second` in a reclaim, `read` in finalize), which the code takes for a record that does not load. `lost` is a
history variable: the records a prepare chose to remove because it could not read them.

**WorkerPool** has jobs (one thread each), the slot queue, the live registry with its lock, worker processes with a
request pipe and a queue of result frames, and the closing thread. `terminate` is two steps: the
kill, and the join of the reader thread, after which the request pipe is closed (`shut`). A write meets a worker that
reads, a pipe that nobody reads any more (`SendFails`), one that only a descendant of a dead worker holds (`SendUnread`, which need not
return), or one that `close` has closed (`SendRaises`). Frames and requests are the jobs they are about. A job of `Forking`
leaves a descendant (`kin`): one in the worker's group dies with it when the group is killed, one that left the
group (`escaped`) holds the result pipe for as long as it likes. When `Mortal`, the owning process may die
(`ParentDies`, `closer = "gone"`): its threads stop where they stand, and each worker, idle or
inside a job, is left to its parent watch (`OrphanEnds`).

**Engine** is one call of `run_execution`. The calling thread's `pc` goes through the steps of the
call; `raised` says that an exception is on its way out, so that every cleanup step exists on both
paths. The child is `leader`, with what it wrote to the status pipe (`status`) and how it ended (`death`, where `own`
is a history bit: did it end before the engine signalled it); `kin` is a descendant that stays in the group with or without the pipes, or escapes. The child
is an adversary: it may end at any stage, ignore SIGTERM, fork and leave its session. The
transport threads are steps of their own, and `TransportFails` is an exception in one. The record is written by the actions of
`RunStore`, taken as steps of the calling thread, so a failing write is one of the failures of the
call. `Owners` is the attribution table, up to exit and failure codes. An attempt is started by one call,
and a call is a pair of a declaration and the executor's self budgets; the protocol stream is reduced to how far it got.

**Retention** is `StreamRetention.offer`. A byte is its position in the stream, so a kept sequence shows which bytes were
kept; `Offer` is the code and `Retained` the reference: the first and the last bytes of the whole,
however it was cut up. `OutputComplete` of `Engine` compares the two over every way the pump can cut the stream.

**ProtocolStream** is the writer a Python payload is wrapped in and `read_protocol_stream`. A frame
is its kind, the number of an output and its size in bytes. The writer is the importable driver,
any other driver, or a rogue payload that found the descriptor and writes any frames. Whoever writes, a frame may have any size of
`FrameSizes`, and the payload may die at any byte of one (`Cuts`). The
reader takes chunks, looks for the LF, and applies the frame, total and output budgets in the
order of the code. `WellFormed` is the reference: a predicate on the whole stream, with no reader in it.

**InProcess** is `ImportableJsonExecutor`: a task of the event loop, the daemon thread that calls
the entry point, the timer and the token. Each look of the code at the token or at the deadline is a step. The
entry point may return JSON or something else, raise, exit, be interrupted, or never return.

**ImportableJson** composes the two: `mode` says which target the job was built with, and
`Completion` and `Parses` are how `parse_importable_json_result` reads the completion of either. The
modes never interact; what is composed is one reading of two producers.

Definitions called faulty variants are not used by any specification: each is a plausible slip in
the definition that follows it, and replacing the one by the other must make the property named in
`PROJECT.json` fail.

## Runs

| run | instance | checks |
|---|---|---|
| `scheduler` | capacity 2, 3 jobs, 2 owners, 1 caller; 248,299 states | counters, thread supply, wakeups, expiry, refinement of JobService |
| `batch` | capacity 2, 4 jobs, one endless; 35,589 states | no silent loss, dead NO_ROOM, answers, termination |
| `pool` | capacity 1, width 1, 1 plain and 2 map submissions; 253,334 states | wakeups, completeness, an empty closed pool, own counts, streams end, closing completes |
| `pool_stranded` | capacity 2, 2 map submissions; the consumer of the map_stream may leave or its source fail | violation: a plain stream never ends |
| `store` | 3 successive attempts; 254,894 states | lifecycle, sidecars, receipts, refusals |
| `store_overlap` | 2 overlapping attempts | violation: a record that loads is removed |
| `store_misread` | 1 attempt | violation: a record of another schema version is removed |
| `workers` | 3 jobs, one with a stop condition and one that forks, 1 slot, 2 spawns, an owner that may die; 134,274 states | width, exclusive leases, answers, nothing outlives close; stops, closing, ending of jobs, no orphan |
| `workers_blame` | 2 jobs, 1 slot | violation: a death blamed on a payload that never ran |
| `workers_dead_pipe` | 2 jobs, one that forks, 1 slot | violation: a job waits on the pipe of a dead worker |
| `engine` | 4 calls: overflow that fails, output that is cut, a protocol target with default and with finite budgets; 705,586 states | blame, complete output, an empty group, return of a stopped call |
| `importable` | frame ceiling 2, 8 bytes in total, 1 output, chunks of 2, up to 3 frames of 0 to 3 bytes; 1,663,274 states | reader against reference, buffer bound, stops, parsing, interrupts |

Bounds. `MaxJobs` caps the ticket counter: three jobs on two threads give a queue with a job in it
while others run, are buffered and are claimed. `Capacity` 2 is the least at which one thread can sleep while another works
and a thread may be missing; capacity 1 in `pool` is where two streams meet NO_ROOM and a submission is carried, and the second
submission of the map_stream has to wait for its gate. At that capacity `PullsStayWithinWidth` follows from the capacity alone, so it is
proved (`WidthRespected`) and not listed in the run. At capacity 2 it and the invariants of the run hold as well (1,691,720 states).
`MaxSpawns` caps the processes of a worker pool: two on one slot let it be respawned after a death, and three jobs let one hold the
worker while one waits for the slot and one comes back to it. Three attempts let one crash, one be refused or reclaim and one follow.
In `engine` stdout keeps its first and its last byte and may write one byte more than
its budget, stderr keeps nothing and may write one: every side of head, tail and limit is met, and
so is a tail of no bytes. In `importable` a frame may be empty, at its ceiling or one byte above it, the total is
reached inside and at the end of a frame, a torn frame is shorter than, as long as and longer than the ceiling, one output more than
allowed fits into three frames, and a chunk ends inside a frame and between two. The same properties hold with four frames of 2 or 3 bytes and 9 in total
(3,832,114 states). Deadlock is not checked anywhere: every one of these systems may come to rest.

Every module defines a type invariant. The scheduler's is checked in its run and proved; the others (`PoolTypeOK`, `BatchTypeOK`,
`EngineTypeOK`, `StreamTypeOK`, `InTypeOK`, `TypeOK` of `RunStore` and of `WorkerPool`) are documentation of the
variables and are not listed in the runs: they hold on the instances above, and the parts the arguments need are in the inductive invariants.

Fairness. Threads, the event loop and the timer are scheduled (weak fairness of each thread's
steps). Jobs end, except the endless ones in `BatchRun`, which end once cancelled: that is what the
executors' cancel path does. Consumers of `ExecutionPool` come back and sources answer, so closing is not shown to complete
without their cooperation; the consumer of a batch need not come back. In `WorkerPool` nothing at all is assumed of worker processes: imports and payloads may run for
ever, only the parent's threads move, and a declared stop condition fires because it is a deadline or a token that will be cancelled; an
orphaned worker ends because its parent watch is a thread of its own. A write to a pipe that only a descendant of a dead worker holds need not return. In `Engine` the calling thread and the transport threads are scheduled
and finite times run out; nothing is assumed of the child or of a descendant. In `ImportableJson` the event
loop runs; the entry point need not return.

## Findings

* `pool_stranded`: `release_owned` drops the buffered completions of a departed map_stream, not the
  ones its running jobs produce later. Those hold resident capacity for ever, and a plain stream never ends.
* `store_overlap`: two overlapping attempts for one JobId; one decides to reclaim an empty
  directory, the other publishes its record into it, the first removes it.
* `store_misread`: a read of the manifest that fails makes `prepare` take the directory for one without a record
  (`recording/store.py:424-430`, `:519-521`) and remove it: a record of another schema version in this run, and in the same way one of this version that
  would have loaded. `ForeignPreserved`, `LifecycleMovesForward` and the others are therefore stated for records that were not misread.
* `workers_blame`: a worker that died before it was handed a request is reported as having died
  while running the payload.
* `workers_dead_pipe`: a worker that ends by a signal or `os._exit` kills no group: that is done in the finally clause of its main function
  and in its parent watch (`execution/worker_pool_worker.py:272` and `:300`). A descendant that stayed in the group then holds the
  result pipe, `receive` looks only at the pipe, and a job without a stop condition waits as long as the descendant
  lives, although `.defs/contracts.toml:450-451` says that no job is "left waiting on a dead pipe".

## Observations

Behaviour met while modelling that has no run of its own. The models have it, and the properties
are stated with it in view.

* When the source of a pool stream raises, `source_pull` is still the failed task, and `_cancel_source_pull`, the first statement of the finally
  clause (`scheduling/pool.py:329`), raises its error again: the wakeup is not discarded, `_active_streams` is not decremented, and a pool
  closed later never discards its completions, although `discard_completions` is there to "Release results after no event-loop stream can
  consume them" (`scheduling/scheduler.py:226`). `ClosedPoolHoldsNothing` speaks of pools that count no stream any more, and so leaves this one out.
* `close` may close the request pipe of a worker (`execution/worker_pool.py:161`) that a job has leased and is about to write to. The write raises
  ValueError, which `send` does not catch (`:137`), and `run_blocking` raises where `.defs/contracts.toml:442` promises exactly one
  completion. It is `SendRaises`; `CloseEndsEveryJob` counts such a job as ended, and its slot is given back.
* A write to a worker that died while a descendant holds the request pipe succeeds if it fits the pipe and else blocks, with no look at the stop
  condition: `WatchedJobsComplete` excepts it (`Unread`).
* `WatchedJobsComplete`, `CloseCompletes` and `CloseEndsEveryJob` except a descendant in another session that keeps the result pipe
  (`HeldOutside`): `terminate` joins the reader thread without a time limit (`:160`), so close, a deadline or a cancellation waits for it.
* A degraded receipt falls back to what the handle knows when the record cannot be read (`recording/store.py:457-461`), and may then
  tell less than the disk holds: `ReceiptsTellDurableState` asks for equality only if the read succeeded.
* A bootstrap that dies silently before exec leaves an empty status pipe, which reads like a successful exec:
  the engine goes on as if the payload was reached (`_ReachedPayload`, `execution/engine.py:452`), and the death is
  attributed to the payload. `OwnDeath` speaks of the child process as a whole for this reason.
* Neither the token nor the wall time is looked at while the setup status is read, nor in the join:
  without a startup or a join budget these waits are as long as the child, or an escaped descendant,
  makes them. `StoppedCallReturns` starts where the wait loop starts, and names the join as its one exception.
* An overflow outranks a wall time and a cancellation in the outcome, also when the child was stopped for one of those.
* In process, an import of the entry point's module that raises SystemExit under a cancelled token gives a cancelled
  outcome that counts as started, though the entry point was not entered; a KeyboardInterrupt in the body skips the last looks at the token and the deadline.

## Proofs

Every invariant, action property and refinement of a passing run is a theorem for every value of the
constants that satisfies the named assumptions of its module. What stays with TLC is the liveness.

| module | specification | theorems (property) |
|---|---|---|
| `SchedulerProofs` | `Scheduler` | `TypeCorrect`, `AccountingExact`, `ThreadSupply`, `NoWakeupIsLost`, `ExpiryIsTotal` |
| `SchedulerRefinement` | `Scheduler` | `Refinement` (`ImplementsService`) |
| `BatchRunProofs` | `BatchRun` | `BatchDrivesScheduler`, `ReturnedMeansDelivered` (`NoSilentLoss`), `PulledJobHasRoom` (`RoomForPulledJob`) |
| `ExecutionPoolProofs` | `ExecutionPool` | `PoolDrivesScheduler`, `CountsAreExact` (`OutstandingExact`), `WidthRespected` (`PullsStayWithinWidth`), `ReturnedMapIsComplete` (`MapStreamComplete`), `ClosedPoolIsEmpty` (`ClosedPoolHoldsNothing`), `WakeupsAreNotLost` (`NoStreamAsleep`) |
| `RunStoreProofs` | `RunStore` | `FinalizedRecordsVerify` (`FinalizedVerifies`), `ReceiptsAgree` (`ReceiptsTellDurableState`), `RefusalsAreJustified` (`RefusedOnlyByARecord`), `RecordsMoveForward` (`LifecycleMovesForward`), `ForeignRecordsKept` (`ForeignPreserved`) |
| `WorkerPoolProofs` | `WorkerPool` | `WidthKept` (`SlotsConserved`), `LeasesExclusive` (`LeasesAreExclusive`), `OwnAnswers` (`AnswersMatch`), `CloseLeavesNoWorker` (`NoWorkerOutlivesClose`) |
| `EngineProofs` | `Engine` on `RunStore` | `TeardownIsComplete` (`GroupGone`), `BlameIsDeserved` (`OwnDeath`), `ResultsHoldAllOutput` (`OutputComplete`), `EngineDrivesStore`, `CallsLeaveSoundRecords` (`FinalizedVerifies`, `ReceiptsTellDurableState`) |
| `ImportableJsonProofs` | `ImportableJson` | `ReaderMeetsReference` (`ReadsAsReference`), `ReaderStaysInBudget` (`BufferBounded`), `StopDecides` (`StopOutranksBody`), `LateCancelBars` (`NeverEntersLate`), `AnswersAreFinal` (`AnswerStands`, the safety half of `InterruptAnswers`), `ParsedIsReturned` (`ParsesWhatReturned`) |

Each module has one inductive invariant, and a lemma or step for each action that keeps it. None of
the properties is inductive alone; what each invariant adds, and why:

**Scheduler**, `IndInv`. It has two halves. `Structure` is shapes, and `Links`, which tie each queue and thread to the
history of the tickets: pending holds the queued tickets in order, ready the buffered ones each once under its owner, each
running ticket is in the hands of one thread, the next ticket is the first fresh one, and a thread has exited only
when the intake is closed and the queue is empty. `Counters` is `Accounting`, the lengths of the queues as
cardinalities, and `EveryJobHasAThread`. The links are needed because a counter changes by one where a set changes by
one element: only when the element is known to be new, or known to be there, do the two agree. `EveryJobHasAThread`
is needed for shutdown: with it, threads that have all exited imply an empty queue, and so that
`pending.clear()` loses nothing. `NoLostWakeup` and `ExpiryReachesEveryJob` are then inductive relative to `IndInv`. The
refinement maps every action to one action of the service or to a stutter.

**BatchRun** and **ExecutionPool** take the steps of `Scheduler`, so their first theorem is that they imply its
specification; everything proved of the scheduler is then theirs, and `IndInv` is a part of their invariants.
`BatchInv` adds where the driver stands: what it has found about its source (`Exhaustion`), why it stopped admitting
(`Demand`), that only a break closes the intake inside the loop, and that a job is released or lost only after
shutdown (`Histories`). `StreamsInv` adds for each stream what its place in the code says of its
local variables (`Place`), the books of a map_stream (`Books`: permits, the submission in hand and its jobs in the pool share the
width, and no submission pulled is unaccounted for) and `Informed`: what a stream has found out since it last cleared its wakeup
event still holds, or a wakeup is on its way. `NoStreamAsleep` is `Informed` at the wait; it has to be carried from the claim,
because the threads change the scheduler between the stream's look and its wait.

**RunStore**, `StoreInv`, under `~Overlapping`: a job is tried again only when the attempt before it has ended or its process
has died. Nothing in the code ensures it, and without it the properties fail: that is the finding
`store_overlap`. The theorems say what the store gives to retries that follow each other, and to records that prepare could read: the finding
`store_misread` is what happens to the others. `Allocating` is what an attempt inside prepare may rely on: it removes only what may be reclaimed
or is in `lost`, and publishes only where there is no manifest. `Recording` is the same from prepare on: the record is its own, and its
last publish comes after both sidecars. `Receipted` keeps the record of a finished attempt until a later one
may replace it, `Verified` is `FinalizedVerifies`, and `Unpublished` is the set of places where an attempt has no record yet. `ReclaimFacts` is what both decisions to reclaim share. Crashes and failing writes are steps like all others, so there is no separate recovery argument.

**WorkerPool**, `PoolInv`. `Residues` says that a worker which is idle, or leased and not yet asked, has nothing of any job in
its pipe, its payload or its result queue: that is what keeps the answer of a stopped job from the next one.
`Registry` says that whoever is to kill a process knows it: the registry, the list of close, or the job that
spawned or retired it. `SlotsConserved` and `NoWorkerOutlivesClose` are about a pool whose owner lives; after
`ParentDies` there is no pool.

**Engine**, `EngineInv`. `Stages`, `Threads` and `Settled` say what `pc` tells of the child and of the transport threads, on the returning
and on the raising path. `Causes` says that before the first signal an end is the child's own, which `OwnDeath` needs
because the outcome is computed long after. `Output` is the reason for `OutputComplete`: the
pump has kept what is to be kept of what it has read, and rests on the lemma `OfferKeeps`: offering a piece to what is retained of the
first bytes gives what is retained of the longer whole, for every head and tail, so the cuts do not matter.
Engine takes the steps of `RunStore` one by one, so `EngineSpec` implies `Spec` and the store's theorems hold of
the records of a call; it has one call, so it says nothing of several.

**ImportableJson**, `JsonInv`. For the reader, `Accepts` says that the frames taken so far are the right first frames of the stream and what
`prelude`, `completed` and `outputs` tell of them; `Bytes` relates what was received to the lengths of the frames
taken and of all that was written; `Judged` says which of four things a verdict means: the total was crossed,
the first frame not accepted is wrong, a torn frame is longer than the ceiling, or the payload ended and every frame was accepted. `ViolationIsExact` shows that
the checks of a frame, in the order of the code, amount to `Right`. The length of a stream is a recursive sum: its equations, its monotony and that it
depends on the counted frames only are proved from `LeastNatural` (a set of naturals that is not empty has a least
element), by looking at the least length for which they would fail. For the in-process call, `Stops`
says that a stop once in effect stays so until it is looked for, and `Barred` is the part of the state space in which the entry
point can no longer be entered; it is closed under every step.

Each inductive invariant was model-checked on the instance of its run before it was proved.

Model-checked only: the liveness properties (`EveryRequestAnswered`, `ClosingTerminates`, `SteadyStreamsEnd`, `CloseCompletes`,
`WatchedJobsComplete`, `CloseEndsEveryJob`, `OrphansEnd`, `StoppedCallReturns` and the first half of `InterruptAnswers`): fairness
and ENABLED are out of TLAPS's reach here. The five violations of the findings are shown by TLC.

## Not modelled

See `components` in `PROJECT.json`. In the modelled parts: cancellation of the task that iterates a
pool stream, entering a pool, a worker whose setpgid failed, pid reuse, the parsing of
manifests and of a worker's result frames, depth and byte ceilings of records, the numbers of
descriptors, measurements, the text of failures, and `forward_parent_signals`. Record models, identities, provenance, runtimes and capabilities are
data definitions, digests and one-shot I/O: they keep no state between calls, so there is nothing
for a model to interleave.

## Plan

1. `Engine`: the bootstrap and the payload as two processes in one, so that blame can be stated against the bootstrap's end.
2. `ExecutionPool`: cancellation of the task that iterates a stream.
3. Proofs: abstract specifications of a batch, of a map_stream and of a record, and that the detailed ones
   implement them; the safety part of the liveness arguments (from every state on the way an enabled step leads on).
