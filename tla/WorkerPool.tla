----------------------------- MODULE WorkerPool -----------------------------
(***************************************************************************)
(* WorkerPoolImportableJsonExecutor of execution/worker_pool.py: jobs that  *)
(* lease long-lived worker processes from a fixed set of slots, the worker  *)
(* side of execution/worker_pool_worker.py, and the closing of the pool.    *)
(*                                                                          *)
(* A job is a call of run_blocking on a thread of its own; the slot queue,  *)
(* the registry of live workers and its lock are shared by those threads    *)
(* and the thread that closes the pool.  A worker is a process with a       *)
(* request pipe and a queue of result frames, which a reader thread ends    *)
(* with EOF once nobody holds the pipe's other end: not the process, and no *)
(* descendant its payload has left, which inherits both pipes.  Frames and  *)
(* requests are the jobs they are about.                                    *)
(***************************************************************************)
EXTENDS Naturals, Sequences, FiniteSets

CONSTANTS Job,
          Watched,    \* jobs with a cancel token or a finite wall time
          Forking,    \* jobs whose payload may leave a descendant
          Mortal,     \* may the process that owns the pool die
          Width,      \* the number of slots
          MaxSpawns,  \* bound on the worker processes ever spawned
          NoJob, NoWorker, Ready, Eof

ASSUME JobAssumption == Watched \cup Forking \subseteq Job /\ Mortal \in BOOLEAN
ASSUME WidthAssumption == Width \in Nat \ {0} /\ MaxSpawns \in Nat
ASSUME TokenAssumption ==
  /\ NoWorker \notin 1 .. MaxSpawns
  /\ {NoJob, Ready, Eof} \cap Job = {}
  /\ Cardinality({NoJob, Ready, Eof}) = 3

Worker == 1 .. MaxSpawns

VARIABLES
  slots,    \* the slot queue: an idle worker, or NoWorker for an empty slot
  live,     \* the registry of live workers
  closed,   \* the closed event
  lock,     \* who is inside `with self._lock` across a step
  at,       \* where each job stands
  mine,     \* the worker each job has leased
  outcome,  \* how each job completed
  answer,   \* the job whose result each job was handed
  spawned,  \* number of processes spawned
  proc,     \* what each process does
  serving,  \* the job it is running
  request,  \* the request in its pipe
  frames,   \* its result frames not yet received
  ready,    \* has its READY frame been received
  reader,   \* has its reader thread ended
  shut,     \* workers whose request pipe terminate has closed, after the join
  ran,      \* jobs whose payload was entered
  kin,      \* a descendant of the process that holds its two pipes: in its
            \* group, left in the group by a crashed leader, or in another session
  closer,   \* where close stands
  victims,  \* the workers close has yet to terminate
  drained   \* slots close has taken and not yet put back

jobVars == <<at, mine, outcome, answer>>
procVars == <<spawned, proc, serving, request, frames, ready, reader, shut, ran, kin>>
closeVars == <<closer, victims, drained>>
vars == <<slots, live, closed, lock, jobVars, procVars, closeVars>>

Alive(w) == proc[w] \in {"importing", "idle", "serving"}

Holding == {"leased", "readying", "sending", "receiving", "releasing", "parking",
            "retiring", "killing", "joining", "freeing", "registering", "scrapping"}

\* The state has its types, and a job past lease has a worker: an empty slot is
\* never leased.
TypeOK ==
  /\ slots \in Seq(Worker \cup {NoWorker})
  /\ live \subseteq Worker
  /\ closed \in BOOLEAN
  /\ lock \in Job \cup {NoJob}
  /\ at \in [Job -> {"idle", "leasing", "spawning", "done", "gone"} \cup Holding]
  /\ mine \in [Job -> Worker \cup {NoWorker}]
  /\ outcome \in [Job -> {"none", "answered", "death", "stopped", "closed",
                          "startup_failed", "spawn_failed", "raised"}]
  /\ answer \in [Job -> Job \cup {NoJob}]
  /\ spawned \in 0 .. MaxSpawns
  /\ proc \in [Worker -> {"unborn", "importing", "idle", "serving", "exited"}]
  /\ serving \in [Worker -> Job \cup {NoJob}]
  /\ request \in [Worker -> Job \cup {NoJob}]
  /\ frames \in [Worker -> Seq(Job \cup {Ready, Eof})]
  /\ ready \in [Worker -> BOOLEAN]
  /\ reader \in [Worker -> BOOLEAN]
  /\ shut \subseteq Worker
  /\ ran \subseteq Job
  /\ kin \in [Worker -> {"none", "group", "left", "escaped"}]
  /\ closer \in {"open", "snapshotting", "terminating", "draining", "closed", "gone"}
  /\ victims \in Seq(Worker)
  /\ drained \in Seq(Worker \cup {NoWorker})
  /\ \A j \in Job : at[j] \in Holding => mine[j] \in Worker

Init ==
  /\ slots = [i \in 1 .. Width |-> NoWorker]
  /\ live = {}
  /\ closed = FALSE
  /\ lock = NoJob
  /\ at = [j \in Job |-> "idle"]
  /\ mine = [j \in Job |-> NoWorker]
  /\ outcome = [j \in Job |-> "none"]
  /\ answer = [j \in Job |-> NoJob]
  /\ spawned = 0
  /\ proc = [w \in Worker |-> "unborn"]
  /\ serving = [w \in Worker |-> NoJob]
  /\ request = [w \in Worker |-> NoJob]
  /\ frames = [w \in Worker |-> <<>>]
  /\ ready = [w \in Worker |-> FALSE]
  /\ reader = [w \in Worker |-> FALSE]
  /\ shut = {}
  /\ ran = {}
  /\ kin = [w \in Worker |-> "none"]
  /\ closer = "open"
  /\ victims = <<>>
  /\ drained = <<>>

-----------------------------------------------------------------------------
(* Helpers.                                                                 *)

Moves(j, from, to) == at[j] = from /\ at' = [at EXCEPT ![j] = to]

\* A job completes, or decides the outcome it completes with after its lease.
Outcome(j, o) == outcome' = [outcome EXCEPT ![j] = o]

\* What is left of a descendant when its group is killed.
Escaped(k) == IF k = "escaped" THEN k ELSE "none"

\* SIGKILL to the group, the wait for the process, and SIGKILL again to what a
\* process that had ended before has left in the group.
Kill(w) ==
  /\ kin' = [kin EXCEPT ![w] = Escaped(@)]
  /\ proc' = [proc EXCEPT ![w] = "exited"]
  /\ serving' = [serving EXCEPT ![w] = NoJob]
  /\ UNCHANGED <<spawned, request, frames, ready, reader, shut, ran>>

\* The end of terminate: the reader thread is joined and the request pipe closed.
Joins(w) ==
  /\ reader[w]
  /\ shut' = shut \cup {w}
  /\ UNCHANGED <<spawned, proc, serving, request, frames, ready, reader, ran, kin>>

\* terminate has something to kill: the process, or what it has left.
Killable(w) == Alive(w) \/ kin[w] \in {"group", "left"}

\* Faulty variant: the stop condition is looked at only once an item arrives.
StopsAfterItem(j, queue) == j \in Watched /\ queue # <<>>

\* _get_watched gives up: the timed get found the queue empty, and the stop
\* condition held.  What arrives between the two stays in the queue.
Stops(j, queue) == j \in Watched /\ queue = <<>>

-----------------------------------------------------------------------------
(* _WorkerSet.lease.                                                        *)

\* run_blocking reaches lease; a closed pool refuses.
Begin(j) ==
  /\ IF closed THEN Moves(j, "idle", "done") /\ Outcome(j, "closed")
               ELSE Moves(j, "idle", "leasing") /\ UNCHANGED outcome
  /\ UNCHANGED <<slots, live, closed, lock, mine, answer, procVars, closeVars>>

\* The caller's token was cancelled before the call.
AlreadyCancelled(j) ==
  /\ j \in Watched
  /\ Moves(j, "idle", "done")
  /\ Outcome(j, "stopped")
  /\ UNCHANGED <<slots, live, closed, lock, mine, answer, procVars, closeVars>>

TakeSlot(j) ==
  /\ slots # <<>>
  /\ Moves(j, "leasing", IF Head(slots) = NoWorker THEN "spawning" ELSE "leased")
  /\ mine' = [mine EXCEPT ![j] = Head(slots)]
  /\ slots' = Tail(slots)
  /\ UNCHANGED <<live, closed, lock, outcome, answer, procVars, closeVars>>

StopLeasing(j) ==
  /\ Moves(j, "leasing", "done")
  /\ Stops(j, slots)
  /\ Outcome(j, "stopped")
  /\ UNCHANGED <<slots, live, closed, lock, mine, answer, procVars, closeVars>>

\* An idle worker was taken; if the pool closed meanwhile it is retired.
LeaseIdle(j) ==
  /\ IF closed THEN Moves(j, "leased", "retiring") /\ Outcome(j, "closed")
               ELSE Moves(j, "leased", "readying") /\ UNCHANGED outcome
  /\ UNCHANGED <<slots, live, closed, lock, mine, answer, procVars, closeVars>>

SpawnWorker(j) ==
  /\ Moves(j, "spawning", "registering")
  /\ spawned < MaxSpawns
  /\ spawned' = spawned + 1
  /\ mine' = [mine EXCEPT ![j] = spawned + 1]
  /\ proc' = [proc EXCEPT ![spawned + 1] = "importing"]
  /\ UNCHANGED <<slots, live, closed, lock, outcome, answer, serving, request,
                 frames, ready, reader, shut, ran, kin, closeVars>>

\* Faulty variant: the slot of a failed spawn is not given back.
SpawnFailsLeaking(j) ==
  /\ Moves(j, "spawning", "done")
  /\ Outcome(j, "spawn_failed")
  /\ UNCHANGED <<slots, live, closed, lock, mine, answer, procVars, closeVars>>

SpawnFails(j) ==
  /\ Moves(j, "spawning", "done")
  /\ Outcome(j, "spawn_failed")
  /\ slots' = Append(slots, NoWorker)
  /\ UNCHANGED <<live, closed, lock, mine, answer, procVars, closeVars>>

\* Faulty variant: the worker is registered without a second look at closed.
RegisterUnchecked(j) ==
  /\ Moves(j, "registering", "readying")
  /\ lock = NoJob
  /\ live' = live \cup {mine[j]}
  /\ UNCHANGED <<slots, closed, lock, mine, outcome, answer, procVars, closeVars>>

\* Registered under the lock close snapshots under, or terminated there.
Register(j) ==
  /\ lock = NoJob
  /\ IF closed
     THEN /\ Moves(j, "registering", "scrapping")
          /\ Outcome(j, "closed")
          /\ lock' = j
          /\ Kill(mine[j])
          /\ UNCHANGED live
     ELSE /\ Moves(j, "registering", "readying")
          /\ live' = live \cup {mine[j]}
          /\ UNCHANGED <<outcome, lock, procVars>>
  /\ UNCHANGED <<slots, closed, mine, answer, closeVars>>

Scrap(j) ==
  /\ Moves(j, "scrapping", "done")
  /\ Joins(mine[j])
  /\ lock' = NoJob
  /\ slots' = Append(slots, NoWorker)
  /\ mine' = [mine EXCEPT ![j] = NoWorker]
  /\ UNCHANGED <<live, closed, outcome, answer, closeVars>>

-----------------------------------------------------------------------------
(* wait_for_ready and _exchange.                                            *)

\* The next frame of the leased worker.
HasFrame(j, f) == frames[mine[j]] # <<>> /\ Head(frames[mine[j]]) = f

TakesFrame(j) ==
  /\ frames' = [frames EXCEPT ![mine[j]] = Tail(@)]
  /\ UNCHANGED <<spawned, proc, serving, request, reader, shut, ran, kin>>

AwaitReady(j) ==
  \/ /\ Moves(j, "readying", "sending")
     /\ ready[mine[j]]
     /\ UNCHANGED <<slots, live, closed, lock, mine, outcome, answer, procVars, closeVars>>
  \/ /\ Moves(j, "readying", "sending")
     /\ ~ready[mine[j]] /\ HasFrame(j, Ready)
     /\ TakesFrame(j)
     /\ ready' = [ready EXCEPT ![mine[j]] = TRUE]
     /\ UNCHANGED <<slots, live, closed, lock, mine, outcome, answer, closeVars>>

StartupFails(j) ==
  /\ Moves(j, "readying", "retiring")
  /\ ~ready[mine[j]] /\ HasFrame(j, Eof)
  /\ Outcome(j, "startup_failed")
  /\ TakesFrame(j)
  /\ UNCHANGED <<slots, live, closed, lock, mine, answer, ready, closeVars>>

StopReadying(j) ==
  /\ Moves(j, "readying", "retiring")
  /\ ~ready[mine[j]] /\ Stops(j, frames[mine[j]])
  /\ Outcome(j, "stopped")
  /\ UNCHANGED <<slots, live, closed, lock, mine, answer, procVars, closeVars>>

Writes(j) ==
  /\ Moves(j, "sending", "receiving")
  /\ request' = [request EXCEPT ![mine[j]] = j]
  /\ UNCHANGED <<slots, live, closed, lock, mine, outcome, answer, spawned, proc,
                 serving, frames, ready, reader, shut, ran, kin, closeVars>>

Send(j) == Writes(j) /\ Alive(mine[j])

\* The worker has died and only a descendant still holds the request pipe.  The
\* write succeeds if the request fits the pipe, and else blocks: this step is
\* never taken, and the job is held in send.
Unread(j) ==
  /\ at[j] = "sending" /\ mine[j] \notin shut
  /\ ~Alive(mine[j]) /\ kin[mine[j]] # "none"
SendUnread(j) == Unread(j) /\ Writes(j)

\* The request pipe is broken: the worker is reported as having died.
SendFails(j) ==
  /\ Moves(j, "sending", "retiring")
  /\ mine[j] \notin shut
  /\ ~Alive(mine[j]) /\ kin[mine[j]] = "none"
  /\ Outcome(j, "death")
  /\ UNCHANGED <<slots, live, closed, lock, mine, answer, procVars, closeVars>>

\* close has terminated the worker and closed its request pipe.  The write raises
\* a ValueError that nothing catches; it leaves run_blocking once the lease,
\* which nobody discarded, is released.
SendRaises(j) ==
  /\ Moves(j, "sending", "releasing")
  /\ mine[j] \in shut
  /\ Outcome(j, "raised")
  /\ UNCHANGED <<slots, live, closed, lock, mine, answer, procVars, closeVars>>

ReceiveResult(j) ==
  /\ Moves(j, "receiving", "releasing")
  /\ \E k \in Job : /\ HasFrame(j, k)
                    /\ answer' = [answer EXCEPT ![j] = k]
  /\ Outcome(j, "answered")
  /\ TakesFrame(j)
  /\ UNCHANGED <<slots, live, closed, lock, mine, ready, closeVars>>

ReceiveDeath(j) ==
  /\ Moves(j, "receiving", "retiring")
  /\ HasFrame(j, Eof)
  /\ Outcome(j, "death")
  /\ TakesFrame(j)
  /\ UNCHANGED <<slots, live, closed, lock, mine, answer, ready, closeVars>>

\* Faulty variant: the lease of a stopped job is released, not discarded.
StopReceivingReleasing(j) ==
  /\ Moves(j, "receiving", "releasing")
  /\ Stops(j, frames[mine[j]])
  /\ Outcome(j, "stopped")
  /\ UNCHANGED <<slots, live, closed, lock, mine, answer, procVars, closeVars>>

StopReceiving(j) ==
  /\ Moves(j, "receiving", "retiring")
  /\ Stops(j, frames[mine[j]])
  /\ Outcome(j, "stopped")
  /\ UNCHANGED <<slots, live, closed, lock, mine, answer, procVars, closeVars>>

-----------------------------------------------------------------------------
(* The end of a lease: release, or retire_and_free.                         *)

Release(j) ==
  /\ Moves(j, "releasing", IF closed THEN "retiring" ELSE "parking")
  /\ UNCHANGED <<slots, live, closed, lock, mine, outcome, answer, procVars, closeVars>>

\* Faulty variant: an idle worker put back is then retired as well.
ParkFallsThrough(j) ==
  /\ Moves(j, "parking", "retiring")
  /\ slots' = Append(slots, mine[j])
  /\ UNCHANGED <<live, closed, lock, mine, outcome, answer, procVars, closeVars>>

Park(j) ==
  /\ Moves(j, "parking", "done")
  /\ slots' = Append(slots, mine[j])
  /\ mine' = [mine EXCEPT ![j] = NoWorker]
  /\ UNCHANGED <<live, closed, lock, outcome, answer, procVars, closeVars>>

\* Only who finds the worker registered terminates it.
Retire(j) ==
  /\ Moves(j, "retiring", IF mine[j] \in live THEN "killing" ELSE "freeing")
  /\ lock = NoJob
  /\ live' = live \ {mine[j]}
  /\ UNCHANGED <<slots, closed, lock, mine, outcome, answer, procVars, closeVars>>

RetireKills(j) ==
  /\ Moves(j, "killing", "joining")
  /\ Kill(mine[j])
  /\ UNCHANGED <<slots, live, closed, lock, mine, outcome, answer, closeVars>>

RetireJoins(j) ==
  /\ Moves(j, "joining", "freeing")
  /\ Joins(mine[j])
  /\ UNCHANGED <<slots, live, closed, lock, mine, outcome, answer, closeVars>>

Free(j) ==
  /\ Moves(j, "freeing", "done")
  /\ slots' = Append(slots, NoWorker)
  /\ mine' = [mine EXCEPT ![j] = NoWorker]
  /\ UNCHANGED <<live, closed, lock, outcome, answer, procVars, closeVars>>

-----------------------------------------------------------------------------
(* close.  A second call returns at once and changes nothing.               *)

CloseBegins ==
  /\ closer = "open"
  /\ closed' = TRUE
  /\ closer' = "snapshotting"
  /\ UNCHANGED <<slots, live, lock, jobVars, procVars, victims, drained>>

\* The orders in which iterating over a set may visit it.
Orders(S) == {o \in [1 .. Cardinality(S) -> S] : \A x \in S : \E i \in DOMAIN o : o[i] = x}

CloseSnapshots ==
  /\ closer = "snapshotting"
  /\ lock = NoJob
  /\ victims' \in Orders(live)
  /\ live' = {}
  /\ closer' = "terminating"
  /\ UNCHANGED <<slots, closed, lock, jobVars, procVars, drained>>

\* Faulty variant: a worker that is running a payload is waited for.
CloseKillsIdle ==
  /\ closer = "terminating" /\ victims # <<>>
  /\ proc[Head(victims)] \in {"importing", "idle"} /\ Kill(Head(victims))
  /\ UNCHANGED <<slots, live, closed, lock, jobVars, closeVars>>

CloseKills ==
  /\ closer = "terminating" /\ victims # <<>>
  /\ Killable(Head(victims)) /\ Kill(Head(victims))
  /\ UNCHANGED <<slots, live, closed, lock, jobVars, closeVars>>

CloseJoins ==
  /\ closer = "terminating" /\ victims # <<>>
  /\ ~Killable(Head(victims)) /\ Joins(Head(victims))
  /\ victims' = Tail(victims)
  /\ UNCHANGED <<slots, live, closed, lock, jobVars, closer, drained>>

CloseDrains ==
  /\ closer = "terminating" /\ victims = <<>>
  /\ IF slots = <<>>
     THEN closer' = "draining" /\ UNCHANGED <<slots, drained>>
     ELSE /\ drained' = Append(drained, Head(slots))
          /\ slots' = Tail(slots)
          /\ UNCHANGED closer
  /\ UNCHANGED <<live, closed, lock, jobVars, procVars, victims>>

\* Faulty variant: the drained slots are not put back.
CloseKeepsSlots ==
  /\ closer = "draining" /\ drained # <<>>
  /\ drained' = Tail(drained)
  /\ UNCHANGED <<slots, live, closed, lock, jobVars, procVars, closer, victims>>

\* Each drained slot is put back empty, its worker terminated if there is one.
CloseRefills ==
  /\ closer = "draining" /\ drained # <<>>
  /\ LET w == Head(drained)
     IN  IF w # NoWorker /\ Killable(w)
         THEN Kill(w) /\ UNCHANGED <<slots, drained>>
         ELSE /\ IF w # NoWorker THEN Joins(w) ELSE UNCHANGED procVars
              /\ slots' = Append(slots, NoWorker)
              /\ drained' = Tail(drained)
  /\ UNCHANGED <<live, closed, lock, jobVars, closer, victims>>

CloseEnds ==
  /\ closer = "draining"
  /\ drained = <<>>
  /\ closer' = "closed"
  /\ UNCHANGED <<slots, live, closed, lock, jobVars, procVars, victims, drained>>

-----------------------------------------------------------------------------
(* The worker process: main and _serve; and the parent's reader thread.     *)

ParentUntouched == UNCHANGED <<slots, live, closed, lock, jobVars, spawned, ready, shut, closeVars>>

\* A startup import that fails unwinds through the group kill of main.
ImportEnds(w) ==
  /\ proc[w] = "importing"
  /\ \/ proc' = [proc EXCEPT ![w] = "idle"] /\ frames' = [frames EXCEPT ![w] = Append(@, Ready)]
     \/ proc' = [proc EXCEPT ![w] = "exited"] /\ UNCHANGED frames
  /\ UNCHANGED <<serving, request, reader, ran, kin>> /\ ParentUntouched

Serve(w) ==
  /\ proc[w] = "idle" /\ request[w] # NoJob
  /\ proc' = [proc EXCEPT ![w] = "serving"]
  /\ serving' = [serving EXCEPT ![w] = request[w]]
  /\ request' = [request EXCEPT ![w] = NoJob]
  /\ ran' = ran \cup {request[w]}
  /\ UNCHANGED <<frames, reader, kin>> /\ ParentUntouched

\* A result, a payload failure or a rejection: one frame for the request.
Answer(w) ==
  /\ proc[w] = "serving"
  /\ proc' = [proc EXCEPT ![w] = "idle"]
  /\ serving' = [serving EXCEPT ![w] = NoJob]
  /\ frames' = [frames EXCEPT ![w] = Append(@, serving[w])]
  /\ UNCHANGED <<request, reader, ran, kin>> /\ ParentUntouched

\* The payload forks; what it forked may leave the session, or end.
KinMoves(w) ==
  /\ \/ proc[w] = "serving" /\ serving[w] \in Forking /\ kin[w] = "none"
        /\ kin' = [kin EXCEPT ![w] = "group"]
     \/ kin[w] = "group" /\ kin' = [kin EXCEPT ![w] = "escaped"]
     \/ kin[w] # "none" /\ kin' = [kin EXCEPT ![w] = "none"]
  /\ UNCHANGED <<proc, serving, request, frames, reader, ran>> /\ ParentUntouched

\* The payload ends the process, or something outside kills an idle worker.  An
\* exit that unwinds kills the group; a crash or os._exit leaves it.
Dies(w) ==
  /\ proc[w] \in {"idle", "serving"}
  /\ proc' = [proc EXCEPT ![w] = "exited"]
  /\ serving' = [serving EXCEPT ![w] = NoJob]
  /\ kin' \in {[kin EXCEPT ![w] = Escaped(@)],
               [kin EXCEPT ![w] = IF @ = "group" THEN "left" ELSE @]}
  /\ UNCHANGED <<frames, request, reader, ran>> /\ ParentUntouched

\* _drain_frames reaches the end of the pipe: nobody holds it any more.
ReaderEnds(w) ==
  /\ proc[w] = "exited" /\ kin[w] = "none" /\ ~reader[w]
  /\ closer # "gone"
  /\ reader' = [reader EXCEPT ![w] = TRUE]
  /\ frames' = [frames EXCEPT ![w] = Append(@, Eof)]
  /\ UNCHANGED <<proc, serving, request, ran, kin>> /\ ParentUntouched

-----------------------------------------------------------------------------
(* The process that owns the pool dies; its workers find out.               *)

\* Everything the parent knew is gone; what it wrote to a pipe is still there.
ParentDies ==
  /\ Mortal /\ closer # "gone"
  /\ closer' = "gone"
  /\ at' = [j \in Job |-> "gone"]
  /\ slots' = <<>> /\ live' = {} /\ closed' = FALSE /\ lock' = NoJob
  /\ mine' = [j \in Job |-> NoWorker]
  /\ outcome' = [j \in Job |-> "none"] /\ answer' = [j \in Job |-> NoJob]
  /\ frames' = [w \in Worker |-> <<>>]
  /\ ready' = [w \in Worker |-> FALSE] /\ reader' = [w \in Worker |-> FALSE]
  /\ shut' = {}
  /\ victims' = <<>> /\ drained' = <<>>
  /\ UNCHANGED <<spawned, proc, serving, request, ran, kin>>

\* Faulty variant: an orphan notices only when it reads the request pipe.
OrphanEndsIdle(w) ==
  /\ closer = "gone" /\ proc[w] = "idle" /\ request[w] = NoJob
  /\ Kill(w)
  /\ UNCHANGED <<slots, live, closed, lock, jobVars, closeVars>>

\* The watchdog sees another parent, or an idle worker the end of its request
\* pipe: the worker kills its group, itself included.
OrphanEnds(w) ==
  /\ closer = "gone" /\ Alive(w)
  /\ Kill(w)
  /\ UNCHANGED <<slots, live, closed, lock, jobVars, closeVars>>

-----------------------------------------------------------------------------
JobAdvances(j) ==
  \/ TakeSlot(j) \/ LeaseIdle(j) \/ SpawnWorker(j) \/ SpawnFails(j) \/ Register(j)
  \/ Scrap(j) \/ AwaitReady(j) \/ StartupFails(j) \/ Send(j) \/ SendFails(j)
  \/ SendRaises(j) \/ ReceiveResult(j) \/ ReceiveDeath(j) \/ Release(j) \/ Park(j) \/ Retire(j)
  \/ RetireKills(j) \/ RetireJoins(j) \/ Free(j)

JobStops(j) == StopLeasing(j) \/ StopReadying(j) \/ StopReceiving(j)

CloseAdvances ==
  CloseSnapshots \/ CloseKills \/ CloseJoins \/ CloseDrains \/ CloseRefills \/ CloseEnds

ProcessSteps(w) == ImportEnds(w) \/ Serve(w) \/ Answer(w) \/ Dies(w) \/ KinMoves(w)

Next ==
  \/ \E j \in Job : Begin(j) \/ AlreadyCancelled(j) \/ JobAdvances(j) \/ SendUnread(j)
                    \/ JobStops(j)
  \/ CloseBegins \/ CloseAdvances
  \/ \E w \in Worker : ProcessSteps(w) \/ ReaderEnds(w) \/ OrphanEnds(w)
  \/ ParentDies

\* The parent's threads are scheduled and a declared stop condition fires; a
\* write that nobody reads need not return.
\* Nothing is assumed of the worker processes: an import or a payload may run
\* for ever, a descendant stay, and nobody need close the pool.  But an orphan's
\* watchdog thread is scheduled.
Fairness ==
  /\ \A j \in Job : WF_vars(JobAdvances(j)) /\ WF_vars(JobStops(j))
  /\ WF_vars(CloseAdvances)
  /\ \A w \in Worker : WF_vars(ReaderEnds(w)) /\ WF_vars(OrphanEnds(w))

Spec == Init /\ [][Next]_vars /\ Fairness

-----------------------------------------------------------------------------
(* Properties.                                                              *)

Holders == {j \in Job : at[j] \in Holding \cup {"spawning"}}

\* Every way a lease can end gives its slot back: the pool keeps its width for as
\* long as there is a pool.
SlotsConserved ==
  closer # "gone" => Len(slots) + Cardinality(Holders) + Len(drained) = Width

\* A worker is leased by one job, or idle in one slot, never both.
LeasesAreExclusive ==
  /\ \A j, k \in Job : j # k /\ mine[j] = mine[k] => mine[j] = NoWorker
  /\ \A j \in Job, i \in 1 .. Len(slots) : slots[i] = mine[j] => mine[j] = NoWorker
  /\ \A h, i \in 1 .. Len(slots) : h # i /\ slots[h] = slots[i] => slots[i] = NoWorker

\* A job is answered with its own result, never with a late one of the job
\* that had the worker before it.
AnswersMatch == \A j \in Job : answer[j] \in {NoJob, j}

\* After close returns a worker process runs only while the job that spawned or
\* retired it is about to kill it.
NoWorkerOutlivesClose ==
  closer = "closed" =>
    \A w \in Worker : Alive(w) =>
      \E j \in Job : mine[j] = w /\ at[j] \in {"registering", "killing"}

\* Somebody outside the group of worker w holds its pipes.
HeldOutside(w) == kin[w] = "escaped"

\* A job that declared a stop condition completes, whatever the others hold.  In
\* this and in the next two, what may prevent it is a descendant that left the
\* worker's group and keeps for ever the pipe that terminate waits for; here also
\* a write to a dead worker that a descendant keeps from breaking, since send
\* does not look at the stop condition.
WatchedJobsComplete ==
  \A j \in Watched :
    \/ at[j] = "leasing" ~> at[j] \in {"done", "gone"}
    \/ <>[]Unread(j)
    \/ \E w \in Worker : <>[]HeldOutside(w)

\* Closing never waits for a job ...
CloseCompletes ==
  \/ closer = "snapshotting" ~> closer \in {"closed", "gone"}
  \/ \E w \in Worker : <>[]HeldOutside(w)

\* ... and ends every job in flight, those whose payload never returns included.
CloseEndsEveryJob ==
  \A j \in Job :
    \/ closed /\ at[j] # "idle" ~> at[j] \in {"done", "gone"}
    \/ \E w \in Worker : <>[]HeldOutside(w)

\* No worker outlives the process that owned it, inside a payload or an import
\* that never ends included; nor, unless it crashed, does anything in its group.
OrphansEnd == closer = "gone" ~> \A w \in Worker : ~Alive(w) /\ kin[w] # "group"

\* The worker-pool contract: a worker that dies under a job fails it at once, and
\* no job is left waiting on a dead pipe; only a descendant in another session
\* may survive.
NoJobWaitsOnADeadPipe ==
  \A j \in Job, w \in Worker :
    \/ at[j] \in {"sending", "receiving"} /\ mine[j] = w /\ ~Alive(w) ~>
         at[j] \notin {"sending", "receiving"}
    \/ <>[]HeldOutside(w)

\* A death is blamed on the payload only if the payload was entered.
DeathBlamesTheRunningJob == \A j \in Job : outcome[j] = "death" => j \in ran
=============================================================================
