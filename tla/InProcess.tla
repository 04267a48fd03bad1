------------------------------ MODULE InProcess ------------------------------
(***************************************************************************)
(* ImportableJsonExecutor of execution/importable_json_executor.py: an      *)
(* entry point called in this process, on a daemon thread that a task of    *)
(* the event loop awaits (scheduling/offload.py).                           *)
(*                                                                          *)
(* The task, the thread, the deadline timer and whoever cancels the token   *)
(* interleave.  Nothing can stop the entry point: a stop is looked for      *)
(* before it is entered and after it is left.                               *)
(***************************************************************************)
CONSTANT Deadline   \* does the job declare a wall time

ASSUME DeadlineAssumption == Deadline \in BOOLEAN

VARIABLES
  task,     \* the awaiting task
  answer,   \* what the call returned
  worker,   \* the offloaded thread
  how,      \* how _invoke_importable_entry_point was left
  result,   \* what the thread computed
  future,   \* what was delivered to the task
  stamped,  \* the handoff holds the facts of the attempt
  timer,    \* the deadline timer
  token,    \* the cancel token
  entered,  \* has the entry point been called
  due       \* the stop in effect when the entry point was left

inVars == <<task, answer, worker, how, result, future, stamped, timer, token, entered, due>>

Started == {"cancelled", "wall_time", "exit_zero", "exit_one", "malformed", "value"}
Answers == Started \cup {"cancelled_unstarted", "raised"}

\* The state has its types.
InTypeOK ==
  /\ task \in {"calling", "awaiting", "interrupted", "returned"}
  /\ answer \in Answers \cup {"none", "interrupted", "interrupted_fresh"}
  /\ worker \in {"none", "validating", "arming", "looking", "looking2", "dispatching",
                 "entry", "leaving", "leaving2", "delivering", "ended"}
  /\ how \in {"none", "dispatch", "json", "other", "raised", "exit", "exit_zero", "interrupt"}
  /\ result \in Answers \cup {"none"}
  /\ future \in Answers \cup {"pending"}
  /\ timer \in {"none", "armed", "fired", "cancelled"}
  /\ {stamped, token, entered} \subseteq BOOLEAN
  /\ due \in {"none", "cancelled", "wall_time"}

InInit ==
  /\ task = "calling" /\ answer = "none"
  /\ worker = "none" /\ how = "none" /\ result = "none" /\ future = "pending"
  /\ stamped = FALSE /\ timer = "none" /\ token = FALSE /\ entered = FALSE
  /\ due = "none"

-----------------------------------------------------------------------------
(* run: the task on the event loop.                                         *)

Offload ==
  /\ task = "calling" /\ task' = "awaiting"
  /\ worker' = "validating"
  /\ UNCHANGED <<answer, how, result, future, stamped, timer, token, entered, due>>

Resume ==
  /\ task = "awaiting" /\ future # "pending"
  /\ task' = "returned"
  /\ answer' = future
  /\ UNCHANGED <<worker, how, result, future, stamped, timer, token, entered, due>>

\* The task is cancelled, before or after its future is done; the handler cancels
\* the token first.
Interrupt ==
  /\ task = "awaiting"
  /\ task' = "interrupted"
  /\ token' = TRUE
  /\ UNCHANGED <<answer, worker, how, result, future, stamped, timer, entered, due>>

\* Faulty variant: the interrupted call waits for its thread.
AnswerOnceEnded ==
  /\ task = "interrupted" /\ worker = "ended"
  /\ task' = "returned"
  /\ answer' = IF stamped THEN "interrupted" ELSE "interrupted_fresh"
  /\ UNCHANGED <<worker, how, result, future, stamped, timer, token, entered, due>>

\* A completion made of the facts in the handoff, or of fresh ones.
AnswerInterrupt ==
  /\ task = "interrupted"
  /\ task' = "returned"
  /\ answer' = IF stamped THEN "interrupted" ELSE "interrupted_fresh"
  /\ UNCHANGED <<worker, how, result, future, stamped, timer, token, entered, due>>

\* The caller's own token.
CancelToken ==
  /\ ~token /\ task # "returned"
  /\ token' = TRUE
  /\ UNCHANGED <<task, answer, worker, how, result, future, stamped, timer, entered, due>>

-----------------------------------------------------------------------------
(* _attempt_job: the thread.                                                *)

Moves(from, to) == worker = from /\ worker' = to

WorkerOnly == UNCHANGED <<task, answer, future, token>>

\* Left with the result r, through the finally that cancels the timer.
Concludes(from, r) ==
  /\ Moves(from, "delivering")
  /\ result' = r
  /\ timer' = IF timer = "armed" THEN "cancelled" ELSE timer

\* The declaration gate and the facts; a rejected job raises.
Validate ==
  /\ \/ Moves("validating", "arming") /\ stamped' = TRUE /\ UNCHANGED result
     \/ Moves("validating", "delivering") /\ result' = "raised" /\ UNCHANGED stamped
  /\ UNCHANGED <<how, timer, entered, due>> /\ WorkerOnly

Arm ==
  /\ Moves("arming", "looking")
  /\ timer' = IF Deadline THEN "armed" ELSE timer
  /\ UNCHANGED <<how, result, stamped, entered, due>> /\ WorkerOnly

\* on_deadline.
Fire ==
  /\ timer = "armed"
  /\ timer' = "fired"
  /\ UNCHANGED <<how, result, stamped, entered, due, worker>> /\ WorkerOnly

\* Faulty variant: only the deadline is looked at before the entry point.
LookIgnoringCancel ==
  /\ Moves("looking", "looking2") /\ UNCHANGED <<result, timer>>
  /\ UNCHANGED <<how, stamped, entered, due>> /\ WorkerOnly

\* _StopState.outcome before the call: the token, then the deadline.
LookAtToken ==
  /\ IF token THEN Concludes("looking", "cancelled_unstarted")
              ELSE Moves("looking", "looking2") /\ UNCHANGED <<result, timer>>
  /\ UNCHANGED <<how, stamped, entered, due>> /\ WorkerOnly

LookAtDeadline ==
  /\ IF timer = "fired" THEN Concludes("looking2", "wall_time")
                        ELSE Moves("looking2", "dispatching") /\ UNCHANGED <<result, timer>>
  /\ UNCHANGED <<how, stamped, entered, due>> /\ WorkerOnly

StopInEffect == IF token THEN "cancelled" ELSE IF timer = "fired" THEN "wall_time" ELSE "none"

\* A job the executor cannot dispatch is its own failure: no stop is looked for.
DispatchFails ==
  /\ Concludes("dispatching", "malformed")
  /\ how' = "dispatch"
  /\ UNCHANGED <<stamped, entered, due>> /\ WorkerOnly

\* The import may be left by an exception that is not an Exception.
ImportTerminates ==
  /\ Moves("dispatching", "leaving")
  /\ how' \in {"exit", "exit_zero", "interrupt"}
  /\ due' = StopInEffect
  /\ UNCHANGED <<result, stamped, timer, entered>> /\ WorkerOnly

Enter ==
  /\ Moves("dispatching", "entry")
  /\ entered' = TRUE
  /\ UNCHANGED <<how, result, stamped, timer, due>> /\ WorkerOnly

\* Strict JSON or not, an exception, SystemExit with a status, or KeyboardInterrupt.
Leave ==
  /\ Moves("entry", "leaving")
  /\ how' \in {"json", "other", "raised", "exit", "exit_zero", "interrupt"}
  /\ due' = StopInEffect
  /\ UNCHANGED <<result, stamped, timer, entered>> /\ WorkerOnly

\* What the body amounts to when nothing stopped it.
BodyResult ==
  CASE how = "json" -> "value"
    [] how = "other" -> "malformed"
    [] how = "exit_zero" -> "exit_zero"
    [] how \in {"raised", "exit", "interrupt"} -> "exit_one"

\* Faulty variant: a body that raised is reported before the stop is looked for.
LeaveLookingForStop ==
  /\ IF how \in {"raised", "interrupt"} THEN Concludes("leaving", BodyResult)
     ELSE IF token THEN Concludes("leaving", "cancelled")
     ELSE Moves("leaving", "leaving2") /\ UNCHANGED <<result, timer>>
  /\ UNCHANGED <<how, stamped, entered, due>> /\ WorkerOnly

\* The same two looks after the body; a KeyboardInterrupt skips them.
LeaveLooksAtToken ==
  /\ IF how = "interrupt" THEN Concludes("leaving", BodyResult)
     ELSE IF token THEN Concludes("leaving", "cancelled")
     ELSE Moves("leaving", "leaving2") /\ UNCHANGED <<result, timer>>
  /\ UNCHANGED <<how, stamped, entered, due>> /\ WorkerOnly

LeaveLooksAtDeadline ==
  /\ Concludes("leaving2", IF timer = "fired" THEN "wall_time" ELSE BodyResult)
  /\ UNCHANGED <<how, stamped, entered, due>> /\ WorkerOnly

\* _deliver_result and _deliver_exception, on the loop: a future that is done,
\* as the one of an interrupted task is, takes nothing more.
Deliver ==
  /\ Moves("delivering", "ended")
  /\ future' = IF task = "awaiting" THEN result ELSE future
  /\ UNCHANGED <<task, answer, how, result, stamped, timer, token, entered, due>>

Worker ==
  \/ Validate \/ Arm \/ LookAtToken \/ LookAtDeadline \/ DispatchFails \/ ImportTerminates
  \/ Enter \/ Leave \/ LeaveLooksAtToken \/ LeaveLooksAtDeadline \/ Deliver

TaskSteps == Offload \/ Resume \/ AnswerInterrupt

InNext == TaskSteps \/ Interrupt \/ CancelToken \/ Fire \/ Worker

-----------------------------------------------------------------------------
(* Properties.                                                              *)

\* A stop in effect when the entry point was left decides the result, whatever
\* the entry point did, and a cancel outranks the deadline; only what the
\* executor could not dispatch, and a KeyboardInterrupt, is reported as such.
StopOutranksBody ==
  result # "none" /\ how \notin {"dispatch", "interrupt"} =>
    /\ due = "cancelled" => result = "cancelled"
    /\ due = "wall_time" => result \in {"cancelled", "wall_time"}

BeforeLook == worker \in {"none", "validating", "arming", "looking"}

\* A token cancelled before the thread has looked at it, by the caller or by an
\* interrupt of the task, keeps the entry point from ever being called.
NeverEntersLate == [](token /\ BeforeLook => []~entered)

\* What a call has returned stands, and is not made of fresh facts once the entry
\* point was called: what the thread computes afterwards reaches nobody.
AnswerStands ==
  [][/\ answer # "none" => UNCHANGED answer
     /\ entered => answer' # "interrupted_fresh"]_inVars

\* An interrupted call returns even if its entry point never does, and its answer
\* stands.
InterruptAnswers ==
  /\ task = "interrupted" ~> answer \in {"interrupted", "interrupted_fresh"}
  /\ AnswerStands
=============================================================================
