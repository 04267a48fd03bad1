------------------------------- MODULE Engine -------------------------------
(***************************************************************************)
(* One call of run_execution of execution/engine.py, from the prepared      *)
(* record to the returned result: the calling thread, the child process it  *)
(* spawns (execution/spawn.py), a descendant of that child, and the         *)
(* transport threads that feed its stdin, drain its output and read its     *)
(* protocol.  The record is RunStore's, whose actions this module takes as  *)
(* steps of the calling thread.                                             *)
(*                                                                          *)
(* The child is not trusted: it may end at any point, ignore SIGTERM, fork, *)
(* leave its session, and keep or drop the pipes it inherited.  Output is   *)
(* counted in bytes; the protocol stream is reduced to how far it got.      *)
(***************************************************************************)
EXTENDS RunStore, Retention, FiniteSets

CONSTANTS This,      \* the attempt this call makes
          Calls      \* pairs of a declaration and the executor's self budgets

Stream == {"stdout", "stderr"}

JobType == [protocol : BOOLEAN,   \* a target that speaks the protocol
            wall : BOOLEAN,       \* a finite wall time
            output : BOOLEAN,     \* a finite output budget ...
            fails : BOOLEAN,      \* ... whose overflow policy is FAIL
            keep : [Stream -> [head : Nat, tail : Nat]],
            input : BOOLEAN,      \* is there anything to feed to stdin
            most : [Stream -> Nat]]  \* bound on the bytes of each stream

\* ExecutorSelfBudgets: which of its times are finite.
BudgetType == [startup : BOOLEAN, grace : BOOLEAN, join : BOOLEAN]

ASSUME EngineAssumption ==
  /\ This \in Attempt
  /\ Calls \subseteq JobType \X BudgetType

VARIABLES
  job, budgets,  \* chosen once
  pc,            \* the calling thread
  raised,        \* an exception is escaping
  stop,          \* the stop reason of _await_child
  leads,         \* does teardown signal the group
  outcome,       \* the outcome of the result
  leader,        \* the child: the bootstrap, then the payload it execs
  death,         \* how the child ended
  status,        \* the stage it wrote to the status pipe
  kin,           \* a descendant of the payload
  wrote,         \* bytes written to each stream
  said,          \* how far the child has written its protocol stream
  retention,     \* what the pump has kept of each stream
  overflow,      \* the overflow event
  pumped,        \* how far the pump has forwarded the protocol stream
  verdict,       \* the protocol result
  thread,        \* the transport threads
  released,      \* the release pipe is readable
  cancelled,     \* the cancel token
  expired        \* the wall time has passed

mainVars == <<pc, raised, stop, leads, outcome>>
childVars == <<leader, death, status, kin, wrote, said>>
pumpVars == <<retention, overflow, pumped>>
flagVars == <<cancelled, expired>>
engineVars == <<job, budgets, mainVars, childVars, pumpVars, verdict, thread,
                released, flagVars>>
engineAll == <<vars, engineVars>>

Worker == {"feeder", "pump", "reader"}
Said == {"nothing", "part", "complete", "bad"}
Setup == {"none", "session", "chdir", "descriptors", "exec", "absent"}
Awaiting == {"await", "flags", "deadline"}
TearingDown == {"term_leader", "grace", "kill_group", "kill_leader", "reap", "probe"}
PC == {"preparing", "spawning", "status", "feeder", "pump", "reader", "marking",
       "term_group", "joining", "finalizing", "closing", "ending", "ended"}
      \cup Awaiting \cup TearingDown

\* The engine's state has its types.
EngineTypeOK ==
  /\ TypeOK
  /\ <<job, budgets>> \in Calls
  /\ pc \in PC
  /\ raised \in BOOLEAN /\ leads \in BOOLEAN
  /\ stop \in {"none", "overflow", "cancelled", "wall_time"}
  /\ outcome \in {"none", "cancelled_unstarted", "spawn_absent", "spawn_failed",
                  "payload_output", "wall_time", "cancelled", "protocol_failed",
                  "exited", "signaled"}
  /\ leader \in {"none", "boot", "session", "payload", "zombie", "reaped"}
  /\ death \in [how : {"none", "exited", "signaled"}, own : BOOLEAN]
  /\ status \in Setup
  /\ kin \in {"none", "group", "quiet", "escaped", "gone"}
  /\ wrote \in [Stream -> Nat]
  /\ said \in Said /\ pumped \in Said
  /\ DOMAIN retention = Stream
  /\ overflow \in BOOLEAN
  /\ verdict \in {"none", "ok", "failed"}
  /\ thread \in [Worker -> {"unstarted", "running", "ended", "failed"}]
  /\ released \in BOOLEAN /\ cancelled \in BOOLEAN /\ expired \in BOOLEAN

EngineInit ==
  /\ Init
  /\ \E c \in Calls : job = c[1] /\ budgets = c[2]
  /\ pc = "preparing" /\ raised = FALSE /\ stop = "none" /\ leads = TRUE
  /\ outcome = "none"
  /\ leader = "none" /\ death = [how |-> "none", own |-> FALSE]
  /\ status = "none" /\ kin = "none"
  /\ wrote = [s \in Stream |-> 0] /\ said = "nothing"
  /\ retention = [s \in Stream |-> Fresh] /\ overflow = FALSE
  /\ pumped = "nothing" /\ verdict = "none"
  /\ thread = [t \in Worker |-> "unstarted"]
  /\ released = FALSE /\ cancelled = FALSE /\ expired = FALSE

-----------------------------------------------------------------------------
(* Helpers.                                                                 *)

Goes(from, to) == pc = from /\ pc' = to

\* The calling thread moves and touches nothing but its own variables.
MainOnly == UNCHANGED <<vars, job, budgets, childVars, pumpVars, verdict, thread,
                        released, flagVars>>
StoreOnly == UNCHANGED <<job, budgets, childVars, pumpVars, verdict, thread,
                         released, flagVars>>

Alive == leader \in {"boot", "session", "payload"}
InGroup == kin \in {"group", "quiet"}

\* Somebody holds the child's ends of the pipes: no reader sees EOF.
Held == Alive \/ kin \in {"group", "escaped"}

Running(t) == thread[t] = "running"
Failed == \E t \in Worker : thread[t] = "failed"

Budget(s) == IF job.output THEN job.keep[s] ELSE Unbudgeted

\* FiniteOutput.max_bytes: its validator makes it what the streams may keep.
MaxBytes == job.keep["stdout"].head + job.keep["stdout"].tail
            + job.keep["stderr"].head + job.keep["stderr"].tail

Overflowed(kept) ==
  job.output /\ kept["stdout"].produced + kept["stderr"].produced > MaxBytes

-----------------------------------------------------------------------------
(* run: prepare, the one look at the token, _run_spawned.                   *)

Preparing ==
  /\ pc = "preparing"
  /\ Begin(This) \/ Prepare(This)
  /\ UNCHANGED engineVars

PrepareFails ==
  /\ at[This] \in {"failed", "refused"}
  /\ Goes("preparing", "ended")
  /\ raised' = TRUE
  /\ UNCHANGED <<stop, leads, outcome>> /\ MainOnly

\* _finalize_pre_spawn, or on to the spawn.
LookBeforeSpawn ==
  /\ at[This] = "prepared"
  /\ IF cancelled
     THEN /\ Goes("preparing", "finalizing")
          /\ outcome' = "cancelled_unstarted"
          /\ NothingRan(This)
     ELSE /\ Goes("preparing", "spawning")
          /\ UNCHANGED <<vars, outcome>>
  /\ UNCHANGED <<raised, stop, leads>> /\ StoreOnly

Launch ==
  /\ Goes("spawning", "status")
  /\ leader' = "boot"
  /\ UNCHANGED <<vars, job, budgets, raised, stop, leads, outcome, death, status, kin,
                 wrote, said, pumpVars, verdict, thread, released, flagVars>>

LaunchFails ==
  /\ Goes("spawning", "closing")
  /\ raised' = TRUE
  /\ UNCHANGED <<stop, leads, outcome>> /\ MainOnly

-----------------------------------------------------------------------------
(* _observe_attempt.                                                        *)

\* The status pipe ends when the bootstrap execs or is gone.  A failed session
\* leaves no group to signal.
ReadStatus ==
  /\ leader \notin {"boot", "session"}
  /\ IF status = "none" THEN Goes("status", "feeder") ELSE Goes("status", "term_group")
  /\ leads' = (status # "session")
  /\ UNCHANGED <<raised, stop, outcome>> /\ MainOnly

\* An exception observed nothing: it gets the teardown of a whole group.
Escapes(from) ==
  /\ Goes(from, "term_group")
  /\ raised' = TRUE
  /\ UNCHANGED <<stop, leads, outcome>> /\ MainOnly

StatusTimesOut == budgets.startup /\ Escapes("status")

NextThread == [feeder |-> "pump", pump |-> "reader", reader |-> "marking"]

\* _adopt_started; a feeder with no input is done, and a target without a
\* protocol has no reader.
StartThread ==
  \E t \in Worker :
    /\ Goes(t, NextThread[t])
    /\ thread' = [thread EXCEPT ![t] = IF t = "feeder" /\ ~job.input THEN "ended"
                                       ELSE IF t = "reader" /\ ~job.protocol THEN @
                                       ELSE "running"]
    /\ UNCHANGED <<vars, job, budgets, raised, stop, leads, outcome, childVars,
                   pumpVars, verdict, released, flagVars>>

StartThreadFails ==
  \E t \in Worker : (t = "reader" => job.protocol) /\ Escapes(t)

\* mark_running; its failure is kept for the receipt.
Mark ==
  /\ Goes("marking", "await")
  /\ MarkRunning(This) \/ MarkRunningRaises(This)
  /\ UNCHANGED <<raised, stop, leads, outcome>> /\ StoreOnly

\* _await_child.  A poll that finds the child ended has reaped it.
Poll ==
  /\ IF leader = "zombie"
     THEN Goes("await", "term_group") /\ leader' = "reaped"
     ELSE Goes("await", "flags") /\ UNCHANGED leader
  /\ UNCHANGED <<vars, job, budgets, raised, stop, leads, outcome, death, status, kin,
                 wrote, said, pumpVars, verdict, thread, released, flagVars>>

\* Faulty variant: the wait looks for an overflow and not at the token.
LookAtOverflow ==
  /\ pc = "flags"
  /\ LET over == job.output /\ job.fails /\ overflow
     IN  IF Failed \/ over
         THEN pc' = "term_group" /\ stop' = (IF Failed THEN stop ELSE "overflow")
         ELSE pc' = "deadline" /\ UNCHANGED stop
  /\ UNCHANGED <<raised, leads, outcome>> /\ MainOnly

\* A failed transport stops the wait without a reason: join raises it.
LookAtFlags ==
  /\ pc = "flags"
  /\ LET reason == IF job.output /\ job.fails /\ overflow THEN "overflow"
                   ELSE IF cancelled THEN "cancelled" ELSE "none"
     IN  IF Failed \/ reason # "none"
         THEN pc' = "term_group" /\ stop' = (IF Failed THEN stop ELSE reason)
         ELSE pc' = "deadline" /\ UNCHANGED stop
  /\ UNCHANGED <<raised, leads, outcome>> /\ MainOnly

LookAtDeadline ==
  /\ IF expired THEN Goes("deadline", "term_group") /\ stop' = "wall_time"
                ELSE Goes("deadline", "await") /\ UNCHANGED stop
  /\ UNCHANGED <<raised, leads, outcome>> /\ MainOnly

-----------------------------------------------------------------------------
(* _tear_down.                                                              *)

\* The child ends.  Its end is its own before the engine's first signal.
Ends(how) ==
  /\ leader' = "zombie"
  /\ death' = [how |-> how, own |-> pc \notin TearingDown]

\* SIGTERM kills the bootstrap; a payload may handle or ignore it.
TermReaches ==
  \/ Alive /\ Ends("signaled")
  \/ leader \notin {"boot", "session"} /\ UNCHANGED <<leader, death>>

KinAfterTerm == IF InGroup THEN {kin, "gone"} ELSE {kin}

Teardown(from, to) ==
  /\ Goes(from, to)
  /\ UNCHANGED <<vars, job, budgets, raised, stop, leads, outcome, status, wrote, said,
                 pumpVars, verdict, thread, released, flagVars>>

\* The group is the child's once its session is; with no group, nobody gets it.
TermGroup ==
  /\ Teardown("term_group", "term_leader")
  /\ IF leads /\ leader # "boot"
     THEN kin' \in KinAfterTerm
          /\ \/ leader \in {"session", "payload"} /\ leader' = "zombie"
                /\ death' = [how |-> "signaled", own |-> FALSE]
             \/ leader # "session" /\ UNCHANGED <<leader, death>>
     ELSE UNCHANGED <<leader, death, kin>>

\* send_signal polls first: it reaps a child that has ended.
TermLeader ==
  /\ Teardown("term_leader", "grace")
  /\ IF leader = "zombie" THEN leader' = "reaped" /\ UNCHANGED death ELSE TermReaches
  /\ UNCHANGED kin

AfterReap == IF leads THEN "probe" ELSE IF raised THEN "closing" ELSE "joining"

GraceReaps ==
  /\ leader \in {"zombie", "reaped"}
  /\ Teardown("grace", AfterReap)
  /\ leader' = "reaped"
  /\ UNCHANGED <<death, kin>>

GraceExpires ==
  /\ budgets.grace /\ Alive
  /\ Teardown("grace", IF leads THEN "kill_group" ELSE "kill_leader")
  /\ UNCHANGED <<leader, death, kin>>

Gone == IF InGroup THEN "gone" ELSE kin

KillGroup ==
  /\ Teardown("kill_group", "kill_leader")
  /\ kin' = Gone
  /\ IF leader \in {"session", "payload"} THEN Ends("signaled")
                                          ELSE UNCHANGED <<leader, death>>

KillLeader ==
  /\ Teardown("kill_leader", "reap")
  /\ IF Alive THEN Ends("signaled")
     ELSE leader' = "reaped" /\ UNCHANGED death
  /\ UNCHANGED kin

Reap ==
  /\ leader \in {"zombie", "reaped"}
  /\ Teardown("reap", AfterReap)
  /\ leader' = "reaped"
  /\ UNCHANGED <<death, kin>>

\* Faulty variant: the group is not signalled again once the leader is reaped.
ProbeNothing ==
  /\ Teardown("probe", IF raised THEN "closing" ELSE "joining")
  /\ UNCHANGED <<leader, death, kin>>

\* Whatever survives in the group after the leader is reaped is killed.
Probe ==
  /\ Teardown("probe", IF raised THEN "closing" ELSE "joining")
  /\ kin' = Gone
  /\ UNCHANGED <<leader, death>>

-----------------------------------------------------------------------------
(* _carry_attempt after the teardown: join, the outcome, the record, close. *)

\* Faulty variant: how the child ended is looked at before why it was stopped.
OutcomeByExit ==
  CASE status = "absent" -> "spawn_absent"
    [] status \notin {"none", "absent"} -> "spawn_failed"
    [] status = "none" /\ Overflowed(retention) -> "payload_output"
    [] status = "none" /\ ~Overflowed(retention) ->
         IF verdict = "failed" THEN "protocol_failed"
         ELSE IF stop # "none" THEN stop ELSE death.how

\* _spawn_outcome and _outcome_of.
OutcomeOf ==
  CASE status = "absent" -> "spawn_absent"
    [] status \notin {"none", "absent"} -> "spawn_failed"
    [] status = "none" /\ Overflowed(retention) -> "payload_output"
    [] status = "none" /\ ~Overflowed(retention) ->
         IF stop # "none" THEN stop
         ELSE IF verdict = "failed" THEN "protocol_failed" ELSE death.how

\* attribute_outcome: who may be held responsible.  Exit codes and the codes of a
\* protocol failure are not told apart here.
Owners(o) ==
  CASE o \in {"cancelled_unstarted", "cancelled"} -> {"none"}
    [] o \in {"spawn_absent", "wall_time"} -> {"executor"}
    [] o = "spawn_failed" -> {"machine"}
    [] o \in {"signaled", "payload_output"} -> {"payload"}
    [] o = "exited" -> {"none", "payload"}
    [] o = "protocol_failed" -> {"executor", "payload"}

\* A record the attempt never marked running is finalized from prepared.
Join ==
  /\ \A t \in Worker : ~Running(t)
  /\ IF Failed
     THEN Goes("joining", "closing") /\ raised' = TRUE /\ UNCHANGED <<vars, outcome>>
     ELSE /\ Goes("joining", "finalizing")
          /\ outcome' = OutcomeOf
          /\ IF status = "none" THEN ChildEnds(This) ELSE NothingRan(This)
          /\ UNCHANGED raised
  /\ UNCHANGED <<stop, leads>> /\ StoreOnly

JoinTimesOut ==
  /\ budgets.join
  /\ \E t \in Worker : Running(t)
  /\ Goes("joining", "closing")
  /\ raised' = TRUE
  /\ UNCHANGED <<stop, leads, outcome>> /\ MainOnly

Finalizing ==
  /\ pc = "finalizing"
  /\ Finalize(This)
  /\ UNCHANGED engineVars

\* Nothing was opened for a call cancelled before its spawn.
Finalized ==
  /\ at[This] = "done"
  /\ Goes("finalizing", IF outcome = "cancelled_unstarted" THEN "ended" ELSE "closing")
  /\ UNCHANGED <<raised, stop, leads, outcome>> /\ MainOnly

\* _Transports.close.
Release ==
  /\ Goes("closing", "ending")
  /\ released' = TRUE
  /\ UNCHANGED <<vars, job, budgets, raised, stop, leads, outcome, childVars, pumpVars,
                 verdict, thread, flagVars>>

Close ==
  /\ \A t \in Worker : ~Running(t)
  /\ Goes("ending", "ended")
  /\ IF raised THEN EngineRaises(This) ELSE UNCHANGED vars
  /\ UNCHANGED <<raised, stop, leads, outcome>> /\ StoreOnly

-----------------------------------------------------------------------------
(* The child: the bootstrap of spawn.py, then the payload.                  *)

Outside == UNCHANGED <<vars, job, budgets, mainVars, pumpVars, verdict, thread, released,
                       flagVars>>

\* A failed stage is written to the status pipe, and the bootstrap exits 127.
SetsUp ==
  \/ /\ leader = "boot" /\ leader' = "session"
     /\ UNCHANGED <<death, status, kin, wrote, said>> /\ Outside
  \/ /\ leader = "session" /\ leader' = "payload"
     /\ UNCHANGED <<death, status, kin, wrote, said>> /\ Outside
  \/ /\ leader = "boot" /\ status' = "session" /\ Ends("exited")
     /\ UNCHANGED <<kin, wrote, said>> /\ Outside
  \/ /\ leader = "session" /\ status' \in Setup \ {"none", "session"} /\ Ends("exited")
     /\ UNCHANGED <<kin, wrote, said>> /\ Outside

\* The payload exits or is killed from outside; so may the bootstrap, silently.
ChildDies ==
  /\ Alive
  /\ \E how \in {"exited", "signaled"} : Ends(how)
  /\ UNCHANGED <<status, kin, wrote, said>> /\ Outside

Speaks == leader = "payload" \/ kin \in {"group", "escaped"}

Writes(s) ==
  /\ Speaks /\ wrote[s] < job.most[s]
  /\ wrote' = [wrote EXCEPT ![s] = @ + 1]
  /\ UNCHANGED <<leader, death, status, kin, said>> /\ Outside

\* A stream is whole after its completion, and never again once it is bad.
Says ==
  /\ Speaks /\ job.protocol
  /\ \/ said = "nothing" /\ said' \in {"part", "bad"}
     \/ said = "part" /\ said' \in {"complete", "bad"}
     \/ said = "complete" /\ said' = "bad"
  /\ UNCHANGED <<leader, death, status, kin, wrote>> /\ Outside

Forks ==
  /\ leader = "payload" /\ kin = "none"
  /\ kin' = "group"
  /\ UNCHANGED <<leader, death, status, wrote, said>> /\ Outside

\* A descendant closes its pipes, leaves the session, or ends.
KinMoves ==
  /\ \/ kin = "group" /\ kin' \in {"quiet", "escaped", "gone"}
     \/ kin \in {"quiet", "escaped"} /\ kin' = "gone"
  /\ UNCHANGED <<leader, death, status, wrote, said>> /\ Outside

\* The caller cancels, or the wall time passes, while somebody will still look.
Looking == pc \in Awaiting \cup {"preparing", "spawning", "status", "feeder", "pump",
                                "reader", "marking"}

Cancels ==
  /\ ~cancelled /\ Looking
  /\ cancelled' = TRUE
  /\ UNCHANGED <<vars, job, budgets, mainVars, childVars, pumpVars, verdict, thread,
                 released, expired>>

Expires ==
  /\ job.wall /\ ~expired /\ leader # "none" /\ Looking
  /\ expired' = TRUE
  /\ UNCHANGED <<vars, job, budgets, mainVars, childVars, pumpVars, verdict, thread,
                 released, cancelled>>

-----------------------------------------------------------------------------
(* The transport threads.                                                   *)

ThreadOnly == UNCHANGED <<vars, job, budgets, mainVars, childVars, released, flagVars>>

ThreadEnds(t, how) == Running(t) /\ thread' = [thread EXCEPT ![t] = how]

\* _feed_stdin ends when all is read, when nobody can read it, or on release.
FeederEnds ==
  /\ ThreadEnds("feeder", "ended")
  /\ UNCHANGED <<pumpVars, verdict>> /\ ThreadOnly

\* What makes the feeder end without the child's help.
FeederReleased == (released \/ ~Held) /\ FeederEnds

\* One read of up to all there is in the pipe.
PumpReads(s) ==
  /\ Running("pump")
  /\ LET seen == retention[s].produced
     IN  \E n \in 1 .. wrote[s] - seen :
           retention' = [retention EXCEPT ![s] = Offer(@, Bytes(seen, n), Budget(s))]
  /\ overflow' = (overflow \/ Overflowed(retention'))
  /\ UNCHANGED <<pumped, verdict, thread>> /\ ThreadOnly

\* A reader that has given up makes the write fail, which is ignored.
PumpForwards ==
  /\ Running("pump") /\ pumped # said
  /\ pumped' \in {said} \cup (IF pumped = "nothing" THEN {"part"} ELSE {})
  /\ UNCHANGED <<retention, overflow, verdict, thread>> /\ ThreadOnly

AllRead == pumped = said /\ \A s \in Stream : retention[s].produced = wrote[s]

\* Faulty variant: the pump ends when the child does, descendants or not.
PumpEndsWithChild ==
  /\ ~Alive \/ released
  /\ ThreadEnds("pump", "ended")
  /\ UNCHANGED <<pumpVars, verdict>> /\ ThreadOnly

\* EOF on every descriptor, or release.
PumpEnds ==
  /\ (~Held /\ AllRead) \/ released
  /\ ThreadEnds("pump", "ended")
  /\ UNCHANGED <<pumpVars, verdict>> /\ ThreadOnly

\* _read_protocol: the stream is judged at its first violation or at its end,
\* which comes when the pump, however it ended, has closed the forward pipe.
ReaderEnds ==
  /\ pumped = "bad" \/ ~Running("pump")
  /\ ThreadEnds("reader", "ended")
  /\ verdict' = IF pumped = "complete" THEN "ok" ELSE "failed"
  /\ UNCHANGED pumpVars /\ ThreadOnly

TransportFails ==
  /\ \E t \in {"pump", "reader"} : ThreadEnds(t, "failed")
  /\ UNCHANGED <<pumpVars, verdict>> /\ ThreadOnly

-----------------------------------------------------------------------------
MainSteps ==
  \/ Preparing \/ PrepareFails \/ LookBeforeSpawn \/ Launch \/ LaunchFails
  \/ ReadStatus \/ StartThread \/ StartThreadFails \/ Mark
  \/ Poll \/ LookAtFlags \/ LookAtDeadline
  \/ TermGroup \/ TermLeader \/ GraceReaps \/ KillGroup \/ KillLeader \/ Reap \/ Probe
  \/ Join \/ Finalizing \/ Finalized \/ Release \/ Close

Timeouts == StatusTimesOut \/ GraceExpires \/ JoinTimesOut

ChildSteps ==
  \/ SetsUp \/ ChildDies \/ Says \/ Forks \/ KinMoves
  \/ \E s \in Stream : Writes(s)

PumpSteps == (\E s \in Stream : PumpReads(s)) \/ PumpForwards \/ PumpEnds

EngineNext ==
  \/ MainSteps \/ Timeouts \/ ChildSteps \/ Cancels \/ Expires
  \/ FeederEnds \/ PumpSteps \/ ReaderEnds \/ TransportFails

\* The engine's threads are scheduled and its finite budgets run out.  Nothing
\* is assumed of the child or of what it leaves behind.
EngineFairness ==
  /\ WF_engineAll(MainSteps) /\ WF_engineAll(Timeouts)
  /\ WF_engineAll(FeederReleased) /\ WF_engineAll(PumpSteps) /\ WF_engineAll(ReaderEnds)

EngineSpec == EngineInit /\ [][EngineNext]_engineAll /\ EngineFairness

-----------------------------------------------------------------------------
(* Properties.                                                              *)

\* The payload is held responsible only for an overflow it produced or for an end
\* of its own: never for one the engine brought about, by a stop, a teardown after
\* a failure or an escalation, and never for a spawn that failed.
OwnDeath ==
  outcome # "none" /\ "payload" \in Owners(outcome) =>
    outcome = "payload_output" \/ death.own

\* A result holds exactly what is to be kept of everything that was written,
\* however it was cut up and whoever wrote it last; it reports an overflow if and
\* only if there was one; and the protocol was judged on all that was said.
OutputComplete ==
  outcome # "none" =>
    /\ \A s \in Stream : retention[s] = Retained(wrote[s], Budget(s))
    /\ outcome = "payload_output" <=>
         job.output /\ wrote["stdout"] + wrote["stderr"] > MaxBytes
    /\ thread["reader"] = "ended" => (verdict = "ok" <=> said = "complete")

\* Once the record is final, or the call over, the child is reaped and nothing
\* it started is left in its group: only what left the group can outlive it.  A
\* call that is over has no thread left either.
GroupGone ==
  /\ manifest.state = "finalized" \/ pc = "ended" =>
       leader \in {"none", "reaped"} /\ ~InGroup
  /\ pc = "ended" => \A t \in Worker : ~Running(t)

Stopping == pc \in Awaiting /\ (cancelled \/ expired)
Stuck == pc = "joining" /\ kin = "escaped" /\ ~budgets.join

\* With a finite termination time, a cancelled or overdue call returns, whatever
\* the child does.  The one thing that may keep it is a descendant that left the
\* group and kept the pipes, and that only while no join time is declared.
StoppedCallReturns == budgets.grace /\ Stopping ~> pc = "ended" \/ []Stuck
=============================================================================
