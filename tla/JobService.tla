----------------------------- MODULE JobService -----------------------------
(***************************************************************************)
(* What the scheduler promises its drivers, without threads, locks or       *)
(* counters: a service that holds at most Capacity jobs, starts them in the *)
(* order it accepted them, and forgets one only when a claimant takes its   *)
(* completion or nobody is left to take it.  After the first failure the    *)
(* jobs not yet started, and the job that failed, are dropped but still     *)
(* occupy the service, so no driver can mistake it for an idle one.         *)
(***************************************************************************)
EXTENDS Integers, FiniteSets

CONSTANTS Capacity, Job

VARIABLES stage, open, failed

abstractVars == <<stage, open, failed>>

In(s) == {j \in Job : stage[j] = s}

\* Jobs that occupy the service.
Held == In("pending") \cup In("running") \cup In("ready") \cup In("dropped")

Move(S, s) == stage' = [j \in Job |-> IF j \in S THEN s ELSE stage[j]]

ServiceInit ==
  /\ stage = [j \in Job |-> "new"]
  /\ open = TRUE
  /\ failed = FALSE

Accept(j) ==
  /\ open
  /\ Cardinality(Held) < Capacity
  /\ stage[j] = "new"
  /\ Move({j}, "pending")
  /\ UNCHANGED <<open, failed>>

\* Jobs start in the order of their tickets.
Start(j) ==
  /\ stage[j] = "pending"
  /\ \A i \in In("pending") : j <= i
  /\ Move({j}, "running")
  /\ UNCHANGED <<open, failed>>

Complete(j) ==
  /\ stage[j] = "running"
  /\ Move({j}, "ready")
  /\ UNCHANGED <<open, failed>>

Claim(j) ==
  /\ stage[j] = "ready"
  /\ Move({j}, "delivered")
  /\ UNCHANGED <<open, failed>>

\* The machinery fails while accepting j or while running j.
Fail(j) ==
  /\ \/ stage[j] = "running"
     \/ stage[j] = "new" /\ open /\ Cardinality(Held) < Capacity
  /\ Move({j} \cup In("pending"), "dropped")
  /\ failed' = TRUE
  /\ open' = FALSE

Stop ==
  /\ open' = FALSE
  /\ UNCHANGED <<stage, failed>>

\* Completions nobody will claim any more are let go.
Release(S) ==
  /\ S \subseteq In("ready")
  /\ Move(S, "released")
  /\ UNCHANGED <<open, failed>>

\* A stopped service with nothing to run lets go of everything it holds.
Empty ==
  /\ ~open
  /\ In("pending") \cup In("running") = {}
  /\ Move(Held, "released")
  /\ UNCHANGED <<open, failed>>

ServiceNext ==
  \/ \E j \in Job : Accept(j) \/ Start(j) \/ Complete(j) \/ Claim(j) \/ Fail(j)
  \/ Stop
  \/ \E S \in SUBSET In("ready") : Release(S)
  \/ Empty

ServiceSpec == ServiceInit /\ [][ServiceNext]_abstractVars
=============================================================================
