--------------------------- MODULE SchedulerProofs ---------------------------
(***************************************************************************)
(* Safety of Scheduler for every capacity, number of jobs, set of owners    *)
(* and set of callers.                                                      *)
(***************************************************************************)
EXTENDS Scheduler, FiniteSetTheorems, TLAPS

-----------------------------------------------------------------------------
(* Sequences.                                                               *)

\* The elements of a deque after append.
LEMMA AppendRange ==
  ASSUME NEW T, NEW s \in Seq(T), NEW x \in T
  PROVE  /\ Append(s, x) \in Seq(T)
         /\ Len(Append(s, x)) = Len(s) + 1
         /\ Append(s, x)[Len(s) + 1] = x
         /\ \A i \in 1 .. Len(s) : Append(s, x)[i] = s[i]
         /\ Range(Append(s, x)) = Range(s) \cup {x}
  BY DEF Range

\* The elements of a deque without duplicates after popleft.
LEMMA TailRange ==
  ASSUME NEW T, NEW s \in Seq(T), s # <<>>,
         \A i, j \in 1 .. Len(s) : i # j => s[i] # s[j]
  PROVE  /\ Tail(s) \in Seq(T)
         /\ Len(Tail(s)) = Len(s) - 1
         /\ Head(s) = s[1]
         /\ Head(s) \in Range(s)
         /\ Head(s) \in T
         /\ \A i \in 1 .. Len(s) - 1 : Tail(s)[i] = s[i + 1]
         /\ Range(Tail(s)) = Range(s) \ {Head(s)}
  <1>1. Len(s) \in Nat /\ Len(s) > 0
    OBVIOUS
  <1>2. /\ Tail(s) \in Seq(T)
        /\ Len(Tail(s)) = Len(s) - 1
        /\ Head(s) = s[1]
        /\ Head(s) \in T
        /\ \A i \in 1 .. Len(s) - 1 : Tail(s)[i] = s[i + 1]
    BY <1>1
  <1>3. Head(s) \in Range(s)
    BY <1>1, <1>2 DEF Range
  <1>4. Range(Tail(s)) = Range(s) \ {Head(s)}
    <2>1. DOMAIN s = 1 .. Len(s) /\ DOMAIN Tail(s) = 1 .. Len(s) - 1
      BY <1>1, <1>2
    <2>2. ASSUME NEW x \in Range(Tail(s))
          PROVE  x \in Range(s) \ {Head(s)}
      <3>1. PICK i \in 1 .. Len(s) - 1 : x = s[i + 1]
        BY <1>2, <2>1 DEF Range
      <3> QED
        BY <3>1, <2>1, <1>1, <1>2 DEF Range
    <2>3. ASSUME NEW x \in Range(s) \ {Head(s)}
          PROVE  x \in Range(Tail(s))
      <3>1. PICK i \in 1 .. Len(s) : x = s[i]
        BY <2>1 DEF Range
      <3>2. i # 1 /\ i - 1 \in 1 .. Len(s) - 1 /\ Tail(s)[i - 1] = s[i]
        BY <3>1, <1>1, <1>2
      <3> QED
        BY <3>1, <3>2, <2>1 DEF Range
    <2> QED
      BY <2>2, <2>3
  <1> QED
    BY <1>2, <1>3, <1>4

\* An empty deque has no elements.
LEMMA EmptyRange == /\ Range(<<>>) = {}
                    /\ \A T : \A s \in Seq(T) : Range(s) = {} => s = <<>>
  BY DEF Range

-----------------------------------------------------------------------------
(* Histories.                                                               *)

\* How the sets of tickets by history change when the tickets in S become g.
LEMMA BecomesEffect ==
  ASSUME fate \in [Ticket -> Fate], NEW S \in SUBSET Ticket, NEW g \in Fate,
         fate' = Becomes(S, g)
  PROVE  /\ fate' \in [Ticket -> Fate]
         /\ Having(g)' = Having(g) \cup S
         /\ \A f \in Fate \ {g} : Having(f)' = Having(f) \ S
  BY DEF Becomes, Having

\* The claims of each owner when the tickets in S become g and no context
\* changes.
LEMMA ReadyEffect ==
  ASSUME fate \in [Ticket -> Fate], NEW S \in SUBSET Ticket, NEW g \in Fate,
         fate' = Becomes(S, g), UNCHANGED owner
  PROVE  \A o \in Owner :
           ReadyFor(o)' = IF g = "ready"
                          THEN ReadyFor(o) \cup {t \in S : owner[t] = o}
                          ELSE ReadyFor(o) \ S
  BY DEF Becomes, ReadyFor

\* Tickets are naturals below the bound.
LEMMA TicketType == Ticket \subseteq Nat /\ NoTicket \notin Ticket
  BY MaxJobsAssumption DEF Ticket, NoTicket

-----------------------------------------------------------------------------
(* The structure of the state: ShapeOK and Links.                           *)

Structure == ShapeOK /\ Links

\* The initial state is well formed.
LEMMA StructureInit == Init => Structure
  <1> SUFFICES ASSUME Init PROVE Structure
    OBVIOUS
  <1> USE CapacityAssumption, MaxJobsAssumption, OwnerAssumption
  <1>1. ShapeOK
    <2>1. pending \in Seq(Ticket) /\ ready \in [Owner -> Seq(Ticket)]
      BY DEF Init
    <2>2. /\ owner \in [Ticket -> Owner]
          /\ phase \in [Worker -> {"absent", "taking", "running", "exited"}]
          /\ job \in [Worker -> Ticket \cup {NoTicket}]
      BY DEF Init
    <2>3. call \in [Caller -> Call] /\ fate \in [Ticket -> Fate]
      BY DEF Init, Call, Fate
    <2>4. workers \in 0 .. Capacity /\ next_ticket \in 0 .. MaxJobs
      BY DEF Init
    <2> QED
      BY <2>1, <2>2, <2>3, <2>4 DEF Init, ShapeOK
  <1>2. PendingLink /\ ReadyLink
    BY EmptyRange DEF Init, PendingLink, ReadyLink, Having, ReadyFor
  <1>3. JobLink /\ TicketLink /\ ThreadLink
    BY DEF Init, JobLink, TicketLink, ThreadLink, Having, Ticket, Worker
  <1> QED
    BY <1>1, <1>2, <1>3 DEF Structure, Links

\* Steps that move no job: flags, wait sets, tokens and calls only.
LEMMA StructureQuiet ==
  ASSUME Structure,
         UNCHANGED <<pending, ready, workers, phase, job, next_ticket, owner,
                     fate, broken>>,
         intake_closed' \in BOOLEAN, intake_closed => intake_closed'
  PROVE  Links'
  <1>1. PendingLink' /\ ReadyLink'
    BY DEF Structure, Links, PendingLink, ReadyLink, Having, ReadyFor
  <1>2. JobLink' /\ TicketLink' /\ ThreadLink'
    BY DEF Structure, Links, JobLink, TicketLink, ThreadLink, Having
  <1> QED
    BY <1>1, <1>2 DEF Links

\* admit with a thread at hand or started: the new ticket joins the queue.
LEMMA StructureAdmit ==
  ASSUME Structure, NEW o \in Owner, Admit(o)
  PROVE  Structure'
  <1> DEFINE n == next_ticket
             queue == Append(pending, n)
             starts == NeedsWorker(queue)
  <1>0. ShapeOK /\ Links
    BY DEF Structure
  <1>1. n \in Ticket /\ fate[n] = "new"
    BY <1>0, MaxJobsAssumption
       DEF ShapeOK, Links, TicketLink, Admit, Admission, Ticket
  <1>2. /\ pending' = queue
        /\ next_ticket' = n + 1
        /\ owner' = [owner EXCEPT ![n] = o]
        /\ UNCHANGED <<ready, job, intake_closed, expired, broken, call, departed>>
        /\ ~intake_closed
        /\ fate' = Becomes({n}, "pending")
        /\ workers' = IF starts THEN workers + 1 ELSE workers
        /\ phase' = IF starts THEN [phase EXCEPT ![workers + 1] = "taking"] ELSE phase
        /\ starts => workers < Capacity
        /\ sleeping' = {} /\ blocked' = {}
    BY DEF Admit, Admission, CanAdmit, flags, AnnounceChange, NeedsWorker
  <1>3. /\ queue \in Seq(Ticket)
        /\ Len(queue) = Len(pending) + 1
        /\ queue[Len(pending) + 1] = n
        /\ \A i \in 1 .. Len(pending) : queue[i] = pending[i]
        /\ Range(queue) = Range(pending) \cup {n}
    BY <1>0, <1>1, AppendRange DEF ShapeOK
  <1>4. /\ fate' \in [Ticket -> Fate]
        /\ Having("pending")' = Having("pending") \cup {n}
        /\ Having("running")' = Having("running")
    <2>1. /\ fate' \in [Ticket -> Fate]
          /\ Having("pending")' = Having("pending") \cup {n}
          /\ \A f \in Fate \ {"pending"} : Having(f)' = Having(f) \ {n}
      <3>1. {n} \in SUBSET Ticket /\ "pending" \in Fate /\ fate \in [Ticket -> Fate]
        BY <1>0, <1>1 DEF ShapeOK, Fate
      <3> QED
        BY <1>2, <3>1, BecomesEffect
    <2>2. n \notin Having("running")
      BY <1>1 DEF Having
    <2> QED
      BY <2>1, <2>2 DEF Fate
  <1>5. workers \in 0 .. Capacity /\ workers' \in 0 .. Capacity
    BY <1>0, <1>2, CapacityAssumption DEF ShapeOK
  <1>6. ShapeOK'
    <2>1. /\ pending' \in Seq(Ticket)
          /\ ready' \in [Owner -> Seq(Ticket)]
          /\ owner' \in [Ticket -> Owner]
          /\ phase' \in [Worker -> {"absent", "taking", "running", "exited"}]
          /\ job' \in [Worker -> Ticket \cup {NoTicket}]
          /\ call' \in [Caller -> Call]
      BY <1>0, <1>2, <1>3 DEF ShapeOK
    <2>2. next_ticket' \in 0 .. MaxJobs
      BY <1>0, <1>2, MaxJobsAssumption DEF ShapeOK, Admit, Admission
    <2>3. tokens' \subseteq Ticket /\ cancelled' \subseteq Ticket
      BY <1>0, <1>1 DEF ShapeOK, Admit, BornCancelled
    <2> QED
      BY <1>0, <1>2, <1>4, <1>5, <2>1, <2>2, <2>3 DEF ShapeOK
  <1>7. PendingLink'
    <2>1. Range(queue) = Having("pending")'
      BY <1>0, <1>3, <1>4 DEF Links, PendingLink
    <2>2. \A i \in 1 .. Len(pending) : pending[i] < n
      <3> SUFFICES ASSUME NEW i \in 1 .. Len(pending) PROVE pending[i] < n
        OBVIOUS
      <3>1. pending[i] \in Having("pending")
        BY <1>0 DEF Links, PendingLink, Range, ShapeOK
      <3>2. fate[pending[i]] # "new" /\ pending[i] \in Ticket
        BY <3>1 DEF Having
      <3>3. ~(n <= pending[i])
        BY <1>0, <3>2 DEF Links, TicketLink
      <3>4. n \in Int
        BY <1>0, MaxJobsAssumption DEF ShapeOK
      <3>5. pending[i] \in Nat
        BY <3>2, TicketType
      <3> QED
        BY <3>3, <3>4, <3>5
    <2>3. \A i, j \in 1 .. Len(queue) : i < j => queue[i] < queue[j]
      <3>1. Len(pending) \in Nat
        BY <1>0 DEF ShapeOK
      <3>2. \A i, j \in 1 .. Len(pending) : i < j => pending[i] < pending[j]
        BY <1>0 DEF Links, PendingLink
      <3> HIDE DEF queue
      <3> QED
        BY <3>1, <3>2, <2>2, <1>3
    <2> QED
      BY <2>1, <2>3, <1>2 DEF PendingLink
  <1>8. ReadyLink'
    <2>1. \A p \in Owner : ReadyFor(p)' = ReadyFor(p)
      BY <1>0, <1>1, <1>2 DEF ReadyFor, Becomes, ShapeOK
    <2> QED
      BY <2>1, <1>0, <1>2 DEF Links, ReadyLink
  <1>9. \A w \in Worker : /\ phase'[w] = "running" <=> phase[w] = "running"
                          /\ phase'[w] = "exited" => phase[w] = "exited"
                          /\ w <= workers' => phase'[w] # "absent"
                          /\ w > workers' => phase'[w] \in {"absent", "exited"}
    BY <1>0, <1>2, <1>5 DEF ShapeOK, Links, ThreadLink, Worker
  <1>10. JobLink'
    BY <1>0, <1>2, <1>4, <1>9 DEF Links, JobLink
  <1>11. TicketLink'
    BY <1>0, <1>1, <1>2, TicketType DEF Links, TicketLink, Becomes, ShapeOK
  <1>12. ThreadLink'
    BY <1>0, <1>2, <1>9 DEF Links, ThreadLink
  <1> QED
    BY <1>6, <1>7, <1>8, <1>10, <1>11, <1>12 DEF Structure, Links

\* An empty queue is well formed when no ticket is pending.
LEMMA EmptyQueue ==
  ASSUME pending' = <<>>, Having("pending")' = {}
  PROVE  PendingLink'
  <1>1. Range(pending') = {}
    BY EmptyRange
  <1>2. 1 .. Len(pending') = {}
    OBVIOUS
  <1> QED
    BY <1>1, <1>2, Zenon DEF PendingLink

\* Empty buffers are well formed when no completion is claimable.
LEMMA EmptyBuffers ==
  ASSUME \A o \in Owner : ready'[o] = <<>> /\ ReadyFor(o)' = {}
  PROVE  ReadyLink'
  <1> SUFFICES ASSUME NEW o \in Owner
               PROVE  /\ Range(ready'[o]) = ReadyFor(o)'
                      /\ \A i, j \in 1 .. Len(ready'[o]) :
                           i # j => ready'[o][i] # ready'[o][j]
    BY DEF ReadyLink
  <1>1. Range(ready'[o]) = {} /\ 1 .. Len(ready'[o]) = {}
    BY EmptyRange
  <1> QED
    BY <1>1, Zenon

\* A failed thread start drops the queue and the ticket just issued.
LEMMA StructureAdmitStartFails ==
  ASSUME Structure, NEW o \in Owner, AdmitStartFails(o)
  PROVE  Structure'
  <1> DEFINE n == next_ticket
             queue == Append(pending, n)
  <1>0. ShapeOK /\ Links
    BY DEF Structure
  <1>1. n \in Ticket /\ fate[n] = "new"
    BY <1>0, MaxJobsAssumption
       DEF ShapeOK, Links, TicketLink, AdmitStartFails, Admission, Ticket
  <1>2. /\ pending' = <<>>
        /\ next_ticket' = n + 1
        /\ owner' = [owner EXCEPT ![n] = o]
        /\ UNCHANGED <<ready, job, expired, call, departed, workers, phase>>
        /\ broken' = TRUE /\ intake_closed' = TRUE
        /\ fate' = Becomes({} \cup Range(queue), "dropped")
        /\ tokens' \subseteq tokens \cup {n}
        /\ cancelled' = cancelled \cup Range(queue)
        /\ sleeping' = {} /\ blocked' = {}
    BY DEF AdmitStartFails, Admission, AnnounceChange, Break
  <1>3. Range(queue) = Having("pending") \cup {n}
    BY <1>0, <1>1, AppendRange DEF ShapeOK, Links, PendingLink
  <1>4. Range(queue) \in SUBSET Ticket
    BY <1>1, <1>3 DEF Having
  <1>5. /\ fate' \in [Ticket -> Fate]
        /\ \A f \in Fate \ {"dropped"} : Having(f)' = Having(f) \ Range(queue)
    <2>1. "dropped" \in Fate /\ fate \in [Ticket -> Fate]
      BY <1>0 DEF ShapeOK, Fate
    <2>2. fate' = Becomes(Range(queue), "dropped")
      BY <1>2 DEF Becomes
    <2> QED
      BY <1>4, <2>1, <2>2, BecomesEffect
  <1>6. Having("pending")' = {} /\ Having("running")' = Having("running")
    BY <1>1, <1>3, <1>5 DEF Having, Fate
  <1>7. ShapeOK'
    <2>1. /\ ready' \in [Owner -> Seq(Ticket)]
          /\ owner' \in [Ticket -> Owner]
          /\ phase' \in [Worker -> {"absent", "taking", "running", "exited"}]
          /\ job' \in [Worker -> Ticket \cup {NoTicket}]
          /\ call' \in [Caller -> Call]
      BY <1>0, <1>2 DEF ShapeOK
    <2>4. pending' \in Seq(Ticket)
      BY <1>2
    <2>2. next_ticket' \in 0 .. MaxJobs
      BY <1>0, <1>2, MaxJobsAssumption DEF ShapeOK, AdmitStartFails, Admission
    <2>3. tokens' \subseteq Ticket /\ cancelled' \subseteq Ticket
      BY <1>0, <1>1, <1>2, <1>4 DEF ShapeOK
    <2> QED
      BY <1>0, <1>2, <1>5, <2>1, <2>2, <2>3, <2>4 DEF ShapeOK
  <1>8. PendingLink'
    BY <1>2, <1>6, EmptyQueue
  <1>9. ReadyLink'
    <2>1. \A p \in Owner : ReadyFor(p)' = ReadyFor(p)
      BY <1>0, <1>1, <1>2, <1>3 DEF ReadyFor, Becomes, ShapeOK, Having
    <2> QED
      BY <2>1, <1>0, <1>2 DEF Links, ReadyLink
  <1>10. JobLink'
    BY <1>0, <1>2, <1>6 DEF Links, JobLink
  <1>11. TicketLink'
    BY <1>0, <1>1, <1>2, <1>3, TicketType
       DEF Links, TicketLink, Becomes, ShapeOK, Having
  <1>12. ThreadLink'
    BY <1>0, <1>2 DEF Links, ThreadLink
  <1> QED
    BY <1>7, <1>8, <1>9, <1>10, <1>11, <1>12 DEF Structure, Links

\* Steps after which the same jobs are queued and running: only completions
\* leave the service, with the threads and the queue as they were.
LEMMA StructureCompletionsLeave ==
  ASSUME Structure, NEW S \in SUBSET Ticket, NEW g \in {"delivered", "released"},
         fate' = Becomes(S, g),
         \A t \in S : fate[t] \in {"ready", "dropped"},
         UNCHANGED <<pending, phase, job, next_ticket, intake_closed, broken,
                     owner, workers>>
  PROVE  /\ fate' \in [Ticket -> Fate]
         /\ PendingLink' /\ JobLink' /\ TicketLink' /\ ThreadLink'
         /\ \A o \in Owner : ReadyFor(o)' = ReadyFor(o) \ S
  <1>0. ShapeOK /\ Links
    BY DEF Structure
  <1>1. g \in Fate /\ g # "ready" /\ g # "pending" /\ g # "running" /\ g # "new"
    BY DEF Fate
  <1>2. fate' \in [Ticket -> Fate] /\ \A o \in Owner : ReadyFor(o)' = ReadyFor(o) \ S
    BY <1>0, <1>1, BecomesEffect, ReadyEffect DEF ShapeOK
  <1>3. Having("pending")' = Having("pending") /\ Having("running")' = Having("running")
    BY <1>0, <1>1 DEF Having, Becomes, ShapeOK
  <1>4. PendingLink' /\ JobLink' /\ ThreadLink'
    BY <1>0, <1>3 DEF Links, PendingLink, JobLink, ThreadLink
  <1>5. TicketLink'
    BY <1>0, <1>1 DEF Links, TicketLink, Becomes, ShapeOK
  <1> QED
    BY <1>2, <1>4, <1>5

\* A completion is handed to a driver.
LEMMA StructureTakeReady ==
  ASSUME Structure, NEW o \in Owner, TakeReady(o), call' \in [Caller -> Call]
  PROVE  Structure'
  <1> DEFINE h == Head(ready[o])
  <1>0. ShapeOK /\ Links
    BY DEF Structure
  <1>1. /\ ready[o] \in Seq(Ticket) /\ ready[o] # <<>>
        /\ \A i, j \in 1 .. Len(ready[o]) : i # j => ready[o][i] # ready[o][j]
        /\ Range(ready[o]) = ReadyFor(o)
    BY <1>0 DEF ShapeOK, Links, ReadyLink, TakeReady
  <1>2. /\ Tail(ready[o]) \in Seq(Ticket)
        /\ Len(Tail(ready[o])) = Len(ready[o]) - 1
        /\ h \in ReadyFor(o) /\ h \in Ticket
        /\ \A i \in 1 .. Len(ready[o]) - 1 : Tail(ready[o])[i] = ready[o][i + 1]
        /\ Range(Tail(ready[o])) = ReadyFor(o) \ {h}
    BY <1>1, TailRange
  <1>3. /\ ready' = [ready EXCEPT ![o] = Tail(ready[o])]
        /\ fate' = Becomes({h}, "delivered")
        /\ tokens' \subseteq tokens
        /\ UNCHANGED <<pending, phase, job, workers, next_ticket, intake_closed,
                       expired, broken, cancelled, owner, departed>>
        /\ sleeping' = {} /\ blocked' = {}
    BY DEF TakeReady, threads, flags, AnnounceChange
  <1>4. /\ fate' \in [Ticket -> Fate]
        /\ PendingLink' /\ JobLink' /\ TicketLink' /\ ThreadLink'
        /\ \A p \in Owner : ReadyFor(p)' = ReadyFor(p) \ {h}
    <2>1. {h} \in SUBSET Ticket /\ \A t \in {h} : fate[t] \in {"ready", "dropped"}
      BY <1>2 DEF ReadyFor
    <2> QED
      BY <1>3, <2>1, StructureCompletionsLeave
  <1>5. ShapeOK'
    <2>1. ready' \in [Owner -> Seq(Ticket)]
      BY <1>0, <1>2, <1>3 DEF ShapeOK
    <2> QED
      BY <1>0, <1>3, <1>4, <2>1 DEF ShapeOK
  <1>6. ReadyLink'
    <2> SUFFICES ASSUME NEW p \in Owner
                 PROVE  /\ Range(ready'[p]) = ReadyFor(p)'
                        /\ \A i, j \in 1 .. Len(ready'[p]) :
                             i # j => ready'[p][i] # ready'[p][j]
      BY DEF ReadyLink
    <2>1. CASE p = o
      <3>1. ready'[p] = Tail(ready[o])
        BY <2>1, <1>0, <1>3 DEF ShapeOK
      <3>2. Range(ready'[p]) = ReadyFor(p)'
        BY <2>1, <3>1, <1>2, <1>4
      <3>3. Len(ready[o]) \in Nat
        BY <1>1
      <3>4. \A i, j \in 1 .. Len(ready[o]) - 1 :
              i # j => Tail(ready[o])[i] # Tail(ready[o])[j]
        <4> SUFFICES ASSUME NEW i \in 1 .. Len(ready[o]) - 1,
                            NEW j \in 1 .. Len(ready[o]) - 1, i # j
                     PROVE  Tail(ready[o])[i] # Tail(ready[o])[j]
          OBVIOUS
        <4>1. i + 1 \in 1 .. Len(ready[o]) /\ j + 1 \in 1 .. Len(ready[o]) /\ i + 1 # j + 1
          BY <3>3
        <4> QED
          BY <4>1, <1>1, <1>2
      <3> QED
        BY <3>1, <3>2, <3>4, <1>2
    <2>2. CASE p # o
      <3>1. ready'[p] = ready[p]
        BY <2>2, <1>0, <1>3 DEF ShapeOK
      <3>2. h \notin ReadyFor(p)
        BY <2>2, <1>2 DEF ReadyFor
      <3>3. ReadyFor(p)' = ReadyFor(p)
        BY <3>2, <1>4
      <3> QED
        BY <3>1, <3>3, <1>0 DEF Links, ReadyLink
    <2> QED
      BY <2>1, <2>2
  <1> QED
    BY <1>4, <1>5, <1>6 DEF Structure, Links

\* When every thread has ended the queue is empty and nothing runs.
LEMMA JoinedIsIdle ==
  ASSUME Structure, Joined, Len(pending) + running <= workers, running \in Nat
  PROVE  pending = <<>> /\ Having("pending") = {} /\ Having("running") = {}
  <1>0. ShapeOK /\ Links
    BY DEF Structure
  <1>1. Having("running") = {}
    BY <1>0 DEF Links, JobLink, Joined
  <1>2. pending = <<>>
    <2>1. CASE \E w \in Worker : phase[w] = "exited"
      BY <2>1, <1>0 DEF Links, ThreadLink
    <2>2. CASE \A w \in Worker : phase[w] # "exited"
      <3>1. \A w \in Worker : ~(w <= workers)
        BY <2>2, <1>0 DEF Links, ThreadLink, Joined
      <3>2. workers = 0
        <4>1. workers \in Int /\ 0 <= workers /\ workers <= Capacity
          BY <1>0, CapacityAssumption DEF ShapeOK
        <4>2. workers \notin Worker
          BY <3>1, <4>1
        <4> QED
          BY <4>1, <4>2, CapacityAssumption DEF Worker
      <3>3. Len(pending) = 0
        BY <3>2, <1>0 DEF ShapeOK
      <3> QED
        BY <3>3, <1>0 DEF ShapeOK
    <2> QED
      BY <2>1, <2>2
  <1>3. Having("pending") = {}
    BY <1>0, <1>2, EmptyRange DEF Links, PendingLink
  <1> QED
    BY <1>1, <1>2, <1>3

\* shutdown after its joins: the queue was empty, completions stay or leave.
LEMMA StructureShutdownEnd ==
  ASSUME Structure, Len(pending) + running <= workers, running \in Nat,
         NEW c \in Caller, NEW keep \in BOOLEAN, ShutdownEnd(c, keep)
  PROVE  Structure'
  <1> DEFINE S == IF keep THEN {} ELSE Having("ready") \cup Having("dropped")
  <1>0. ShapeOK /\ Links
    BY DEF Structure
  <1>1. pending = <<>> /\ Having("pending") = {} /\ Having("running") = {}
    BY JoinedIsIdle DEF ShutdownEnd
  <1>2. /\ pending' = pending
        /\ fate' = Becomes(S, "released")
        /\ workers' = 0
        /\ UNCHANGED <<phase, job, next_ticket, intake_closed, expired, broken,
                       cancelled, owner, departed>>
        /\ call' = [call EXCEPT ![c] = "none"]
        /\ sleeping' = {} /\ blocked' = {}
        /\ keep => ready' = ready /\ tokens' = tokens
        /\ ~keep => ready' = [o \in Owner |-> <<>>] /\ tokens' = {}
        /\ Joined
    <2>1. Range(pending) = {}
      BY <1>1, EmptyRange
    <2>2. fate' = Becomes(S, "released")
      BY <2>1, <1>0 DEF ShutdownEnd, Becomes, Having, ShapeOK
    <2> QED
      BY <1>1, <2>2 DEF ShutdownEnd, DiscardAll, AnnounceChange, flags
  <1>3. S \in SUBSET Ticket /\ \A t \in S : fate[t] \in {"ready", "dropped"}
    BY DEF Having
  <1>4. /\ fate' \in [Ticket -> Fate]
        /\ \A o \in Owner : ReadyFor(o)' = ReadyFor(o) \ S
        /\ Having("pending")' = Having("pending")
        /\ Having("running")' = Having("running")
    <2>1. "released" \in Fate /\ fate \in [Ticket -> Fate]
      BY <1>0 DEF ShapeOK, Fate
    <2>2. fate' \in [Ticket -> Fate] /\ \A o \in Owner : ReadyFor(o)' = ReadyFor(o) \ S
      <3> HIDE DEF S
      <3>1. fate' \in [Ticket -> Fate]
        BY <1>2, <1>3, <2>1, BecomesEffect
      <3>2. \A o \in Owner :
              ReadyFor(o)' = IF "released" = "ready"
                             THEN ReadyFor(o) \cup {t \in S : owner[t] = o}
                             ELSE ReadyFor(o) \ S
        BY <1>2, <1>3, <2>1, ReadyEffect
      <3> QED
        BY <3>1, <3>2
    <2>3. \A f \in Fate \ {"released"} : Having(f)' = Having(f) \ S
      BY <1>2, <1>3, <2>1, BecomesEffect
    <2> QED
      BY <2>2, <2>3, <1>1 DEF Fate
  <1>5. ShapeOK'
    <2>1. ready' \in [Owner -> Seq(Ticket)]
      <3>1. CASE keep
        BY <3>1, <1>0, <1>2 DEF ShapeOK
      <3>2. CASE ~keep
        <4>1. ready' = [o \in Owner |-> <<>>]
          BY <3>2, <1>2
        <4> QED
          BY <4>1
      <3> QED
        BY <3>1, <3>2
    <2>2. call' \in [Caller -> Call]
      BY <1>0, <1>2 DEF ShapeOK, Call
    <2>3. workers' \in 0 .. Capacity
      BY <1>2, CapacityAssumption
    <2> QED
      BY <1>0, <1>2, <1>4, <2>1, <2>2, <2>3 DEF ShapeOK
  <1>6. PendingLink' /\ JobLink'
    BY <1>0, <1>2, <1>4 DEF Links, PendingLink, JobLink
  <1>7. TicketLink'
    BY <1>0, <1>2, <1>3 DEF Links, TicketLink, Becomes, ShapeOK
  <1>8. ThreadLink'
    BY <1>0, <1>1, <1>2 DEF Links, ThreadLink, Joined, Worker
  <1>9. ReadyLink'
    <2>1. CASE keep
      BY <2>1, <1>0, <1>2, <1>4 DEF Links, ReadyLink
    <2>2. CASE ~keep
      <3>1. \A o \in Owner : ReadyFor(o)' = {}
        BY <2>2, <1>4 DEF ReadyFor, Having
      <3>2. \A o \in Owner : ready'[o] = <<>>
        BY <2>2, <1>2
      <3> QED
        BY <3>1, <3>2, EmptyBuffers
    <2> QED
      BY <2>1, <2>2
  <1> QED
    BY <1>5, <1>6, <1>7, <1>8, <1>9 DEF Structure, Links

\* discard_completions after the shutdown.
LEMMA StructureDiscard ==
  ASSUME Structure, DiscardCompletions
  PROVE  Structure'
  <1> DEFINE S == Having("ready") \cup Having("dropped")
  <1>0. ShapeOK /\ Links
    BY DEF Structure
  <1>1. /\ fate' = Becomes(S, "released")
        /\ ready' = [o \in Owner |-> <<>>] /\ tokens' = {}
        /\ UNCHANGED <<pending, workers, phase, job, next_ticket, intake_closed,
                       expired, broken, cancelled, owner, call, departed>>
        /\ sleeping' = {} /\ blocked' = {}
    BY DEF DiscardCompletions, DiscardAll, threads, flags, AnnounceChange
  <1>2. S \in SUBSET Ticket /\ \A t \in S : fate[t] \in {"ready", "dropped"}
    BY DEF Having
  <1>3. /\ fate' \in [Ticket -> Fate]
        /\ PendingLink' /\ JobLink' /\ TicketLink' /\ ThreadLink'
        /\ \A o \in Owner : ReadyFor(o)' = ReadyFor(o) \ S
    BY <1>1, <1>2, StructureCompletionsLeave
  <1>4. ReadyLink'
    <2>1. \A o \in Owner : ReadyFor(o)' = {}
      BY <1>3 DEF ReadyFor, Having
    <2>2. \A o \in Owner : ready'[o] = <<>>
      BY <1>1
    <2> QED
      BY <2>1, <2>2, EmptyBuffers
  <1>5. ShapeOK'
    <2>1. ready' \in [Owner -> Seq(Ticket)]
      BY <1>1
    <2> QED
      BY <1>0, <1>1, <1>3, <2>1 DEF ShapeOK
  <1> QED
    BY <1>3, <1>4, <1>5 DEF Structure, Links

\* release_owned: the buffered completions of one owner leave.
LEMMA StructureRelease ==
  ASSUME Structure, NEW o \in Owner, ReleaseOwned(o)
  PROVE  Structure'
  <1> DEFINE S == Range(ready[o])
  <1>0. ShapeOK /\ Links
    BY DEF Structure
  <1>1. /\ fate' = Becomes(S, "released")
        /\ ready' = [ready EXCEPT ![o] = <<>>]
        /\ tokens' \subseteq tokens
        /\ departed' = departed \cup {o}
        /\ UNCHANGED <<pending, workers, phase, job, next_ticket, intake_closed,
                       expired, broken, cancelled, owner, call>>
        /\ sleeping' = {} /\ blocked' = {}
    BY DEF ReleaseOwned, threads, flags, AnnounceChange
  <1>2. S = ReadyFor(o)
    BY <1>0 DEF Links, ReadyLink
  <1>3. S \in SUBSET Ticket /\ \A t \in S : fate[t] \in {"ready", "dropped"}
    BY <1>2 DEF ReadyFor
  <1>4. /\ fate' \in [Ticket -> Fate]
        /\ PendingLink' /\ JobLink' /\ TicketLink' /\ ThreadLink'
        /\ \A p \in Owner : ReadyFor(p)' = ReadyFor(p) \ S
    BY <1>1, <1>3, StructureCompletionsLeave
  <1>5. ReadyLink'
    <2> SUFFICES ASSUME NEW p \in Owner
                 PROVE  /\ Range(ready'[p]) = ReadyFor(p)'
                        /\ \A i, j \in 1 .. Len(ready'[p]) :
                             i # j => ready'[p][i] # ready'[p][j]
      BY DEF ReadyLink
    <2>1. CASE p = o
      <3>1. ready'[p] = <<>> /\ ReadyFor(p)' = {}
        BY <2>1, <1>0, <1>1, <1>2, <1>4 DEF ShapeOK
      <3>2. Range(ready'[p]) = {} /\ 1 .. Len(ready'[p]) = {}
        BY <3>1, EmptyRange
      <3> QED
        BY <3>1, <3>2, Zenon
    <2>2. CASE p # o
      <3>1. ready'[p] = ready[p]
        BY <2>2, <1>0, <1>1 DEF ShapeOK
      <3>2. ReadyFor(p)' = ReadyFor(p)
        BY <2>2, <1>2, <1>4 DEF ReadyFor
      <3> QED
        BY <3>1, <3>2, <1>0 DEF Links, ReadyLink
    <2> QED
      BY <2>1, <2>2
  <1>6. ShapeOK'
    <2>1. ready' \in [Owner -> Seq(Ticket)]
      BY <1>0, <1>1 DEF ShapeOK
    <2> QED
      BY <1>0, <1>1, <1>4, <2>1 DEF ShapeOK
  <1> QED
    BY <1>4, <1>5, <1>6 DEF Structure, Links

\* A thread takes the oldest queued job.
LEMMA StructureTakeAdmitted ==
  ASSUME Structure, NEW w \in Worker, TakeAdmitted(w)
  PROVE  Structure'
  <1> DEFINE h == Head(pending)
  <1>0. ShapeOK /\ Links
    BY DEF Structure
  <1>1. /\ pending # <<>>
        /\ phase[w] = "taking"
        /\ pending' = Tail(pending)
        /\ phase' = [phase EXCEPT ![w] = "running"]
        /\ job' = [job EXCEPT ![w] = h]
        /\ fate' = Becomes({h}, "running")
        /\ ~broken
        /\ UNCHANGED <<ready, tokens, workers, next_ticket, intake_closed, expired,
                       broken, cancelled, owner, sleeping, call, blocked, departed>>
    BY DEF TakeAdmitted, Taking, flags, WorkerStops
  <1>2. /\ \A i, j \in 1 .. Len(pending) : i < j => pending[i] < pending[j]
        /\ Range(pending) = Having("pending")
        /\ pending \in Seq(Ticket)
    BY <1>0 DEF ShapeOK, Links, PendingLink
  <1>3. \A i \in 1 .. Len(pending) : pending[i] \in Nat
    <2>1. \A i \in 1 .. Len(pending) : pending[i] \in Ticket
      BY <1>2
    <2> QED
      BY <2>1, TicketType
  <1>4. \A i, j \in 1 .. Len(pending) : i # j => pending[i] # pending[j]
    BY <1>2, <1>3
  <1>5. /\ Tail(pending) \in Seq(Ticket)
        /\ Len(Tail(pending)) = Len(pending) - 1
        /\ h \in Having("pending") /\ h \in Ticket
        /\ \A i \in 1 .. Len(pending) - 1 : Tail(pending)[i] = pending[i + 1]
        /\ Range(Tail(pending)) = Having("pending") \ {h}
    BY <1>1, <1>2, <1>4, TailRange
  <1>6. /\ fate' \in [Ticket -> Fate]
        /\ Having("running")' = Having("running") \cup {h}
        /\ Having("pending")' = Having("pending") \ {h}
        /\ \A o \in Owner : ReadyFor(o)' = ReadyFor(o)
    <2>1. {h} \in SUBSET Ticket /\ "running" \in Fate /\ fate \in [Ticket -> Fate]
      BY <1>0, <1>5 DEF ShapeOK, Fate
    <2>2. /\ fate' \in [Ticket -> Fate]
          /\ Having("running")' = Having("running") \cup {h}
          /\ \A f \in Fate \ {"running"} : Having(f)' = Having(f) \ {h}
      BY <1>1, <2>1, BecomesEffect
    <2>3. \A o \in Owner : ReadyFor(o)' = ReadyFor(o)
      BY <1>0, <1>1, <1>5 DEF ReadyFor, Having, Becomes, ShapeOK
    <2> QED
      BY <2>2, <2>3 DEF Fate
  <1>7. ShapeOK'
    <2>1. /\ phase' \in [Worker -> {"absent", "taking", "running", "exited"}]
          /\ job' \in [Worker -> Ticket \cup {NoTicket}]
      BY <1>0, <1>1, <1>5 DEF ShapeOK
    <2> QED
      BY <1>0, <1>1, <1>5, <1>6, <2>1 DEF ShapeOK
  <1>8. PendingLink'
    <2>1. Len(pending) \in Nat
      BY <1>2
    <2>2. \A i, j \in 1 .. Len(pending) - 1 :
            i < j => Tail(pending)[i] < Tail(pending)[j]
      <3> SUFFICES ASSUME NEW i \in 1 .. Len(pending) - 1,
                          NEW j \in 1 .. Len(pending) - 1, i < j
                   PROVE  Tail(pending)[i] < Tail(pending)[j]
        OBVIOUS
      <3>1. i + 1 \in 1 .. Len(pending) /\ j + 1 \in 1 .. Len(pending) /\ i + 1 < j + 1
        BY <2>1
      <3> QED
        BY <3>1, <1>2, <1>5
    <2> QED
      BY <2>2, <1>1, <1>5, <1>6 DEF PendingLink
  <1>9. ReadyLink'
    BY <1>0, <1>1, <1>6 DEF Links, ReadyLink
  <1>10. JobLink'
    <2>1. h \notin Having("running")
      BY <1>5 DEF Having
    <2>2. /\ phase'[w] = "running" /\ job'[w] = h
          /\ \A v \in Worker \ {w} : phase'[v] = phase[v] /\ job'[v] = job[v]
      BY <1>0, <1>1 DEF ShapeOK
    <2>3. \A v \in Worker \ {w} : phase[v] = "running" => job[v] # h
      BY <2>1, <1>0 DEF Links, JobLink
    <2>4. \A v \in Worker : phase'[v] = "running" => job'[v] \in Having("running")'
      BY <2>2, <1>0, <1>6 DEF Links, JobLink
    <2>5. \A u, v \in Worker : phase'[u] = "running" /\ phase'[v] = "running" /\ u # v
                               => job'[u] # job'[v]
      BY <2>2, <2>3, <1>0 DEF Links, JobLink
    <2>6. \A t \in Having("running")' :
            \E v \in Worker : phase'[v] = "running" /\ job'[v] = t
      BY <2>2, <1>0, <1>1, <1>6 DEF Links, JobLink
    <2> QED
      BY <2>4, <2>5, <2>6 DEF JobLink
  <1>11. TicketLink'
    BY <1>0, <1>1, <1>5 DEF Links, TicketLink, Becomes, ShapeOK, Having
  <1>12. ThreadLink'
    BY <1>0, <1>1 DEF Links, ThreadLink, ShapeOK
  <1> QED
    BY <1>7, <1>8, <1>9, <1>10, <1>11, <1>12 DEF Structure, Links

\* A thread ends.
LEMMA StructureWorkerExits ==
  ASSUME Structure, NEW w \in Worker, WorkerExits(w)
  PROVE  Structure'
  <1>0. ShapeOK /\ Links
    BY DEF Structure
  <1>1. /\ phase[w] = "taking"
        /\ phase' = [phase EXCEPT ![w] = "exited"]
        /\ broken \/ pending = <<>>
        /\ pending # <<>> \/ intake_closed \/ broken
        /\ UNCHANGED <<pending, ready, tokens, workers, job, next_ticket,
                       intake_closed, expired, broken, cancelled, owner, sleeping,
                       call, blocked, departed, fate>>
    BY DEF WorkerExits, Taking, WorkAvailable, WorkerStops, queues, flags
  <1>2. ShapeOK'
    BY <1>0, <1>1 DEF ShapeOK
  <1>3. PendingLink' /\ ReadyLink' /\ TicketLink'
    BY <1>0, <1>1 DEF Links, PendingLink, ReadyLink, TicketLink, Having, ReadyFor
  <1>4. JobLink'
    BY <1>0, <1>1 DEF Links, JobLink, Having, ShapeOK
  <1>5. ThreadLink'
    BY <1>0, <1>1 DEF Links, ThreadLink, ShapeOK
  <1> QED
    BY <1>2, <1>3, <1>4, <1>5 DEF Structure, Links

\* The thread whose job ended no longer holds it, and the others keep theirs.
LEMMA FinishFreesJob ==
  ASSUME Structure, NEW w \in Worker, Finish(w)
  PROVE  /\ job[w] \in Having("running") /\ job[w] \in Ticket
         /\ phase' \in [Worker -> {"absent", "taking", "running", "exited"}]
         /\ job' \in [Worker -> Ticket \cup {NoTicket}]
         /\ phase[w] = "running" /\ phase'[w] = "taking"
         /\ \A v \in Worker \ {w} : phase'[v] = phase[v] /\ job'[v] = job[v]
         /\ Having("running")' = Having("running") \ {job[w]} => JobLink'
  <1>0. ShapeOK /\ Links
    BY DEF Structure
  <1>1. /\ phase[w] = "running"
        /\ phase' = [phase EXCEPT ![w] = "taking"]
        /\ job' = [job EXCEPT ![w] = NoTicket]
    BY DEF Finish
  <1>2. job[w] \in Having("running") /\ job[w] \in Ticket
    BY <1>0, <1>1 DEF Links, JobLink, Having
  <1>3. /\ phase' \in [Worker -> {"absent", "taking", "running", "exited"}]
        /\ job' \in [Worker -> Ticket \cup {NoTicket}]
        /\ phase'[w] = "taking"
        /\ \A v \in Worker \ {w} : phase'[v] = phase[v] /\ job'[v] = job[v]
    BY <1>0, <1>1 DEF ShapeOK
  <1>4. ASSUME Having("running")' = Having("running") \ {job[w]}
        PROVE  JobLink'
    <2>1. \A v \in Worker : phase'[v] = "running" => v # w
      BY <1>3
    <2>2. \A v \in Worker : phase'[v] = "running" => job'[v] \in Having("running")'
      BY <2>1, <1>0, <1>1, <1>3, <1>4 DEF Links, JobLink
    <2>3. \A u, v \in Worker : phase'[u] = "running" /\ phase'[v] = "running" /\ u # v
                               => job'[u] # job'[v]
      BY <2>1, <1>0, <1>3 DEF Links, JobLink
    <2>4. \A t \in Having("running")' :
            \E v \in Worker : phase'[v] = "running" /\ job'[v] = t
      BY <1>0, <1>3, <1>4 DEF Links, JobLink
    <2> QED
      BY <2>2, <2>3, <2>4 DEF JobLink
  <1> QED
    BY <1>1, <1>2, <1>3, <1>4

\* A completion joins the buffer of its owner.
LEMMA StructureFinishCompletes ==
  ASSUME Structure, NEW w \in Worker, FinishCompletes(w)
  PROVE  Structure'
  <1> DEFINE t == job[w]
             o == owner[t]
  <1>0. ShapeOK /\ Links
    BY DEF Structure
  <1>1. /\ Finish(w)
        /\ ready' = [ready EXCEPT ![o] = Append(ready[o], t)]
        /\ fate' = Becomes({t}, "ready")
        /\ UNCHANGED <<pending, tokens, workers, next_ticket, intake_closed,
                       expired, broken, cancelled, owner, call, departed>>
        /\ sleeping' = {} /\ blocked' = {}
    BY DEF FinishCompletes, Finish, AnnounceChange, flags
  <1>2. /\ t \in Having("running") /\ t \in Ticket
        /\ phase' \in [Worker -> {"absent", "taking", "running", "exited"}]
        /\ job' \in [Worker -> Ticket \cup {NoTicket}]
        /\ phase[w] = "running" /\ phase'[w] = "taking"
        /\ \A v \in Worker \ {w} : phase'[v] = phase[v] /\ job'[v] = job[v]
        /\ Having("running")' = Having("running") \ {t} => JobLink'
    BY <1>1, FinishFreesJob
  <1>3. o \in Owner /\ ready[o] \in Seq(Ticket)
    BY <1>0, <1>2 DEF ShapeOK
  <1>4. /\ Append(ready[o], t) \in Seq(Ticket)
        /\ Len(Append(ready[o], t)) = Len(ready[o]) + 1
        /\ Append(ready[o], t)[Len(ready[o]) + 1] = t
        /\ \A i \in 1 .. Len(ready[o]) : Append(ready[o], t)[i] = ready[o][i]
        /\ Range(Append(ready[o], t)) = Range(ready[o]) \cup {t}
    BY <1>2, <1>3, AppendRange
  <1>5. /\ fate' \in [Ticket -> Fate]
        /\ Having("running")' = Having("running") \ {t}
        /\ Having("pending")' = Having("pending")
        /\ \A p \in Owner : ReadyFor(p)' = IF p = o THEN ReadyFor(p) \cup {t}
                                           ELSE ReadyFor(p)
    <2>1. {t} \in SUBSET Ticket /\ "ready" \in Fate /\ fate \in [Ticket -> Fate]
      BY <1>0, <1>2 DEF ShapeOK, Fate
    <2>2. /\ fate' \in [Ticket -> Fate]
          /\ \A f \in Fate \ {"ready"} : Having(f)' = Having(f) \ {t}
      BY <1>1, <2>1, BecomesEffect
    <2>3. t \notin Having("pending")
      BY <1>2 DEF Having
    <2>4. \A p \in Owner : ReadyFor(p)' = IF p = o THEN ReadyFor(p) \cup {t}
                                          ELSE ReadyFor(p)
      BY <1>0, <1>1, <1>2 DEF ReadyFor, Becomes, ShapeOK
    <2> QED
      BY <2>2, <2>3, <2>4 DEF Fate
  <1>6. ShapeOK'
    <2>1. ready' \in [Owner -> Seq(Ticket)]
      BY <1>0, <1>1, <1>3, <1>4 DEF ShapeOK
    <2> QED
      BY <1>0, <1>1, <1>2, <1>5, <2>1 DEF ShapeOK
  <1>7. PendingLink' /\ JobLink'
    BY <1>0, <1>1, <1>2, <1>5 DEF Links, PendingLink
  <1>8. ReadyLink'
    <2> SUFFICES ASSUME NEW p \in Owner
                 PROVE  /\ Range(ready'[p]) = ReadyFor(p)'
                        /\ \A i, j \in 1 .. Len(ready'[p]) :
                             i # j => ready'[p][i] # ready'[p][j]
      BY DEF ReadyLink
    <2>1. CASE p = o
      <3>1. ready'[p] = Append(ready[o], t)
        BY <2>1, <1>0, <1>1 DEF ShapeOK
      <3>2. /\ Range(ready[o]) = ReadyFor(o)
            /\ \A i, j \in 1 .. Len(ready[o]) : i # j => ready[o][i] # ready[o][j]
        BY <1>0, <1>3 DEF Links, ReadyLink
      <3>3. \A i \in 1 .. Len(ready[o]) : ready[o][i] # t
        <4> SUFFICES ASSUME NEW i \in 1 .. Len(ready[o]) PROVE ready[o][i] # t
          OBVIOUS
        <4>1. ready[o][i] \in ReadyFor(o)
          BY <3>2, <1>3 DEF Range
        <4> QED
          BY <4>1, <1>2 DEF ReadyFor, Having
      <3>4. Len(ready[o]) \in Nat
        BY <1>3
      <3> DEFINE q == Append(ready[o], t)
      <3>5. \A i, j \in 1 .. Len(q) : i # j => q[i] # q[j]
        <4> HIDE DEF q
        <4>1. /\ Len(q) = Len(ready[o]) + 1
              /\ q[Len(ready[o]) + 1] = t
              /\ \A i \in 1 .. Len(ready[o]) : q[i] = ready[o][i]
          BY <1>4 DEF q
        <4> QED
          BY <4>1, <3>2, <3>3, <3>4
      <3> QED
        BY <2>1, <3>1, <3>2, <3>5, <1>4, <1>5
    <2>2. CASE p # o
      <3>1. ready'[p] = ready[p] /\ ReadyFor(p)' = ReadyFor(p)
        BY <2>2, <1>0, <1>1, <1>5 DEF ShapeOK
      <3> QED
        BY <3>1, <1>0 DEF Links, ReadyLink
    <2> QED
      BY <2>1, <2>2
  <1>9. TicketLink'
    BY <1>0, <1>1, <1>2 DEF Links, TicketLink, Becomes, ShapeOK, Having
  <1>10. ThreadLink'
    BY <1>0, <1>1, <1>2 DEF Links, ThreadLink, ShapeOK
  <1> QED
    BY <1>6, <1>7, <1>8, <1>9, <1>10 DEF Structure, Links

\* A failing job breaks the scheduler: the job and the queue are dropped.
LEMMA StructureFinishBreaks ==
  ASSUME Structure, NEW w \in Worker, FinishBreaks(w)
  PROVE  Structure'
  <1> DEFINE t == job[w]
             S == {t} \cup Range(pending)
  <1>0. ShapeOK /\ Links
    BY DEF Structure
  <1>1. /\ Finish(w)
        /\ pending' = <<>>
        /\ broken' = TRUE /\ intake_closed' = TRUE
        /\ fate' = Becomes(S, "dropped")
        /\ tokens' \subseteq tokens
        /\ cancelled' = cancelled \cup Range(pending)
        /\ UNCHANGED <<ready, workers, next_ticket, expired, owner, call, departed>>
        /\ sleeping' = {} /\ blocked' = {}
    BY DEF FinishBreaks, Finish, Break, AnnounceChange
  <1>2. /\ t \in Having("running") /\ t \in Ticket
        /\ phase' \in [Worker -> {"absent", "taking", "running", "exited"}]
        /\ job' \in [Worker -> Ticket \cup {NoTicket}]
        /\ phase[w] = "running" /\ phase'[w] = "taking"
        /\ \A v \in Worker \ {w} : phase'[v] = phase[v] /\ job'[v] = job[v]
        /\ Having("running")' = Having("running") \ {t} => JobLink'
    BY <1>1, FinishFreesJob
  <1>3. Range(pending) = Having("pending") /\ S \in SUBSET Ticket
    BY <1>0, <1>2 DEF Links, PendingLink, Having
  <1>4. /\ fate' \in [Ticket -> Fate]
        /\ Having("running")' = Having("running") \ {t}
        /\ Having("pending")' = {}
        /\ \A p \in Owner : ReadyFor(p)' = ReadyFor(p)
    <2>1. "dropped" \in Fate /\ fate \in [Ticket -> Fate]
      BY <1>0 DEF ShapeOK, Fate
    <2>2. /\ fate' \in [Ticket -> Fate]
          /\ \A f \in Fate \ {"dropped"} : Having(f)' = Having(f) \ S
      BY <1>1, <1>3, <2>1, BecomesEffect
    <2>3. Having("running") \ S = Having("running") \ {t} /\ Having("pending") \ S = {}
      BY <1>3 DEF Having
    <2>4. \A p \in Owner : ReadyFor(p)' = ReadyFor(p)
      BY <1>0, <1>1, <1>2, <1>3 DEF ReadyFor, Becomes, ShapeOK, Having
    <2> QED
      BY <2>2, <2>3, <2>4 DEF Fate
  <1>5. ShapeOK'
    <2>1. pending' \in Seq(Ticket)
      BY <1>1
    <2>2. cancelled' \subseteq Ticket /\ tokens' \subseteq Ticket
      BY <1>0, <1>1, <1>3 DEF ShapeOK
    <2> QED
      BY <1>0, <1>1, <1>2, <1>4, <2>1, <2>2 DEF ShapeOK
  <1>6. PendingLink' /\ JobLink'
    BY <1>1, <1>2, <1>4, EmptyQueue
  <1>7. ReadyLink'
    BY <1>0, <1>1, <1>4 DEF Links, ReadyLink
  <1>8. TicketLink'
    BY <1>0, <1>1, <1>2, <1>3 DEF Links, TicketLink, Becomes, ShapeOK, Having
  <1>9. ThreadLink'
    BY <1>0, <1>1, <1>2 DEF Links, ThreadLink, ShapeOK
  <1> QED
    BY <1>5, <1>6, <1>7, <1>8, <1>9 DEF Structure, Links

-----------------------------------------------------------------------------
(* The counters: Accounting, the queue sizes and the thread supply.         *)

Counters ==
  /\ QueueSizes
  /\ Accounting
  /\ EveryJobHasAThread
  /\ residents <= Capacity

\* There are finitely many tickets, and one more or one less counts as one.
LEMMA TicketSets ==
  ASSUME NEW A \in SUBSET Ticket
  PROVE  /\ IsFiniteSet(A) /\ Cardinality(A) \in Nat
         /\ \A x \in Ticket \ A : Cardinality(A \cup {x}) = Cardinality(A) + 1
         /\ \A x \in A : Cardinality(A \ {x}) = Cardinality(A) - 1
  <1>1. IsFiniteSet(Ticket)
    BY MaxJobsAssumption, FS_Interval DEF Ticket
  <1>2. IsFiniteSet(A)
    BY <1>1, FS_Subset
  <1>3. Cardinality(A) \in Nat
    BY <1>2, FS_CardinalityType
  <1>4. ASSUME NEW x \in Ticket \ A
        PROVE  Cardinality(A \cup {x}) = Cardinality(A) + 1
    BY <1>2, FS_AddElement
  <1>5. ASSUME NEW x \in A
        PROVE  Cardinality(A \ {x}) = Cardinality(A) - 1
    BY <1>2, FS_RemoveElement
  <1> QED
    BY <1>2, <1>3, <1>4, <1>5

\* The sets the counters stand for are sets of tickets.
LEMMA CountedSets ==
  /\ \A f \in Fate : Having(f) \in SUBSET Ticket
  /\ \A o \in Owner : ReadyFor(o) \in SUBSET Ticket
  /\ Occupying \in SUBSET Ticket
  BY DEF Having, ReadyFor, Occupying

\* The occupying tickets when the tickets in S become g.
LEMMA OccupyingEffect ==
  ASSUME fate \in [Ticket -> Fate], NEW S \in SUBSET Ticket, NEW g \in Fate,
         fate' = Becomes(S, g)
  PROVE  Occupying' = IF g \in {"pending", "running", "ready", "dropped"}
                      THEN Occupying \cup S ELSE Occupying \ S
  BY DEF Becomes, Occupying

\* The queued and the running jobs are among the residents.
LEMMA QueuedAndRunningFit ==
  ASSUME Structure, QueueSizes, Accounting
  PROVE  /\ Len(pending) \in Nat /\ running \in Nat /\ residents \in Nat
         /\ Len(pending) + running <= residents
  <1> DEFINE P == Having("pending")
             R == Having("running")
  <1>1. P \in SUBSET Ticket /\ R \in SUBSET Ticket /\ Occupying \in SUBSET Ticket
    BY CountedSets DEF Fate
  <1>2. /\ Cardinality(P) \in Nat /\ Cardinality(R) \in Nat
        /\ Cardinality(Occupying) \in Nat
        /\ IsFiniteSet(P) /\ IsFiniteSet(R) /\ IsFiniteSet(Occupying)
    BY <1>1, TicketSets
  <1>3. P \cap R = {} /\ P \cup R \in SUBSET Occupying
    BY DEF Having, Occupying
  <1>4. Cardinality(P \cup R) = Cardinality(P) + Cardinality(R) - Cardinality(P \cap R)
    BY <1>2, FS_Union
  <1>5. Cardinality(P \cap R) = 0
    BY <1>3, FS_EmptySet
  <1>6. Cardinality(P \cup R) <= Cardinality(Occupying)
    BY <1>2, <1>3, FS_Subset
  <1> QED
    BY <1>2, <1>4, <1>5, <1>6 DEF QueueSizes, Accounting

\* Counters of the initial state.
LEMMA CountersInit == Init => Counters
  <1> SUFFICES ASSUME Init PROVE Counters
    OBVIOUS
  <1>1. /\ Having("pending") = {} /\ Having("running") = {} /\ Having("ready") = {}
        /\ Occupying = {} /\ \A o \in Owner : ReadyFor(o) = {}
    BY DEF Init, Having, Occupying, ReadyFor
  <1>2. QueueSizes /\ Accounting
    BY <1>1, FS_EmptySet DEF Init, QueueSizes, Accounting
  <1> QED
    BY <1>2, CapacityAssumption DEF Init, Counters, EveryJobHasAThread

\* Steps that move no job keep every count.
LEMMA CountersQuiet ==
  ASSUME Counters,
         UNCHANGED <<pending, ready, tokens, residents, running, workers, owner, fate>>
  PROVE  Counters'
  <1>1. QueueSizes'
    BY DEF Counters, QueueSizes, Having, ReadyFor
  <1>2. Accounting'
    BY DEF Counters, Accounting, Having, Occupying
  <1> QED
    BY <1>1, <1>2 DEF Counters, EveryJobHasAThread

\* The ticket admit issues is a new one.
LEMMA FreshTicket ==
  ASSUME Structure, next_ticket < MaxJobs
  PROVE  /\ next_ticket \in Ticket /\ fate[next_ticket] = "new"
         /\ next_ticket \notin Having("pending") /\ next_ticket \notin Occupying
         /\ next_ticket \notin Having("running") /\ next_ticket \notin Having("ready")
  <1>1. next_ticket \in Ticket /\ fate[next_ticket] = "new"
    BY MaxJobsAssumption DEF Structure, ShapeOK, Links, TicketLink, Ticket
  <1> QED
    BY <1>1 DEF Having, Occupying

\* admit: one more resident, and a thread for it.
LEMMA CountersAdmit ==
  ASSUME Structure, Counters, NEW o \in Owner, Admit(o)
  PROVE  Counters'
  <1> DEFINE n == next_ticket
             queue == Append(pending, n)
             starts == NeedsWorker(queue)
  <1>0. ShapeOK /\ QueueSizes /\ Accounting /\ EveryJobHasAThread
    BY DEF Structure, Counters
  <1>1. /\ pending' = queue
        /\ tokens' = tokens \cup {n}
        /\ residents' = residents + 1 /\ running' = running
        /\ residents < Capacity
        /\ owner' = [owner EXCEPT ![n] = o]
        /\ ready' = ready
        /\ fate' = Becomes({n}, "pending")
        /\ workers' = IF starts THEN workers + 1 ELSE workers
    BY DEF Admit, Admission, CanAdmit
  <1>2. /\ n \in Ticket /\ fate[n] = "new"
        /\ n \notin Having("pending") /\ n \notin Occupying
        /\ n \notin Having("running") /\ n \notin Having("ready")
    BY FreshTicket DEF Admit, Admission
  <1>3. {n} \in SUBSET Ticket /\ "pending" \in Fate /\ fate \in [Ticket -> Fate]
    BY <1>0, <1>2 DEF ShapeOK, Fate
  <1>4. /\ Having("pending")' = Having("pending") \cup {n}
        /\ \A f \in Fate \ {"pending"} : Having(f)' = Having(f) \ {n}
    BY <1>1, <1>3, BecomesEffect
  <1>5. Having("running")' = Having("running") /\ Having("ready")' = Having("ready")
    BY <1>2, <1>4 DEF Fate
  <1>6. Occupying' = Occupying \cup {n}
    BY <1>1, <1>3, OccupyingEffect
  <1>7. \A p \in Owner : ReadyFor(p)' = ReadyFor(p)
    BY <1>0, <1>1, <1>2 DEF ReadyFor, Becomes, ShapeOK
  <1>8. Len(queue) = Len(pending) + 1
    BY <1>0, <1>2, AppendRange DEF ShapeOK
  <1>9. Cardinality(Having("pending") \cup {n}) = Cardinality(Having("pending")) + 1
    BY <1>2, TicketSets, CountedSets DEF Fate
  <1>10. Cardinality(Occupying \cup {n}) = Cardinality(Occupying) + 1
    BY <1>2, TicketSets, CountedSets
  <1>11. QueueSizes'
    BY <1>0, <1>1, <1>4, <1>7, <1>8, <1>9 DEF QueueSizes
  <1>12. Accounting'
    BY <1>0, <1>1, <1>4, <1>5, <1>6, <1>10 DEF Accounting
  <1>13. /\ Len(pending) \in Nat /\ running \in Nat /\ residents \in Nat
         /\ Len(pending) + running <= residents
    BY <1>0, QueuedAndRunningFit
  <1>14. workers \in Int
    BY <1>0, CapacityAssumption DEF ShapeOK
  <1>15. EveryJobHasAThread'
    <2>1. Len(pending') = Len(pending) + 1
      BY <1>1, <1>8
    <2>2. CASE starts
      BY <2>1, <2>2, <1>0, <1>1, <1>13, <1>14 DEF EveryJobHasAThread
    <2>3. CASE ~starts
      <3>1. ~(workers - running < Len(pending) + 1) \/ ~(workers < Capacity)
        BY <2>3, <1>8 DEF NeedsWorker
      <3> QED
        BY <3>1, <2>1, <2>3, <1>1, <1>13, <1>14, CapacityAssumption
           DEF EveryJobHasAThread
    <2> QED
      BY <2>2, <2>3
  <1>16. residents' <= Capacity
    BY <1>1, <1>13, CapacityAssumption
  <1> QED
    BY <1>11, <1>12, <1>15, <1>16 DEF Counters

\* A failed thread start: the dropped jobs go on being counted.
LEMMA CountersAdmitStartFails ==
  ASSUME Structure, Counters, NEW o \in Owner, AdmitStartFails(o)
  PROVE  Counters'
  <1> DEFINE n == next_ticket
             queue == Append(pending, n)
  <1>0. ShapeOK /\ Links /\ QueueSizes /\ Accounting /\ EveryJobHasAThread
    BY DEF Structure, Counters
  <1>1. /\ pending' = <<>>
        /\ tokens' = (tokens \cup {n}) \ Range(queue)
        /\ residents' = residents + 1 /\ running' = running
        /\ residents < Capacity
        /\ owner' = [owner EXCEPT ![n] = o]
        /\ ready' = ready /\ workers' = workers
        /\ fate' = Becomes(Range(queue), "dropped")
    BY DEF AdmitStartFails, Admission, CanAdmit, Break, Becomes
  <1>2. /\ n \in Ticket /\ fate[n] = "new"
        /\ n \notin Having("pending") /\ n \notin Occupying
        /\ n \notin Having("running") /\ n \notin Having("ready")
    BY FreshTicket DEF AdmitStartFails, Admission
  <1>3. Range(queue) = Having("pending") \cup {n}
    BY <1>0, <1>2, AppendRange DEF ShapeOK, Links, PendingLink
  <1>4. /\ Range(queue) \in SUBSET Ticket
        /\ "dropped" \in Fate /\ fate \in [Ticket -> Fate]
    BY <1>0, <1>2, <1>3 DEF ShapeOK, Fate, Having
  <1>5. \A f \in Fate \ {"dropped"} : Having(f)' = Having(f) \ Range(queue)
    BY <1>1, <1>4, BecomesEffect
  <1>6. /\ Having("pending")' = {}
        /\ Having("running")' = Having("running") /\ Having("ready")' = Having("ready")
    BY <1>2, <1>3, <1>5 DEF Fate, Having
  <1>7. Occupying' = Occupying \cup {n}
    <2>1. Occupying' = Occupying \cup Range(queue)
      BY <1>1, <1>4, OccupyingEffect
    <2>2. Having("pending") \subseteq Occupying
      BY DEF Having, Occupying
    <2> QED
      BY <2>1, <2>2, <1>3
  <1>8. \A p \in Owner : ReadyFor(p)' = ReadyFor(p)
    BY <1>0, <1>1, <1>2, <1>3 DEF ReadyFor, Becomes, ShapeOK, Having
  <1>9. Cardinality(Occupying \cup {n}) = Cardinality(Occupying) + 1
    BY <1>2, TicketSets, CountedSets
  <1>10. Len(pending') = 0
    BY <1>1
  <1>11. QueueSizes'
    BY <1>0, <1>1, <1>6, <1>8, <1>10, FS_EmptySet DEF QueueSizes
  <1>12. Accounting'
    <2>1. tokens' = Having("running") \cup Having("ready")
      BY <1>0, <1>1, <1>2, <1>3 DEF Accounting, Having
    <2> QED
      BY <2>1, <1>0, <1>1, <1>6, <1>7, <1>9 DEF Accounting
  <1>13. Len(pending) \in Nat /\ running \in Nat /\ residents \in Nat
    BY <1>0, QueuedAndRunningFit
  <1>14. EveryJobHasAThread'
    BY <1>0, <1>1, <1>10, <1>13, CapacityAssumption DEF EveryJobHasAThread, ShapeOK
  <1>15. residents' <= Capacity
    BY <1>1, <1>13, CapacityAssumption
  <1> QED
    BY <1>11, <1>12, <1>14, <1>15 DEF Counters

\* A claimed completion frees its slot.
LEMMA CountersTakeReady ==
  ASSUME Structure, Counters, NEW o \in Owner, TakeReady(o)
  PROVE  Counters'
  <1> DEFINE h == Head(ready[o])
  <1>0. ShapeOK /\ Links /\ QueueSizes /\ Accounting /\ EveryJobHasAThread
    BY DEF Structure, Counters
  <1>1. /\ ready[o] # <<>>
        /\ ready' = [ready EXCEPT ![o] = Tail(ready[o])]
        /\ tokens' = tokens \ {h}
        /\ residents' = residents - 1
        /\ fate' = Becomes({h}, "delivered")
        /\ UNCHANGED <<pending, running, workers, owner>>
    BY DEF TakeReady, threads
  <1>2. /\ ready[o] \in Seq(Ticket)
        /\ \A i, j \in 1 .. Len(ready[o]) : i # j => ready[o][i] # ready[o][j]
        /\ Range(ready[o]) = ReadyFor(o)
    BY <1>0 DEF ShapeOK, Links, ReadyLink
  <1>3. h \in ReadyFor(o) /\ h \in Ticket /\ Len(Tail(ready[o])) = Len(ready[o]) - 1
    BY <1>1, <1>2, TailRange
  <1>4. /\ fate[h] = "ready" /\ owner[h] = o
        /\ h \in Occupying /\ h \notin Having("pending") /\ h \notin Having("running")
    BY <1>3 DEF ReadyFor, Occupying, Having
  <1>5. {h} \in SUBSET Ticket /\ "delivered" \in Fate /\ fate \in [Ticket -> Fate]
    BY <1>0, <1>3 DEF ShapeOK, Fate
  <1>6. \A f \in Fate \ {"delivered"} : Having(f)' = Having(f) \ {h}
    BY <1>1, <1>5, BecomesEffect
  <1>7. /\ Having("pending")' = Having("pending") /\ Having("running")' = Having("running")
        /\ Having("ready")' = Having("ready") \ {h}
    BY <1>4, <1>6 DEF Fate
  <1>8. Occupying' = Occupying \ {h}
    BY <1>1, <1>5, OccupyingEffect
  <1>9. \A p \in Owner : ReadyFor(p)' = IF p = o THEN ReadyFor(p) \ {h} ELSE ReadyFor(p)
    BY <1>0, <1>1, <1>4 DEF ReadyFor, Becomes, ShapeOK
  <1>10. /\ Cardinality(Occupying \ {h}) = Cardinality(Occupying) - 1
         /\ Cardinality(ReadyFor(o) \ {h}) = Cardinality(ReadyFor(o)) - 1
    BY <1>3, <1>4, TicketSets, CountedSets
  <1>11. QueueSizes'
    <2>1. Len(pending') = Cardinality(Having("pending")')
      BY <1>0, <1>1, <1>7 DEF QueueSizes
    <2>2. ASSUME NEW p \in Owner
          PROVE  Len(ready'[p]) = Cardinality(ReadyFor(p)')
      <3>1. CASE p = o
        <4>1. ready'[p] = Tail(ready[o])
          BY <3>1, <1>0, <1>1 DEF ShapeOK
        <4> QED
          BY <4>1, <3>1, <1>0, <1>3, <1>9, <1>10 DEF QueueSizes
      <3>2. CASE p # o
        BY <3>2, <1>0, <1>1, <1>9 DEF QueueSizes, ShapeOK
      <3> QED
        BY <3>1, <3>2
    <2> QED
      BY <2>1, <2>2 DEF QueueSizes
  <1>12. Accounting'
    <2>1. tokens' = Having("pending") \cup Having("running") \cup (Having("ready") \ {h})
      BY <1>0, <1>1, <1>4 DEF Accounting
    <2> QED
      BY <2>1, <1>0, <1>1, <1>7, <1>8, <1>10 DEF Accounting
  <1>13. residents \in Nat
    BY <1>0, QueuedAndRunningFit
  <1>14. residents' <= Capacity
    BY <1>1, <1>13, CapacityAssumption DEF Counters
  <1> QED
    BY <1>0, <1>1, <1>11, <1>12, <1>14 DEF Counters, EveryJobHasAThread

\* Nothing is counted once everything has left.
LEMMA CountersEmptied ==
  ASSUME Structure, Counters, Joined, workers' \in Nat,
         ready' = [o \in Owner |-> <<>>], tokens' = {}, residents' = 0,
         running' = running, pending' = <<>>,
         fate' = Becomes(Having("ready") \cup Having("dropped"), "released")
  PROVE  Counters'
  <1>0. ShapeOK /\ Links /\ QueueSizes /\ Accounting /\ EveryJobHasAThread
    BY DEF Structure, Counters
  <1>1. Len(pending) \in Nat /\ running \in Nat
    BY <1>0, QueuedAndRunningFit
  <1>2. pending = <<>> /\ Having("pending") = {} /\ Having("running") = {}
    BY <1>0, <1>1, JoinedIsIdle DEF EveryJobHasAThread
  <1>3. /\ Occupying' = {} /\ Having("pending")' = {} /\ Having("running")' = {}
        /\ Having("ready")' = {}
        /\ \A o \in Owner : ReadyFor(o)' = {}
    BY <1>0, <1>2 DEF Occupying, Having, ReadyFor, Becomes, ShapeOK
  <1>4. running = 0
    BY <1>0, <1>2, FS_EmptySet DEF Accounting
  <1>5. Len(pending') = 0 /\ \A o \in Owner : Len(ready'[o]) = 0
    OBVIOUS
  <1>6. QueueSizes'
    BY <1>3, <1>5, FS_EmptySet DEF QueueSizes
  <1>7. Accounting'
    BY <1>3, <1>4, FS_EmptySet DEF Accounting
  <1> QED
    BY <1>4, <1>5, <1>6, <1>7, CapacityAssumption DEF Counters, EveryJobHasAThread

\* shutdown after its joins.
LEMMA CountersShutdownEnd ==
  ASSUME Structure, Counters, NEW c \in Caller, NEW keep \in BOOLEAN,
         ShutdownEnd(c, keep)
  PROVE  Counters'
  <1>0. ShapeOK /\ Links /\ QueueSizes /\ Accounting /\ EveryJobHasAThread
    BY DEF Structure, Counters
  <1>1. Len(pending) \in Nat /\ running \in Nat
    BY <1>0, QueuedAndRunningFit
  <1>2. pending = <<>> /\ Having("pending") = {} /\ Having("running") = {}
    BY <1>0, <1>1, JoinedIsIdle DEF EveryJobHasAThread, ShutdownEnd
  <1>3. Range(pending) = {}
    BY <1>2, EmptyRange
  <1>4. Joined /\ workers' = 0 /\ running' = running /\ pending' = <<>> /\ owner' = owner
    BY DEF ShutdownEnd
  <1>5. CASE ~keep
    <2>1. fate' = Becomes(Having("ready") \cup Having("dropped"), "released")
      BY <1>3, <1>5, <1>0 DEF ShutdownEnd, Becomes, Having, ShapeOK
    <2>2. ready' = [o \in Owner |-> <<>>] /\ tokens' = {} /\ residents' = 0
      BY <1>5 DEF ShutdownEnd, DiscardAll
    <2> QED
      BY <2>1, <2>2, <1>4, CountersEmptied
  <1>6. CASE keep
    <2>1. fate' = fate
      BY <1>3, <1>6, <1>0 DEF ShutdownEnd, ShapeOK
    <2>2. UNCHANGED <<ready, tokens, residents>>
      BY <1>6 DEF ShutdownEnd
    <2>3. QueueSizes'
      BY <2>1, <2>2, <1>0, <1>2, <1>4 DEF QueueSizes, Having, ReadyFor
    <2>4. Accounting'
      BY <2>1, <2>2, <1>0, <1>4 DEF Accounting, Having, Occupying
    <2>5. running = 0
      BY <1>0, <1>2, FS_EmptySet DEF Accounting
    <2>6. Len(pending') = 0
      BY <1>4
    <2> QED
      BY <2>2, <2>3, <2>4, <2>5, <2>6, <1>4 DEF Counters, EveryJobHasAThread
  <1> QED
    BY <1>5, <1>6

\* discard_completions after the shutdown.
LEMMA CountersDiscard ==
  ASSUME Structure, Counters, DiscardCompletions
  PROVE  Counters'
  <1>0. ShapeOK /\ Links /\ QueueSizes /\ Accounting /\ EveryJobHasAThread
    BY DEF Structure, Counters
  <1>1. Len(pending) \in Nat /\ running \in Nat
    BY <1>0, QueuedAndRunningFit
  <1>2. pending = <<>>
    BY <1>0, <1>1, JoinedIsIdle DEF EveryJobHasAThread, DiscardCompletions
  <1>3. /\ Joined /\ workers' = 0 /\ running' = running /\ pending' = <<>>
        /\ ready' = [o \in Owner |-> <<>>] /\ tokens' = {} /\ residents' = 0
        /\ fate' = Becomes(Having("ready") \cup Having("dropped"), "released")
    BY <1>2 DEF DiscardCompletions, DiscardAll, threads
  <1> QED
    BY <1>3, CountersEmptied

\* release_owned subtracts what it drops.
LEMMA CountersRelease ==
  ASSUME Structure, Counters, NEW o \in Owner, ReleaseOwned(o)
  PROVE  Counters'
  <1> DEFINE S == ReadyFor(o)
  <1>0. ShapeOK /\ Links /\ QueueSizes /\ Accounting /\ EveryJobHasAThread
    BY DEF Structure, Counters
  <1>1. Range(ready[o]) = S
    BY <1>0 DEF Links, ReadyLink
  <1>2. /\ ready' = [ready EXCEPT ![o] = <<>>]
        /\ tokens' = tokens \ S
        /\ residents' = residents - Len(ready[o])
        /\ fate' = Becomes(S, "released")
        /\ UNCHANGED <<pending, running, workers, owner>>
    BY <1>1 DEF ReleaseOwned, threads
  <1>3. S \in SUBSET Ticket /\ "released" \in Fate /\ fate \in [Ticket -> Fate]
    BY <1>0, CountedSets DEF ShapeOK, Fate
  <1>4. /\ Having("pending")' = Having("pending") /\ Having("running")' = Having("running")
        /\ Having("ready")' = Having("ready") \ S
    BY <1>0, <1>2 DEF Having, ReadyFor, Becomes, ShapeOK
  <1>5. Occupying' = Occupying \ S
    BY <1>2, <1>3, OccupyingEffect
  <1>6. \A p \in Owner : ReadyFor(p)' = IF p = o THEN {} ELSE ReadyFor(p)
    BY <1>0, <1>2 DEF ReadyFor, Becomes, ShapeOK
  <1>7. Cardinality(Occupying \ S) = Cardinality(Occupying) - Cardinality(S)
    <2>1. Occupying \cap S = S
      BY DEF Occupying, ReadyFor
    <2>2. IsFiniteSet(Occupying)
      BY TicketSets, CountedSets
    <2> QED
      BY <2>1, <2>2, FS_Difference
  <1>8. Len(ready[o]) = Cardinality(S) /\ Cardinality(S) \in Nat
    BY <1>0, <1>3, TicketSets DEF QueueSizes
  <1>9. QueueSizes'
    <2>1. Len(pending') = Cardinality(Having("pending")')
      BY <1>0, <1>2, <1>4 DEF QueueSizes
    <2>2. ASSUME NEW p \in Owner
          PROVE  Len(ready'[p]) = Cardinality(ReadyFor(p)')
      <3>1. CASE p = o
        <4>1. ready'[p] = <<>>
          BY <3>1, <1>0, <1>2 DEF ShapeOK
        <4>2. Len(ready'[p]) = 0
          BY <4>1
        <4> QED
          BY <4>2, <3>1, <1>6, FS_EmptySet
      <3>2. CASE p # o
        BY <3>2, <1>0, <1>2, <1>6 DEF QueueSizes, ShapeOK
      <3> QED
        BY <3>1, <3>2
    <2> QED
      BY <2>1, <2>2 DEF QueueSizes
  <1>10. Accounting'
    <2>1. tokens' = Having("pending") \cup Having("running") \cup (Having("ready") \ S)
      BY <1>0, <1>2 DEF Accounting, Having, ReadyFor
    <2> QED
      BY <2>1, <1>0, <1>2, <1>4, <1>5, <1>7, <1>8 DEF Accounting
  <1>11. residents \in Nat /\ residents' <= Capacity
    BY <1>0, <1>2, <1>8, QueuedAndRunningFit, CapacityAssumption DEF Counters
  <1> QED
    BY <1>0, <1>2, <1>9, <1>10, <1>11 DEF Counters, EveryJobHasAThread

\* A thread takes the oldest queued job: one queued job less, one running more.
LEMMA CountersTakeAdmitted ==
  ASSUME Structure, Counters, NEW w \in Worker, TakeAdmitted(w)
  PROVE  Counters'
  <1> DEFINE h == Head(pending)
  <1>0. ShapeOK /\ Links /\ QueueSizes /\ Accounting /\ EveryJobHasAThread
    BY DEF Structure, Counters
  <1>1. /\ pending # <<>> /\ pending \in Seq(Ticket)
        /\ pending' = Tail(pending)
        /\ running' = running + 1
        /\ fate' = Becomes({h}, "running")
        /\ UNCHANGED <<ready, tokens, residents, workers, owner>>
    BY <1>0 DEF TakeAdmitted, ShapeOK
  <1>2. Len(pending') = Len(pending) - 1
    BY <1>1
  <1>3. h \in Ticket /\ h \in Having("pending")
    <2>1. h = pending[1] /\ 1 \in DOMAIN pending
      BY <1>1
    <2>2. h \in Range(pending)
      BY <2>1 DEF Range
    <2> QED
      BY <2>2, <1>0 DEF Links, PendingLink, Having
  <1>4. h \notin Having("running") /\ h \notin Having("ready") /\ h \in Occupying
    BY <1>3 DEF Having, Occupying
  <1>5. {h} \in SUBSET Ticket /\ "running" \in Fate /\ fate \in [Ticket -> Fate]
    BY <1>0, <1>3 DEF ShapeOK, Fate
  <1>6. /\ Having("running")' = Having("running") \cup {h}
        /\ \A f \in Fate \ {"running"} : Having(f)' = Having(f) \ {h}
    BY <1>1, <1>5, BecomesEffect
  <1>7. /\ Having("pending")' = Having("pending") \ {h}
        /\ Having("ready")' = Having("ready")
    BY <1>4, <1>6 DEF Fate
  <1>8. Occupying' = Occupying
    <2>1. Occupying' = Occupying \cup {h}
      BY <1>1, <1>5, OccupyingEffect
    <2> QED
      BY <2>1, <1>4
  <1>9. \A o \in Owner : ReadyFor(o)' = ReadyFor(o)
    BY <1>0, <1>1, <1>3 DEF ReadyFor, Having, Becomes, ShapeOK
  <1>10. /\ Cardinality(Having("pending") \ {h}) = Cardinality(Having("pending")) - 1
         /\ Cardinality(Having("running") \cup {h}) = Cardinality(Having("running")) + 1
    BY <1>3, <1>4, TicketSets, CountedSets DEF Fate
  <1>11. QueueSizes'
    BY <1>0, <1>1, <1>2, <1>7, <1>9, <1>10 DEF QueueSizes
  <1>12. Accounting'
    <2>1. tokens = (Having("pending") \ {h}) \cup (Having("running") \cup {h})
                   \cup Having("ready")
      BY <1>0, <1>3 DEF Accounting
    <2> QED
      BY <2>1, <1>0, <1>1, <1>6, <1>7, <1>8, <1>10 DEF Accounting
  <1>13. Len(pending) \in Nat /\ running \in Nat
    BY <1>0, QueuedAndRunningFit
  <1>14. EveryJobHasAThread'
    BY <1>0, <1>1, <1>2, <1>13, CapacityAssumption DEF EveryJobHasAThread, ShapeOK
  <1> QED
    BY <1>1, <1>11, <1>12, <1>14 DEF Counters

\* A completion is buffered: it stays a resident.
LEMMA CountersFinishCompletes ==
  ASSUME Structure, Counters, NEW w \in Worker, FinishCompletes(w)
  PROVE  Counters'
  <1> DEFINE t == job[w]
             o == owner[t]
  <1>0. ShapeOK /\ Links /\ QueueSizes /\ Accounting /\ EveryJobHasAThread
    BY DEF Structure, Counters
  <1>1. /\ Finish(w)
        /\ running' = running - 1
        /\ ready' = [ready EXCEPT ![o] = Append(ready[o], t)]
        /\ fate' = Becomes({t}, "ready")
        /\ UNCHANGED <<pending, tokens, residents, workers, owner>>
    BY DEF FinishCompletes, Finish
  <1>2. t \in Having("running") /\ t \in Ticket
    BY <1>1, FinishFreesJob
  <1>3. o \in Owner /\ ready[o] \in Seq(Ticket)
    BY <1>0, <1>2 DEF ShapeOK
  <1>4. Len(Append(ready[o], t)) = Len(ready[o]) + 1
    BY <1>2, <1>3, AppendRange
  <1>5. /\ t \notin Having("pending") /\ t \notin Having("ready") /\ t \in Occupying
        /\ t \notin ReadyFor(o)
    BY <1>2 DEF Having, Occupying, ReadyFor
  <1>6. {t} \in SUBSET Ticket /\ "ready" \in Fate /\ fate \in [Ticket -> Fate]
    BY <1>0, <1>2 DEF ShapeOK, Fate
  <1>7. /\ Having("ready")' = Having("ready") \cup {t}
        /\ \A f \in Fate \ {"ready"} : Having(f)' = Having(f) \ {t}
    BY <1>1, <1>6, BecomesEffect
  <1>8. /\ Having("running")' = Having("running") \ {t}
        /\ Having("pending")' = Having("pending")
    BY <1>5, <1>7 DEF Fate
  <1>9. Occupying' = Occupying
    <2>1. Occupying' = Occupying \cup {t}
      BY <1>1, <1>6, OccupyingEffect
    <2> QED
      BY <2>1, <1>5
  <1>10. \A p \in Owner : ReadyFor(p)' = IF p = o THEN ReadyFor(p) \cup {t}
                                         ELSE ReadyFor(p)
    BY <1>0, <1>1, <1>2 DEF ReadyFor, Becomes, ShapeOK
  <1>11. /\ Cardinality(Having("running") \ {t}) = Cardinality(Having("running")) - 1
         /\ Cardinality(ReadyFor(o) \cup {t}) = Cardinality(ReadyFor(o)) + 1
    BY <1>2, <1>3, <1>5, TicketSets, CountedSets DEF Fate
  <1>12. QueueSizes'
    <2>1. Len(pending') = Cardinality(Having("pending")')
      BY <1>0, <1>1, <1>8 DEF QueueSizes
    <2>2. ASSUME NEW p \in Owner
          PROVE  Len(ready'[p]) = Cardinality(ReadyFor(p)')
      <3>1. CASE p = o
        <4>1. ready'[p] = Append(ready[o], t)
          BY <3>1, <1>0, <1>1 DEF ShapeOK
        <4> QED
          BY <4>1, <3>1, <1>0, <1>4, <1>10, <1>11 DEF QueueSizes
      <3>2. CASE p # o
        BY <3>2, <1>0, <1>1, <1>10 DEF QueueSizes, ShapeOK
      <3> QED
        BY <3>1, <3>2
    <2> QED
      BY <2>1, <2>2 DEF QueueSizes
  <1>13. Accounting'
    <2>1. tokens = Having("pending") \cup (Having("running") \ {t})
                   \cup (Having("ready") \cup {t})
      BY <1>0, <1>2 DEF Accounting
    <2> QED
      BY <2>1, <1>0, <1>1, <1>7, <1>8, <1>9, <1>11 DEF Accounting
  <1>14. Len(pending) \in Nat /\ running \in Nat
    BY <1>0, QueuedAndRunningFit
  <1>15. EveryJobHasAThread'
    BY <1>0, <1>1, <1>14, CapacityAssumption DEF EveryJobHasAThread, ShapeOK
  <1> QED
    BY <1>1, <1>12, <1>13, <1>15 DEF Counters

\* A break: what is dropped stays counted.
LEMMA CountersFinishBreaks ==
  ASSUME Structure, Counters, NEW w \in Worker, FinishBreaks(w)
  PROVE  Counters'
  <1> DEFINE t == job[w]
             S == {t} \cup Range(pending)
  <1>0. ShapeOK /\ Links /\ QueueSizes /\ Accounting /\ EveryJobHasAThread
    BY DEF Structure, Counters
  <1>1. /\ Finish(w)
        /\ running' = running - 1
        /\ pending' = <<>>
        /\ tokens' = tokens \ S
        /\ fate' = Becomes(S, "dropped")
        /\ UNCHANGED <<ready, residents, workers, owner>>
    BY DEF FinishBreaks, Finish, Break
  <1>2. t \in Having("running") /\ t \in Ticket
    BY <1>1, FinishFreesJob
  <1>3. Range(pending) = Having("pending")
    BY <1>0 DEF Links, PendingLink
  <1>4. S \in SUBSET Ticket /\ "dropped" \in Fate /\ fate \in [Ticket -> Fate]
    BY <1>0, <1>2, <1>3 DEF ShapeOK, Fate, Having
  <1>5. \A f \in Fate \ {"dropped"} : Having(f)' = Having(f) \ S
    BY <1>1, <1>4, BecomesEffect
  <1>6. /\ Having("running") \ S = Having("running") \ {t}
        /\ Having("pending") \ S = {}
        /\ Having("ready") \ S = Having("ready")
        /\ S \subseteq Occupying
    BY <1>2, <1>3 DEF Having, Occupying
  <1>7. /\ Having("running")' = Having("running") \ {t}
        /\ Having("pending")' = {}
        /\ Having("ready")' = Having("ready")
    BY <1>5, <1>6 DEF Fate
  <1>8. Occupying' = Occupying
    <2>1. Occupying' = Occupying \cup S
      BY <1>1, <1>4, OccupyingEffect
    <2> QED
      BY <2>1, <1>6
  <1>9. \A p \in Owner : ReadyFor(p)' = ReadyFor(p)
    BY <1>0, <1>1, <1>2, <1>3 DEF ReadyFor, Becomes, ShapeOK, Having
  <1>10. Cardinality(Having("running") \ {t}) = Cardinality(Having("running")) - 1
    BY <1>2, TicketSets, CountedSets DEF Fate
  <1>11. Len(pending') = 0
    BY <1>1
  <1>12. QueueSizes'
    BY <1>0, <1>1, <1>7, <1>9, <1>11, FS_EmptySet DEF QueueSizes
  <1>13. Accounting'
    <2>1. tokens' = (Having("running") \ {t}) \cup Having("ready")
      BY <1>0, <1>1, <1>2, <1>3 DEF Accounting, Having
    <2> QED
      BY <2>1, <1>0, <1>1, <1>7, <1>8, <1>10 DEF Accounting
  <1>14. Len(pending) \in Nat /\ running \in Nat
    BY <1>0, QueuedAndRunningFit
  <1>15. EveryJobHasAThread'
    BY <1>0, <1>1, <1>11, <1>14, CapacityAssumption DEF EveryJobHasAThread, ShapeOK
  <1> QED
    BY <1>1, <1>12, <1>13, <1>15 DEF Counters

-----------------------------------------------------------------------------
(* The inductive invariant of the scheduler.                                *)

IndInv == Structure /\ Counters

\* The invariant holds initially.
LEMMA IndInvInit == Init => IndInv
  BY StructureInit, CountersInit DEF IndInv

\* Steps that change only flags, cancelled tokens, wait sets and calls.
LEMMA QuietStep ==
  ASSUME IndInv,
         UNCHANGED <<queues, threads, next_ticket, running, broken, owner,
                     departed, fate>>,
         intake_closed' \in BOOLEAN, intake_closed => intake_closed',
         expired' \in BOOLEAN, cancelled' \subseteq Ticket,
         sleeping' \subseteq Worker, blocked' \subseteq Caller,
         call' \in [Caller -> Call]
  PROVE  IndInv'
  <1>1. Links'
    BY StructureQuiet DEF IndInv, queues, threads
  <1>2. ShapeOK'
    BY DEF IndInv, Structure, ShapeOK, queues, threads
  <1>3. Counters'
    BY CountersQuiet DEF IndInv, queues, threads
  <1> QED
    BY <1>1, <1>2, <1>3 DEF IndInv, Structure

\* Every step of a driver keeps the invariant.
LEMMA IndInvDriver ==
  ASSUME IndInv, DriverStep
  PROVE  IndInv'
  <1>0. Structure /\ Counters /\ ShapeOK
    BY DEF IndInv, Structure
  <1>a. Len(pending) + running <= workers /\ running \in Nat
    BY <1>0, QueuedAndRunningFit DEF Counters, EveryJobHasAThread
  <1>b. \A c \in Caller : \A n \in Call : [call EXCEPT ![c] = n] \in [Caller -> Call]
    BY <1>0 DEF ShapeOK
  <1>c. "none" \in Call /\ "take_completion" \in Call /\ "wait_for_quiescence" \in Call
        /\ "shutdown" \in Call
    BY DEF Call
  <1>1. ASSUME NEW o \in Owner, Admit(o) PROVE IndInv'
    BY <1>0, <1>1, StructureAdmit, CountersAdmit DEF IndInv
  <1>2. ASSUME NEW o \in Owner, AdmitStartFails(o) PROVE IndInv'
    BY <1>0, <1>2, StructureAdmitStartFails, CountersAdmitStartFails DEF IndInv
  <1>3. ASSUME NEW o \in Owner, TakeCompletionNowait(o) PROVE IndInv'
    <2>1. TakeReady(o) /\ call' \in [Caller -> Call]
      BY <1>0, <1>3 DEF TakeCompletionNowait, ShapeOK
    <2> QED
      BY <2>1, <1>0, StructureTakeReady, CountersTakeReady DEF IndInv
  <1>4. ASSUME NEW o \in Owner, ReleaseOwned(o) PROVE IndInv'
    BY <1>0, <1>4, StructureRelease, CountersRelease DEF IndInv
  <1>5. ASSUME NEW c \in Caller, TakeCompletion(c) PROVE IndInv'
    <2>1. PICK o \in Owner : TakeReady(o)
      BY <1>5 DEF TakeCompletion
    <2>2. call' \in [Caller -> Call]
      BY <1>5, <1>b, <1>c DEF TakeCompletion
    <2> QED
      BY <2>1, <2>2, <1>0, StructureTakeReady, CountersTakeReady DEF IndInv
  <1>6. ASSUME NEW c \in Caller, NEW name \in Call, BlockIn(c, name) PROVE IndInv'
    BY <1>0, <1>6, <1>b, QuietStep DEF BlockIn, ShapeOK, flags
  <1>7. ASSUME NEW c \in Caller, Returns(c) PROVE IndInv'
    BY <1>0, <1>7, <1>b, <1>c, QuietStep DEF Returns, ShapeOK, flags
  <1>8. ASSUME NEW c \in Caller, ShutdownBegin(c) PROVE IndInv'
    BY <1>0, <1>8, <1>b, <1>c, QuietStep DEF ShutdownBegin, AnnounceChange, ShapeOK
  <1>9. ASSUME NEW c \in Caller, NEW keep \in BOOLEAN, ShutdownEnd(c, keep)
        PROVE  IndInv'
    BY <1>0, <1>a, <1>9, StructureShutdownEnd, CountersShutdownEnd DEF IndInv
  <1>10. ASSUME CloseIntake PROVE IndInv'
    BY <1>0, <1>10, QuietStep DEF CloseIntake, AnnounceChange, ShapeOK
  <1>11. ASSUME CancelAll PROVE IndInv'
    BY <1>0, <1>11, QuietStep DEF CancelAll, AnnounceChange, ShapeOK, flags
  <1>12. ASSUME Expire PROVE IndInv'
    BY <1>0, <1>12, QuietStep DEF Expire, AnnounceChange, ShapeOK
  <1>13. ASSUME DiscardCompletions PROVE IndInv'
    BY <1>0, <1>13, StructureDiscard, CountersDiscard DEF IndInv
  <1> QED
    BY <1>c, <1>1, <1>2, <1>3, <1>4, <1>5, <1>6, <1>7, <1>8, <1>9, <1>10, <1>11,
       <1>12, <1>13
       DEF DriverStep, TakeCompletionBlocks, TakeCompletionEnds, WaitForQuiescence

\* Every step of a worker thread keeps the invariant.
LEMMA IndInvWorker ==
  ASSUME IndInv, NEW w \in Worker, WorkerStep(w)
  PROVE  IndInv'
  <1>0. Structure /\ Counters /\ ShapeOK
    BY DEF IndInv, Structure
  <1>1. ASSUME TakeAdmittedBlocks(w) PROVE IndInv'
    BY <1>0, <1>1, QuietStep DEF TakeAdmittedBlocks, ShapeOK, flags
  <1>2. ASSUME TakeAdmitted(w) PROVE IndInv'
    BY <1>0, <1>2, StructureTakeAdmitted, CountersTakeAdmitted DEF IndInv
  <1>3. ASSUME WorkerExits(w) PROVE IndInv'
    <2>1. UNCHANGED <<pending, ready, tokens, residents, running, workers, owner, fate>>
      BY <1>3 DEF WorkerExits, queues
    <2> QED
      BY <2>1, <1>0, <1>3, StructureWorkerExits, CountersQuiet DEF IndInv
  <1>4. ASSUME FinishCompletes(w) PROVE IndInv'
    BY <1>0, <1>4, StructureFinishCompletes, CountersFinishCompletes DEF IndInv
  <1>5. ASSUME FinishBreaks(w) PROVE IndInv'
    BY <1>0, <1>5, StructureFinishBreaks, CountersFinishBreaks DEF IndInv
  <1> QED
    BY <1>1, <1>2, <1>3, <1>4, <1>5 DEF WorkerStep

\* The invariant is inductive.
LEMMA IndInvStep == IndInv /\ [Next]_vars => IndInv'
  <1> SUFFICES ASSUME IndInv, [Next]_vars PROVE IndInv'
    OBVIOUS
  <1>1. CASE Next
    BY <1>1, IndInvDriver, IndInvWorker DEF Next
  <1>2. CASE UNCHANGED vars
    <2>1. ShapeOK /\ UNCHANGED <<queues, threads, next_ticket, running, broken, owner,
                                 departed, fate>>
      BY <1>2 DEF vars, queues, threads, IndInv, Structure
    <2> QED
      BY <1>2, <2>1, QuietStep DEF vars, ShapeOK
  <1> QED
    BY <1>1, <1>2

\* The scheduler always satisfies its inductive invariant.
THEOREM SchedulerInvariant == Spec => []IndInv
  BY IndInvInit, IndInvStep, PTL DEF Spec

\* Type correctness: in particular residents and running never leave
\* 0 .. Capacity, whatever drivers and threads do.
THEOREM TypeCorrect == Spec => []TypeOK
  <1>1. IndInv => TypeOK
    <2> SUFFICES ASSUME IndInv PROVE TypeOK
      OBVIOUS
    <2>1. ShapeOK /\ residents <= Capacity /\ Len(pending) + running <= workers
      BY DEF IndInv, Structure, Counters, EveryJobHasAThread
    <2>2. Len(pending) \in Nat /\ running \in Nat /\ residents \in Nat
      BY QueuedAndRunningFit DEF IndInv, Counters
    <2>3. workers \in Nat /\ workers <= Capacity
      BY <2>1, CapacityAssumption DEF ShapeOK
    <2>4. running <= Capacity
      BY <2>1, <2>2, <2>3, CapacityAssumption
    <2> QED
      BY <2>1, <2>2, <2>4, CapacityAssumption DEF TypeOK
  <1> QED
    BY <1>1, SchedulerInvariant, PTL

\* The counters of the code are exact in every reachable state.
THEOREM AccountingExact == Spec => []Accounting
  <1>1. IndInv => Accounting
    BY DEF IndInv, Counters
  <1> QED
    BY <1>1, SchedulerInvariant, PTL

\* No head-of-line blocking for any capacity.
THEOREM ThreadSupply == Spec => []EveryJobHasAThread
  <1>1. IndInv => EveryJobHasAThread
    BY DEF IndInv, Counters
  <1> QED
    BY <1>1, SchedulerInvariant, PTL

-----------------------------------------------------------------------------
(* Condition variable discipline and expiry.                                *)

\* Taking a job from the queue notifies nobody, and nobody needs it.
LEMMA WakeupTakeAdmitted ==
  ASSUME IndInv, NoLostWakeup, NEW w \in Worker, TakeAdmitted(w)
  PROVE  NoLostWakeup'
  <1>1. /\ pending # <<>> /\ running' = running + 1
        /\ UNCHANGED <<ready, broken, sleeping, blocked, call>>
    BY DEF TakeAdmitted, flags
  <1>2. running \in Nat
    BY QueuedAndRunningFit DEF IndInv, Counters
  <1>3. ~Quiescent'
    BY <1>1, <1>2 DEF Quiescent
  <1>4. sleeping' = {}
    BY <1>1 DEF NoLostWakeup, WorkAvailable
  <1>5. Takeable' => Takeable
    BY <1>1, <1>3 DEF Takeable
  <1> QED
    BY <1>1, <1>3, <1>4, <1>5 DEF NoLostWakeup

\* Steps that touch neither queues nor flags keep the predicates of wait_for.
LEMMA PredicatesUnchanged ==
  ASSUME UNCHANGED <<pending, ready, running, intake_closed, broken>>
  PROVE  /\ WorkAvailable' = WorkAvailable
         /\ Takeable' = Takeable /\ Quiescent' = Quiescent
  BY DEF WorkAvailable, Takeable, Quiescent

\* No step leaves a thread asleep on a true predicate.
LEMMA WakeupStep == IndInv /\ NoLostWakeup /\ [Next]_vars => NoLostWakeup'
  <1> SUFFICES ASSUME IndInv, NoLostWakeup, [Next]_vars PROVE NoLostWakeup'
    OBVIOUS
  <1>0. ShapeOK
    BY DEF IndInv, Structure
  <1>1. ASSUME AnnounceChange PROVE NoLostWakeup'
    BY <1>1 DEF AnnounceChange, NoLostWakeup
  <1>2. ASSUME NEW c \in Caller, TakeCompletionBlocks(c) PROVE NoLostWakeup'
    <2>1. /\ ~Takeable /\ call' = [call EXCEPT ![c] = "take_completion"]
          /\ blocked' = blocked \cup {c}
          /\ UNCHANGED <<pending, ready, running, intake_closed, broken, sleeping>>
      BY <1>2 DEF TakeCompletionBlocks, BlockIn, queues, flags
    <2>2. call'[c] = "take_completion" /\ \A d \in Caller \ {c} : call'[d] = call[d]
      BY <2>1, <1>0 DEF ShapeOK
    <2> QED
      BY <2>1, <2>2, <1>0, PredicatesUnchanged DEF NoLostWakeup, ShapeOK
  <1>3. ASSUME NEW c \in Caller, Returns(c), c \notin blocked PROVE NoLostWakeup'
    <2>1. /\ call' = [call EXCEPT ![c] = "none"]
          /\ UNCHANGED <<pending, ready, running, intake_closed, broken, sleeping, blocked>>
      BY <1>3 DEF Returns, queues, flags
    <2>2. \A d \in Caller \ {c} : call'[d] = call[d]
      BY <2>1, <1>0 DEF ShapeOK
    <2> QED
      BY <2>1, <2>2, <1>0, <1>3, PredicatesUnchanged DEF NoLostWakeup, ShapeOK
  <1>4. ASSUME NEW c \in Caller, WaitForQuiescence(c) PROVE NoLostWakeup'
    <2>1. CASE Quiescent
      BY <2>1, <1>3, <1>4 DEF WaitForQuiescence, Enters
    <2>2. CASE ~Quiescent
      <3>1. /\ call' = [call EXCEPT ![c] = "wait_for_quiescence"]
            /\ blocked' = blocked \cup {c}
            /\ UNCHANGED <<pending, ready, running, intake_closed, broken, sleeping>>
        BY <2>2, <1>4 DEF WaitForQuiescence, BlockIn, queues, flags
      <3>2. /\ call'[c] = "wait_for_quiescence"
            /\ \A d \in Caller \ {c} : call'[d] = call[d]
        BY <3>1, <1>0 DEF ShapeOK
      <3> QED
        BY <2>2, <3>1, <3>2, <1>0, PredicatesUnchanged DEF NoLostWakeup, ShapeOK
    <2> QED
      BY <2>1, <2>2
  <1>5. ASSUME NEW w \in Worker, TakeAdmittedBlocks(w) PROVE NoLostWakeup'
    BY <1>5, PredicatesUnchanged DEF TakeAdmittedBlocks, queues, flags, NoLostWakeup
  <1>6. ASSUME NEW w \in Worker, WorkerExits(w) PROVE NoLostWakeup'
    BY <1>6, PredicatesUnchanged DEF WorkerExits, queues, flags, NoLostWakeup
  <1>7. ASSUME UNCHANGED vars PROVE NoLostWakeup'
    BY <1>7, PredicatesUnchanged DEF vars, NoLostWakeup
  <1>8. ASSUME DriverStep PROVE NoLostWakeup'
    BY <1>1, <1>2, <1>3, <1>4, <1>8
       DEF DriverStep, Admit, AdmitStartFails, TakeCompletionNowait, TakeReady,
           ReleaseOwned, TakeCompletion, TakeCompletionEnds, Enters, ShutdownBegin,
           ShutdownEnd, CloseIntake, CancelAll, Expire, DiscardCompletions
  <1>9. ASSUME NEW w \in Worker, WorkerStep(w) PROVE NoLostWakeup'
    BY <1>1, <1>5, <1>6, <1>9, WakeupTakeAdmitted
       DEF WorkerStep, FinishCompletes, FinishBreaks, Finish
  <1> QED
    BY <1>7, <1>8, <1>9 DEF Next

\* No thread ever sleeps through the event it waits for.
THEOREM NoWakeupIsLost == Spec => []NoLostWakeup
  <1>1. Init => NoLostWakeup
    BY DEF Init, NoLostWakeup
  <1> QED
    BY <1>1, SchedulerInvariant, WakeupStep, PTL DEF Spec

\* Steps that start no job and forget no cancellation.
LEMMA ExpiryQuiet ==
  ASSUME ExpiryReachesEveryJob, expired' = expired, cancelled \subseteq cancelled',
         Having("pending")' \cup Having("running")'
           \subseteq Having("pending") \cup Having("running")
  PROVE  ExpiryReachesEveryJob'
  BY DEF ExpiryReachesEveryJob

\* A history that ends at g starts nothing.
LEMMA NothingStarts ==
  ASSUME fate \in [Ticket -> Fate], NEW S, NEW g \in Fate \ {"pending", "running"},
         fate' = Becomes(S, g)
  PROVE  Having("pending")' \cup Having("running")'
           \subseteq Having("pending") \cup Having("running")
  BY DEF Becomes, Having

\* Expiry cancels everything unfinished, and admissions after it are born
\* cancelled.
LEMMA ExpiryStep == IndInv /\ ExpiryReachesEveryJob /\ [Next]_vars
                    => ExpiryReachesEveryJob'
  <1> SUFFICES ASSUME IndInv, ExpiryReachesEveryJob, [Next]_vars
               PROVE  ExpiryReachesEveryJob'
    OBVIOUS
  <1>0. /\ ShapeOK /\ Links /\ Accounting /\ fate \in [Ticket -> Fate]
        /\ Len(pending) + running <= workers
    BY DEF IndInv, Structure, Counters, ShapeOK, EveryJobHasAThread
  <1>a. /\ "dropped" \in Fate \ {"pending", "running"}
        /\ "delivered" \in Fate \ {"pending", "running"}
        /\ "released" \in Fate \ {"pending", "running"}
        /\ "ready" \in Fate \ {"pending", "running"}
    BY DEF Fate
  <1>b. ASSUME expired' = expired, cancelled \subseteq cancelled', fate' = fate
        PROVE  ExpiryReachesEveryJob'
    BY <1>b, ExpiryQuiet DEF Having
  <1>1. ASSUME NEW o \in Owner, Admit(o) PROVE ExpiryReachesEveryJob'
    <2>1. /\ fate' = Becomes({next_ticket}, "pending") /\ expired' = expired
          /\ cancelled' = cancelled \cup (IF expired THEN {next_ticket} ELSE {})
      BY <1>1 DEF Admit, flags, BornCancelled
    <2> QED
      BY <2>1, <1>0 DEF ExpiryReachesEveryJob, Having, Becomes
  <1>2. ASSUME NEW o \in Owner, AdmitStartFails(o) PROVE ExpiryReachesEveryJob'
    <2>1. PICK S : fate' = Becomes(S, "dropped")
      BY <1>2 DEF AdmitStartFails, Break
    <2>2. expired' = expired /\ cancelled \subseteq cancelled'
      BY <1>2 DEF AdmitStartFails, Break
    <2> QED
      BY <2>1, <2>2, <1>0, <1>a, NothingStarts, ExpiryQuiet
  <1>3. ASSUME NEW o \in Owner, TakeReady(o) PROVE ExpiryReachesEveryJob'
    <2>1. fate' = Becomes({Head(ready[o])}, "delivered")
      BY <1>3 DEF TakeReady
    <2>2. expired' = expired /\ cancelled \subseteq cancelled'
      BY <1>3 DEF TakeReady, flags
    <2> QED
      BY <2>1, <2>2, <1>0, <1>a, NothingStarts, ExpiryQuiet
  <1>4. ASSUME NEW o \in Owner, ReleaseOwned(o) PROVE ExpiryReachesEveryJob'
    <2>1. fate' = Becomes(Range(ready[o]), "released")
      BY <1>4 DEF ReleaseOwned
    <2>2. expired' = expired /\ cancelled \subseteq cancelled'
      BY <1>4 DEF ReleaseOwned, flags
    <2> QED
      BY <2>1, <2>2, <1>0, <1>a, NothingStarts, ExpiryQuiet
  <1>5. ASSUME NEW c \in Caller, NEW keep \in BOOLEAN, ShutdownEnd(c, keep)
        PROVE  ExpiryReachesEveryJob'
    <2>1. expired' = expired /\ cancelled \subseteq cancelled'
      BY <1>5 DEF ShutdownEnd, flags
    <2>2. Having("pending")' \cup Having("running")'
            \subseteq Having("pending") \cup Having("running")
      BY <1>0, <1>5 DEF ShutdownEnd, Having
    <2> QED
      BY <2>1, <2>2, ExpiryQuiet
  <1>6. ASSUME DiscardCompletions PROVE ExpiryReachesEveryJob'
    <2>1. fate' = Becomes(Having("ready") \cup Having("dropped"), "released")
      BY <1>6 DEF DiscardCompletions
    <2>2. expired' = expired /\ cancelled \subseteq cancelled'
      BY <1>6 DEF DiscardCompletions, flags
    <2> QED
      BY <2>1, <2>2, <1>0, <1>a, NothingStarts, ExpiryQuiet
  <1>7. ASSUME Expire PROVE ExpiryReachesEveryJob'
    <2>1. cancelled' = cancelled \cup tokens /\ fate' = fate
      BY <1>7 DEF Expire
    <2>2. Having("pending") \cup Having("running") \subseteq tokens
      BY <1>0 DEF Accounting
    <2> QED
      BY <2>1, <2>2 DEF ExpiryReachesEveryJob, Having
  <1>8. ASSUME NEW w \in Worker, TakeAdmitted(w) PROVE ExpiryReachesEveryJob'
    <2>1. /\ fate' = Becomes({Head(pending)}, "running")
          /\ expired' = expired /\ cancelled' = cancelled
      BY <1>8 DEF TakeAdmitted, flags
    <2>2. Head(pending) \in Having("pending")
      <3>1. pending \in Seq(Ticket) /\ pending # <<>>
        BY <1>0, <1>8 DEF TakeAdmitted, ShapeOK
      <3>2. Head(pending) = pending[1] /\ 1 \in DOMAIN pending
        BY <3>1
      <3> QED
        BY <3>2, <1>0 DEF Links, PendingLink, Range
    <2>3. Having("pending")' \cup Having("running")'
            \subseteq Having("pending") \cup Having("running")
      BY <2>1, <2>2, <1>0 DEF Having, Becomes
    <2> QED
      BY <2>1, <2>3, ExpiryQuiet
  <1>9. ASSUME NEW w \in Worker, FinishCompletes(w) PROVE ExpiryReachesEveryJob'
    <2>1. /\ fate' = Becomes({job[w]}, "ready")
          /\ expired' = expired /\ cancelled \subseteq cancelled'
      BY <1>9 DEF FinishCompletes, flags
    <2> QED
      BY <2>1, <1>0, <1>a, NothingStarts, ExpiryQuiet
  <1>10. ASSUME NEW w \in Worker, FinishBreaks(w) PROVE ExpiryReachesEveryJob'
    <2>1. PICK S : fate' = Becomes(S, "dropped")
      BY <1>10 DEF FinishBreaks, Break
    <2>2. expired' = expired /\ cancelled \subseteq cancelled'
      BY <1>10 DEF FinishBreaks, Break
    <2> QED
      BY <2>1, <2>2, <1>0, <1>a, NothingStarts, ExpiryQuiet
  <1>11. ASSUME DriverStep PROVE ExpiryReachesEveryJob'
    BY <1>b, <1>1, <1>2, <1>3, <1>4, <1>5, <1>6, <1>7, <1>11
       DEF DriverStep, TakeCompletionNowait, TakeCompletion, TakeCompletionBlocks,
           TakeCompletionEnds, WaitForQuiescence, BlockIn, Returns, ShutdownBegin,
           CloseIntake, CancelAll, flags
  <1>12. ASSUME NEW w \in Worker, WorkerStep(w) PROVE ExpiryReachesEveryJob'
    BY <1>b, <1>8, <1>9, <1>10, <1>12
       DEF WorkerStep, TakeAdmittedBlocks, WorkerExits, flags
  <1>13. ASSUME UNCHANGED vars PROVE ExpiryReachesEveryJob'
    BY <1>b, <1>13 DEF vars
  <1> QED
    BY <1>11, <1>12, <1>13 DEF Next

\* The wall-time ceiling reaches every job that has not finished.
THEOREM ExpiryIsTotal == Spec => []ExpiryReachesEveryJob
  <1>1. Init => ExpiryReachesEveryJob
    BY DEF Init, ExpiryReachesEveryJob
  <1> QED
    BY <1>1, SchedulerInvariant, ExpiryStep, PTL DEF Spec
=============================================================================
