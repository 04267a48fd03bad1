---------------------------- MODULE EngineProofs ----------------------------
(***************************************************************************)
(* Safety of Engine for every declaration, set of budgets and stream: what  *)
(* one call leaves behind, whom it holds responsible and what it keeps of   *)
(* the output.                                                              *)
(***************************************************************************)
EXTENDS Engine, RunStoreProofs, SequenceTheorems

-----------------------------------------------------------------------------
(* The inductive invariant.                                                 *)

Unspawned == {"preparing", "spawning"}
Starting == {"feeder", "pump", "reader"}
Watching == Starting \cup {"marking"} \cup Awaiting
Ending == {"term_group"} \cup TearingDown
Final == {"finalizing", "closing", "ending", "ended"}
Over == {"zombie", "reaped"}
Silent == {"none", "quiet", "gone"}

\* The types of what the steps below compute with.
Shapes ==
  /\ job \in JobType
  /\ pc \in PC
  /\ stop \in {"none", "overflow", "cancelled", "wall_time"}
  /\ outcome \in {"none", "cancelled_unstarted", "spawn_absent", "spawn_failed",
                  "payload_output", "wall_time", "cancelled", "protocol_failed",
                  "exited", "signaled"}
  /\ leader \in {"none", "boot", "session", "payload"} \cup Over
  /\ death.how \in {"none", "exited", "signaled"}
  /\ status \in Setup
  /\ kin \in {"none", "group", "quiet", "escaped", "gone"}
  /\ wrote \in [Stream -> Nat]
  /\ thread \in [Worker -> {"unstarted", "running", "ended", "failed"}]

\* Only a payload forks and writes, and a bootstrap that failed was never one.
Lineage ==
  /\ leader \in {"none", "boot", "session"} => kin = "none" /\ status = "none"
  /\ leader \in {"none", "boot", "session"} \/ status # "none" =>
       wrote = [s \in Stream |-> 0] /\ said = "nothing"
  /\ status # "none" => leader \in Over /\ kin = "none"
  /\ leads = FALSE => status = "session"

\* How far the call is tells how far the child is.
Stages ==
  /\ pc \in Unspawned => leader = "none"
  /\ pc \in Watching => leader \in {"payload"} \cup Over /\ status = "none"
  /\ pc \in Ending \cup {"status"} => leader # "none"
  /\ pc = "probe" => leader = "reaped"
  /\ pc \in Final \cup {"joining"} => leader \in {"none", "reaped"} /\ ~InGroup

\* The threads start one after the other, and only for a child that was set up.
Threads ==
  /\ pc \in Unspawned \cup {"status", "feeder"} => \A t \in Worker : thread[t] = "unstarted"
  /\ pc \in {"pump", "reader"} => thread["reader"] = "unstarted"
  /\ pc = "pump" => thread["pump"] = "unstarted"
  /\ pc \in {"reader", "marking"} \cup Awaiting => thread["pump"] # "unstarted"
  /\ pc \in Ending \cup {"joining"} =>
       status # "none" \/ raised = TRUE \/ thread["pump"] # "unstarted"
  /\ leader \in {"none", "boot", "session"} \/ status # "none" =>
       \A t \in Worker : thread[t] = "unstarted"
  /\ pc = "ended" => \A t \in Worker : ~Running(t)
  /\ pc = "joining" => raised # TRUE
  /\ released = TRUE => pc \in {"ending", "ended"}

\* The pump keeps what is to be kept of what it has read, it has read everything
\* when it ends by itself, and then nobody is left to write more.
Output ==
  /\ retention = [s \in Stream |-> Retained(retention[s].produced, Budget(s))]
  /\ \A s \in Stream : retention[s].produced \in 0 .. wrote[s]
  /\ thread["pump"] = "ended" /\ released # TRUE =>
       /\ leader \in Over /\ kin \in Silent
       /\ AllRead

\* The overflow event is set only by an overflow.
Overflows ==
  /\ overflow = TRUE => Overflowed(retention)
  /\ stop = "overflow" => overflow = TRUE

\* The reader judges the stream that was forwarded, when no more can come of it.
Protocol ==
  /\ said \in Said /\ pumped \in Said
  /\ said = "nothing" => pumped = "nothing"
  /\ pumped = "bad" => said = "bad"
  /\ thread["reader"] # "unstarted" => thread["pump"] # "unstarted"
  /\ thread["reader"] = "ended" => /\ verdict = "ok" <=> pumped = "complete"
                                   /\ pumped = "bad" \/ ~Running("pump")

\* Before the first signal an end is the child's own.  A teardown that nothing
\* excuses was begun for a child that had ended.
Excused == stop # "none" \/ status # "none" \/ raised = TRUE \/ Failed

Causes ==
  /\ stop # "none" => pc \in Ending \cup {"joining"} \cup Final
  /\ pc \notin TearingDown \cup {"joining"} \cup Final /\ leader \in Over => death.own = TRUE
  /\ pc \in Ending \cup {"joining"} => Excused \/ (leader \in Over /\ death.own = TRUE)

\* An outcome is settled when nobody can write, and no thread runs, any more.
Settled ==
  /\ outcome # "none" =>
       /\ pc \in Final
       /\ leader \in {"none"} \cup Over /\ kin \in Silent
       /\ \A t \in Worker : ~Running(t)
       /\ AllRead
  /\ outcome = "cancelled_unstarted" => pc \in {"finalizing", "ended"}

\* The record is final only after the outcome.
FinalizedLast == manifest.state = "finalized" => pc \in Final

EngineInv ==
  /\ Shapes /\ Lineage /\ Stages /\ Threads /\ Output /\ Overflows /\ Protocol
  /\ Causes /\ Settled /\ FinalizedLast /\ OwnDeath /\ OutputComplete

-----------------------------------------------------------------------------
(* What is kept of a stream.                                                *)

\* The community theorem on concatenation, for a name of the result.
LEMMA Joined ==
  ASSUME NEW s \in Seq(Nat), NEW t \in Seq(Nat), NEW c, c = s \o t
  PROVE  /\ c \in Seq(Nat)
         /\ Len(c) = Len(s) + Len(t)
         /\ \A i \in 1 .. Len(s) + Len(t) :
              c[i] = IF i <= Len(s) THEN s[i] ELSE t[i - Len(s)]
  BY ConcatProperties, Zenon

\* The bytes m + 1 .. m + n are a sequence of n numbers.
LEMMA BytesType ==
  ASSUME NEW m \in Nat, NEW n \in Nat
  PROVE  /\ Bytes(m, n) \in Seq(Nat) /\ Len(Bytes(m, n)) = n
         /\ \A i \in 1 .. n : Bytes(m, n)[i] = m + i
  BY DEF Bytes

\* A sequence is told by its length and its elements.
LEMMA IsBytes ==
  ASSUME NEW m \in Nat, NEW n \in Nat, NEW c \in Seq(Nat), Len(c) = n,
         \A i \in 1 .. n : c[i] = m + i
  PROVE  c = Bytes(m, n)
  <1>1. PICK d : d = Bytes(m, n)
    OBVIOUS
  <1>2. d \in Seq(Nat) /\ Len(d) = n /\ \A i \in 1 .. n : d[i] = m + i
    BY <1>1, BytesType
  <1>3. \A i \in 1 .. Len(c) : c[i] = d[i]
    BY <1>2
  <1>4. c = d
    BY <1>2, <1>3, SeqEqual, Zenon
  <1> QED
    BY <1>1, <1>4

\* Consecutive runs of bytes join to one.
LEMMA BytesConcat ==
  ASSUME NEW m \in Nat, NEW n \in Nat, NEW k \in Nat
  PROVE  Bytes(m, n) \o Bytes(m + n, k) = Bytes(m, n + k)
  <1>1. PICK s : s = Bytes(m, n)
    OBVIOUS
  <1>2. PICK t : t = Bytes(m + n, k)
    OBVIOUS
  <1>3. PICK c : c = s \o t
    OBVIOUS
  <1>4. s \in Seq(Nat) /\ Len(s) = n /\ \A i \in 1 .. n : s[i] = m + i
    BY <1>1, BytesType
  <1>5. t \in Seq(Nat) /\ Len(t) = k /\ \A i \in 1 .. k : t[i] = m + n + i
    <2>1. m + n \in Nat
      OBVIOUS
    <2> QED
      BY <1>2, <2>1, BytesType
  <1>6. /\ c \in Seq(Nat)
        /\ Len(c) = Len(s) + Len(t)
        /\ \A i \in 1 .. Len(s) + Len(t) :
             c[i] = IF i <= Len(s) THEN s[i] ELSE t[i - Len(s)]
    BY <1>3, <1>4, <1>5, Joined
  <1>7. ASSUME NEW i \in 1 .. n + k
        PROVE  c[i] = m + i
    <2>1. CASE i <= n
      BY <1>4, <1>5, <1>6, <2>1
    <2>2. CASE i > n
      <3>1. i - n \in 1 .. k
        BY <2>2
      <3>2. c[i] = t[i - n]
        BY <1>4, <1>5, <1>6, <2>2
      <3>3. t[i - n] = m + n + (i - n)
        BY <1>5, <3>1
      <3> QED
        BY <3>2, <3>3
    <2> QED
      BY <2>1, <2>2
  <1>8. c = Bytes(m, n + k)
    <2>1. n + k \in Nat /\ Len(c) = n + k
      BY <1>4, <1>5, <1>6
    <2> QED
      BY <1>6, <1>7, <2>1, IsBytes
  <1> QED
    BY <1>1, <1>2, <1>3, <1>8

\* A part of a run is a run.
LEMMA BytesSub ==
  ASSUME NEW m \in Nat, NEW n \in Nat, NEW i \in 0 .. n, NEW j \in i .. n
  PROVE  SubSeq(Bytes(m, n), i + 1, j) = Bytes(m + i, j - i)
  <1>1. PICK s : s = Bytes(m, n)
    OBVIOUS
  <1>2. PICK t : t = SubSeq(s, i + 1, j)
    OBVIOUS
  <1>3. s \in Seq(Nat) /\ Len(s) = n /\ \A x \in 1 .. n : s[x] = m + x
    BY <1>1, BytesType
  <1>4. \A x \in i + 1 .. j : s[x] \in Nat
    BY <1>3
  <1>5. t \in Seq(Nat) /\ Len(t) = j - i /\ \A x \in 1 .. j - i : t[x] = s[i + x]
    BY <1>2, <1>4, SubSeqProperties, SMT
  <1>6. \A x \in 1 .. j - i : t[x] = m + i + x
    BY <1>3, <1>5
  <1>7. t = Bytes(m + i, j - i)
    <2>1. m + i \in Nat /\ j - i \in Nat
      OBVIOUS
    <2> QED
      BY <1>5, <1>6, <2>1, IsBytes
  <1> QED
    BY <1>1, <1>2, <1>7

\* What Budget may return.
Budgets == {Unbudgeted} \cup [head : Nat, tail : Nat]

\* StreamRetention.offer keeps the first and the last bytes of a stream, however
\* the stream is cut into chunks.
LEMMA OfferKeeps ==
  ASSUME NEW n \in Nat, NEW m \in Nat, NEW b \in Budgets
  PROVE  Offer(Retained(n, b), Bytes(n, m), b) = Retained(n + m, b)
  <1> DEFINE kept == Retained(n, b)
             chunk == Bytes(n, m)
             room == IF b = Unbudgeted THEN Len(chunk) ELSE b.head - Len(kept.head)
             took == Smaller(room, Len(chunk))
             rest == kept.tail \o SubSeq(chunk, took + 1, Len(chunk))
             over == IF b = Unbudgeted \/ Len(rest) <= b.tail THEN 0 ELSE Len(rest) - b.tail
             h == IF b = Unbudgeted THEN n ELSE Smaller(n, b.head)
             t == IF b = Unbudgeted THEN 0 ELSE Smaller(n - h, b.tail)
  <1>1. Offer(kept, chunk, b) = [head |-> kept.head \o SubSeq(chunk, 1, took),
                                 tail |-> SubSeq(rest, over + 1, Len(rest)),
                                 produced |-> kept.produced + Len(chunk),
                                 dropped |-> kept.dropped + over]
    BY DEF Offer
  <1>2. Len(chunk) = m
    BY BytesType
  <1>3. /\ kept.head = Bytes(0, h) /\ kept.tail = Bytes(n - t, t)
        /\ kept.produced = n /\ kept.dropped = n - h - t
    BY DEF Retained
  <1>4. b # Unbudgeted => b.head \in Nat /\ b.tail \in Nat
    BY DEF Budgets
  <1> HIDE DEF kept, chunk, room, took, rest, over
  <1>5. h \in 0 .. n /\ t \in 0 .. n
    BY <1>4 DEF Smaller
  <1>6. Len(kept.head) = h
    <2> HIDE DEF h, t
    <2>1. 0 \in Nat /\ h \in Nat
      BY <1>5
    <2>2. Len(Bytes(0, h)) = h
      BY <2>1, BytesType
    <2> QED
      BY <1>3, <2>2
  <1>7. /\ took \in 0 .. m
        /\ took # 0 => h = n /\ t = 0
        /\ h + took = IF b = Unbudgeted THEN n + m ELSE Smaller(n + m, b.head)
    <2>1. CASE b = Unbudgeted
      <3>1. took = m /\ h = n /\ t = 0
        BY <2>1, <1>2 DEF Smaller, took, room
      <3> QED
        BY <2>1, <3>1
    <2>2. CASE b # Unbudgeted
      <3>1. took = Smaller(b.head - h, m)
        BY <2>2, <1>2, <1>6 DEF took, room
      <3>2. h = Smaller(n, b.head) /\ t = Smaller(n - h, b.tail)
        BY <2>2
      <3> HIDE DEF h, t
      <3> QED
        BY <2>2, <3>1, <3>2, <1>4 DEF Smaller
    <2> QED
      BY <2>1, <2>2
  <1>8. kept.head \o SubSeq(chunk, 1, took) = Bytes(0, h + took)
    <2> HIDE DEF h, t
    <2>1. SubSeq(chunk, 0 + 1, took) = Bytes(n + 0, took - 0)
      <3>1. 0 \in 0 .. m /\ took \in 0 .. m
        BY <1>7
      <3> QED
        BY <3>1, BytesSub DEF chunk
    <2>2. SubSeq(chunk, 1, took) = Bytes(n, took)
      BY <1>7, <2>1
    <2>3. Bytes(n, took) = Bytes(0 + h, took)
      <3>1. CASE took = 0
        BY <3>1 DEF Bytes
      <3>2. CASE took # 0
        BY <3>2, <1>7
      <3> QED
        BY <3>1, <3>2
    <2>4. h \in Nat /\ took \in Nat
      BY <1>5, <1>7
    <2>5. Bytes(0, h) \o Bytes(0 + h, took) = Bytes(0, h + took)
      BY <2>4, BytesConcat
    <2> QED
      BY <1>3, <2>2, <2>3, <2>5
  <1>9. rest = Bytes(n + took - t, t + m - took) /\ Len(rest) = t + m - took
    <2> HIDE DEF h, t
    <2>1. SubSeq(chunk, took + 1, m) = Bytes(n + took, m - took)
      <3>1. took \in 0 .. m /\ m \in took .. m
        BY <1>7
      <3> QED
        BY <3>1, BytesSub DEF chunk
    <2>2. kept.tail = Bytes(n + took - t, t)
      <3>1. CASE took = 0
        <4>1. n + took - t = n - t
          BY <3>1, <1>5
        <4> QED
          BY <4>1, <1>3
      <3>2. CASE took # 0
        <4>1. t = 0
          BY <3>2, <1>7
        <4> QED
          BY <4>1, <1>3 DEF Bytes
      <3> QED
        BY <3>1, <3>2
    <2>3. n + took - t \in Nat /\ m - took \in Nat /\ (n + took - t) + t = n + took
          /\ t + (m - took) = t + m - took /\ t + m - took \in Nat /\ t \in Nat
      BY <1>5, <1>7
    <2>4. Bytes(n + took - t, t) \o Bytes((n + took - t) + t, m - took)
            = Bytes(n + took - t, t + (m - took))
      BY <2>3, BytesConcat
    <2>5. rest = Bytes(n + took - t, t + m - took)
      BY <1>2, <2>1, <2>2, <2>3, <2>4 DEF rest
    <2> QED
      BY <2>3, <2>5, BytesType
  <1> DEFINE t2 == IF b = Unbudgeted THEN 0 ELSE Smaller(n + m - (h + took), b.tail)
  <1>10. t2 \in Nat /\ over \in 0 .. t + m - took /\ t2 = t + m - took - over
    <2>1. CASE b = Unbudgeted
      <3>1. over = 0
        BY <2>1 DEF over
      <3>2. t = 0 /\ took = m
        BY <2>1, <1>2, <1>7
      <3> QED
        BY <2>1, <3>1, <3>2
    <2>2. CASE b # Unbudgeted
      <3>1. h = Smaller(n, b.head) /\ t = Smaller(n - h, b.tail)
            /\ t2 = Smaller(n + m - (h + took), b.tail)
        BY <2>2
      <3> HIDE DEF h, t, t2
      <3>2. PICK q \in Nat : q = t + m - took /\ Len(rest) = q
        BY <1>5, <1>7, <1>9
      <3>3. over = IF q <= b.tail THEN 0 ELSE q - b.tail
        BY <2>2, <3>2 DEF over
      <3>4. h + took = Smaller(n + m, b.head)
        BY <2>2, <1>7
      <3>7. b.head \in Nat /\ b.tail \in Nat
        BY <1>4, <2>2
      <3>5. CASE n <= b.head
        <4>1. h = n /\ t = 0
          BY <3>1, <3>5, <3>7 DEF Smaller
        <4>2. n + m - (h + took) = q
          BY <4>1, <3>2, <1>7
        <4>3. t2 = IF q < b.tail THEN q ELSE b.tail
          BY <3>1, <4>2 DEF Smaller
        <4> QED
          BY <3>2, <3>3, <3>7, <4>3, <1>5, <1>7
      <3>6. CASE n > b.head
        <4>1. h = b.head /\ took = 0
          BY <3>1, <3>6, <3>7, <1>7 DEF Smaller
        <4>2. t = IF n - h < b.tail THEN n - h ELSE b.tail
          BY <3>1 DEF Smaller
        <4>3. n + m - (h + took) = n + m - h /\ q = t + m
          BY <4>1, <3>2, <1>5, <3>7
        <4>4. t2 = IF n + m - h < b.tail THEN n + m - h ELSE b.tail
          BY <3>1, <4>3 DEF Smaller
        <4>5. t2 = IF q < b.tail THEN q ELSE b.tail
          BY <4>1, <4>2, <4>3, <4>4, <3>6, <3>7
        <4> QED
          BY <3>2, <3>3, <3>7, <4>5, <1>5, <1>7
      <3> QED
        BY <3>5, <3>6, <3>7
    <2> QED
      BY <2>1, <2>2
  <1> HIDE DEF h, t, t2
  <1>11. SubSeq(rest, over + 1, Len(rest)) = Bytes(n + m - t2, t2)
    <2>1. PICK p \in Nat, q \in Nat : p = n + took - t /\ q = t + m - took
      BY <1>5, <1>7
    <2>2. over \in 0 .. q /\ q \in over .. q
      BY <1>10, <2>1
    <2>3. SubSeq(Bytes(p, q), over + 1, q) = Bytes(p + over, q - over)
      BY <2>2, BytesSub
    <2>4. p + over = n + m - t2 /\ q - over = t2
      BY <1>5, <1>7, <1>10, <2>1
    <2>5. rest = Bytes(p, q) /\ Len(rest) = q
      BY <1>9, <2>1
    <2> QED
      BY <2>3, <2>4, <2>5
  <1>12. n - h - t + over = n + m - (h + took) - t2
    BY <1>5, <1>7, <1>10
  <1>13. Retained(n + m, b) = [head |-> Bytes(0, h + took), tail |-> Bytes(n + m - t2, t2),
                               produced |-> n + m, dropped |-> n + m - (h + took) - t2]
    <2>1. CASE b = Unbudgeted
      BY <2>1, <1>7 DEF Retained, t2
    <2>2. CASE b # Unbudgeted
      <3>1. Smaller(n + m, b.head) = h + took
        BY <2>2, <1>7
      <3>2. t2 = Smaller(n + m - Smaller(n + m, b.head), b.tail)
        BY <2>2, <3>1 DEF t2
      <3>3. Retained(n + m, b) = [head |-> Bytes(0, Smaller(n + m, b.head)),
                                  tail |-> Bytes(n + m - t2, t2), produced |-> n + m,
                                  dropped |-> n + m - Smaller(n + m, b.head) - t2]
        <4>1. PICK g \in Nat : g = Smaller(n + m, b.head)
          BY <1>5, <1>7, <3>1
        <4>2. t2 = Smaller(n + m - g, b.tail)
          BY <3>2, <4>1
        <4>3. Retained(n + m, b) = [head |-> Bytes(0, g), tail |-> Bytes(n + m - t2, t2),
                                    produced |-> n + m, dropped |-> n + m - g - t2]
          BY <2>2, <4>1, <4>2, <1>10 DEF Retained
        <4> QED
          BY <4>1, <4>3
      <3> QED
        BY <2>2, <3>1, <3>2, <3>3
    <2> QED
      BY <2>1, <2>2
  <1>14. Offer(kept, chunk, b) = Retained(n + m, b)
    BY <1>1, <1>2, <1>3, <1>8, <1>11, <1>12, <1>13
  <1> QED
    BY <1>14 DEF kept, chunk

-----------------------------------------------------------------------------
(* One step.                                                                *)

\* Every step keeps the child and the call in step.
LEMMA StagesStep ==
  ASSUME Shapes, Lineage, Stages, EngineNext
  PROVE  Stages'
  <1> USE DEF vars, disk, mainVars, childVars, pumpVars, flagVars, Stages, Shapes, Lineage,
              Unspawned, Starting, Watching, Ending, Final, InGroup, PC, Awaiting, TearingDown, Over
  <1>1. ASSUME Preparing PROVE Stages'
    BY <1>1 DEF Preparing, engineVars
  <1>2. ASSUME PrepareFails PROVE Stages'
    BY <1>2 DEF PrepareFails, MainOnly, Goes
  <1>3. ASSUME LookBeforeSpawn PROVE Stages'
    BY <1>3 DEF LookBeforeSpawn, StoreOnly, Goes, NothingRan
  <1>4. ASSUME Launch PROVE Stages'
    BY <1>4 DEF Launch, Goes
  <1>5. ASSUME LaunchFails PROVE Stages'
    BY <1>5 DEF LaunchFails, MainOnly, Goes
  <1>6. ASSUME ReadStatus PROVE Stages'
    BY <1>6 DEF ReadStatus, MainOnly, Goes
  <1>7. ASSUME StartThread PROVE Stages'
    BY <1>7 DEF StartThread, Goes, NextThread, Worker
  <1>8. ASSUME StartThreadFails PROVE Stages'
    BY <1>8 DEF StartThreadFails, Escapes, Goes, MainOnly, Worker
  <1>9. ASSUME Mark PROVE Stages'
    BY <1>9 DEF Mark, Goes, StoreOnly
  <1>10. ASSUME Poll PROVE Stages'
    BY <1>10 DEF Poll, Goes
  <1>11. ASSUME LookAtFlags PROVE Stages'
    BY <1>11 DEF LookAtFlags, MainOnly
  <1>12. ASSUME LookAtDeadline PROVE Stages'
    BY <1>12 DEF LookAtDeadline, MainOnly, Goes
  <1>13. ASSUME TermGroup PROVE Stages'
    BY <1>13 DEF TermGroup, Teardown, Goes, KinAfterTerm
  <1>14. ASSUME TermLeader PROVE Stages'
    BY <1>14 DEF TermLeader, Teardown, Goes, TermReaches, Ends, Alive
  <1>15. ASSUME GraceReaps PROVE Stages'
    BY <1>15 DEF GraceReaps, Teardown, Goes, AfterReap
  <1>16. ASSUME KillGroup PROVE Stages'
    BY <1>16 DEF KillGroup, Teardown, Goes, Gone, Ends
  <1>17. ASSUME KillLeader PROVE Stages'
    BY <1>17 DEF KillLeader, Teardown, Goes, Ends, Alive
  <1>18. ASSUME Reap PROVE Stages'
    BY <1>18 DEF Reap, Teardown, Goes, AfterReap
  <1>19. ASSUME Probe PROVE Stages'
    BY <1>19 DEF Probe, Teardown, Goes, Gone
  <1>20. ASSUME Join PROVE Stages'
    BY <1>20 DEF Join, Goes, StoreOnly, ChildEnds, NothingRan
  <1>21. ASSUME Finalizing PROVE Stages'
    BY <1>21 DEF Finalizing, engineVars
  <1>22. ASSUME Finalized PROVE Stages'
    BY <1>22 DEF Finalized, MainOnly, Goes
  <1>23. ASSUME Release PROVE Stages'
    BY <1>23 DEF Release, Goes
  <1>24. ASSUME Close PROVE Stages'
    BY <1>24 DEF Close, Goes, StoreOnly
  <1>25. ASSUME StatusTimesOut PROVE Stages'
    BY <1>25 DEF StatusTimesOut, Escapes, Goes, MainOnly
  <1>26. ASSUME GraceExpires PROVE Stages'
    BY <1>26 DEF GraceExpires, Teardown, Goes, Alive
  <1>27. ASSUME JoinTimesOut PROVE Stages'
    BY <1>27 DEF JoinTimesOut, MainOnly, Goes
  <1>28. ASSUME SetsUp PROVE Stages'
    BY <1>28 DEF SetsUp, Outside, Ends
  <1>29. ASSUME ChildDies PROVE Stages'
    BY <1>29 DEF ChildDies, Outside, Ends, Alive
  <1>30. ASSUME Says PROVE Stages'
    BY <1>30 DEF Says, Outside, Speaks
  <1>31. ASSUME Forks PROVE Stages'
    BY <1>31 DEF Forks, Outside
  <1>32. ASSUME KinMoves PROVE Stages'
    BY <1>32 DEF KinMoves, Outside
  <1>33. ASSUME NEW s \in Stream, Writes(s) PROVE Stages'
    BY <1>33 DEF Writes, Outside, Speaks
  <1>34. ASSUME Cancels PROVE Stages'
    BY <1>34 DEF Cancels, Looking
  <1>35. ASSUME Expires PROVE Stages'
    BY <1>35 DEF Expires, Looking
  <1>36. ASSUME FeederEnds PROVE Stages'
    BY <1>36 DEF FeederEnds, ThreadOnly, ThreadEnds, Running
  <1>37. ASSUME NEW s \in Stream, PumpReads(s) PROVE Stages'
    BY <1>37 DEF PumpReads, ThreadOnly, Running
  <1>38. ASSUME PumpForwards PROVE Stages'
    BY <1>38 DEF PumpForwards, ThreadOnly, Running
  <1>39. ASSUME PumpEnds PROVE Stages'
    BY <1>39 DEF PumpEnds, ThreadOnly, ThreadEnds, Running, Held, Alive
  <1>40. ASSUME ReaderEnds PROVE Stages'
    BY <1>40 DEF ReaderEnds, ThreadOnly, ThreadEnds, Running
  <1>41. ASSUME TransportFails PROVE Stages'
    BY <1>41 DEF TransportFails, ThreadOnly, ThreadEnds, Running
  <1> QED
    BY EngineNext, <1>1, <1>2, <1>3, <1>4, <1>5, <1>6, <1>7, <1>8, <1>9, <1>10, <1>11, <1>12, <1>13,
       <1>14, <1>15, <1>16, <1>17, <1>18, <1>19, <1>20, <1>21, <1>22, <1>23, <1>24, <1>25, <1>26,
       <1>27, <1>28, <1>29, <1>30, <1>31, <1>32, <1>33, <1>34, <1>35, <1>36, <1>37, <1>38, <1>39,
       <1>40, <1>41
       DEF EngineNext, MainSteps, Timeouts, ChildSteps, PumpSteps

\* Every step keeps what a bootstrap cannot have done undone.
LEMMA LineageStep ==
  ASSUME Shapes, Lineage, Stages, EngineNext
  PROVE  Lineage'
  <1> USE DEF vars, disk, mainVars, childVars, pumpVars, flagVars, Lineage, Shapes, Stages,
              Unspawned, Starting, Watching, Ending, Final, InGroup, PC, Awaiting, TearingDown, Over
  <1>1. ASSUME Preparing PROVE Lineage'
    BY <1>1 DEF Preparing, engineVars
  <1>2. ASSUME PrepareFails PROVE Lineage'
    BY <1>2 DEF PrepareFails, MainOnly, Goes
  <1>3. ASSUME LookBeforeSpawn PROVE Lineage'
    BY <1>3 DEF LookBeforeSpawn, StoreOnly, Goes, NothingRan
  <1>4. ASSUME Launch PROVE Lineage'
    BY <1>4 DEF Launch, Goes
  <1>5. ASSUME LaunchFails PROVE Lineage'
    BY <1>5 DEF LaunchFails, MainOnly, Goes
  <1>6. ASSUME ReadStatus PROVE Lineage'
    BY <1>6 DEF ReadStatus, MainOnly, Goes
  <1>7. ASSUME StartThread PROVE Lineage'
    BY <1>7 DEF StartThread, Goes, NextThread, Worker
  <1>8. ASSUME StartThreadFails PROVE Lineage'
    BY <1>8 DEF StartThreadFails, Escapes, Goes, MainOnly, Worker
  <1>9. ASSUME Mark PROVE Lineage'
    BY <1>9 DEF Mark, Goes, StoreOnly
  <1>10. ASSUME Poll PROVE Lineage'
    BY <1>10 DEF Poll, Goes
  <1>11. ASSUME LookAtFlags PROVE Lineage'
    BY <1>11 DEF LookAtFlags, MainOnly
  <1>12. ASSUME LookAtDeadline PROVE Lineage'
    BY <1>12 DEF LookAtDeadline, MainOnly, Goes
  <1>13. ASSUME TermGroup PROVE Lineage'
    BY <1>13 DEF TermGroup, Teardown, Goes, KinAfterTerm
  <1>14. ASSUME TermLeader PROVE Lineage'
    BY <1>14 DEF TermLeader, Teardown, Goes, TermReaches, Ends, Alive
  <1>15. ASSUME GraceReaps PROVE Lineage'
    BY <1>15 DEF GraceReaps, Teardown, Goes, AfterReap
  <1>16. ASSUME KillGroup PROVE Lineage'
    BY <1>16 DEF KillGroup, Teardown, Goes, Gone, Ends
  <1>17. ASSUME KillLeader PROVE Lineage'
    BY <1>17 DEF KillLeader, Teardown, Goes, Ends, Alive
  <1>18. ASSUME Reap PROVE Lineage'
    BY <1>18 DEF Reap, Teardown, Goes, AfterReap
  <1>19. ASSUME Probe PROVE Lineage'
    BY <1>19 DEF Probe, Teardown, Goes, Gone
  <1>20. ASSUME Join PROVE Lineage'
    BY <1>20 DEF Join, Goes, StoreOnly, ChildEnds, NothingRan
  <1>21. ASSUME Finalizing PROVE Lineage'
    BY <1>21 DEF Finalizing, engineVars
  <1>22. ASSUME Finalized PROVE Lineage'
    BY <1>22 DEF Finalized, MainOnly, Goes
  <1>23. ASSUME Release PROVE Lineage'
    BY <1>23 DEF Release, Goes
  <1>24. ASSUME Close PROVE Lineage'
    BY <1>24 DEF Close, Goes, StoreOnly
  <1>25. ASSUME StatusTimesOut PROVE Lineage'
    BY <1>25 DEF StatusTimesOut, Escapes, Goes, MainOnly
  <1>26. ASSUME GraceExpires PROVE Lineage'
    BY <1>26 DEF GraceExpires, Teardown, Goes, Alive
  <1>27. ASSUME JoinTimesOut PROVE Lineage'
    BY <1>27 DEF JoinTimesOut, MainOnly, Goes
  <1>28. ASSUME SetsUp PROVE Lineage'
    BY <1>28 DEF SetsUp, Outside, Ends
  <1>29. ASSUME ChildDies PROVE Lineage'
    BY <1>29 DEF ChildDies, Outside, Ends, Alive
  <1>30. ASSUME Says PROVE Lineage'
    BY <1>30 DEF Says, Outside, Speaks
  <1>31. ASSUME Forks PROVE Lineage'
    BY <1>31 DEF Forks, Outside
  <1>32. ASSUME KinMoves PROVE Lineage'
    BY <1>32 DEF KinMoves, Outside
  <1>33. ASSUME NEW s \in Stream, Writes(s) PROVE Lineage'
    BY <1>33 DEF Writes, Outside, Speaks
  <1>34. ASSUME Cancels PROVE Lineage'
    BY <1>34 DEF Cancels, Looking
  <1>35. ASSUME Expires PROVE Lineage'
    BY <1>35 DEF Expires, Looking
  <1>36. ASSUME FeederEnds PROVE Lineage'
    BY <1>36 DEF FeederEnds, ThreadOnly, ThreadEnds, Running
  <1>37. ASSUME NEW s \in Stream, PumpReads(s) PROVE Lineage'
    BY <1>37 DEF PumpReads, ThreadOnly, Running
  <1>38. ASSUME PumpForwards PROVE Lineage'
    BY <1>38 DEF PumpForwards, ThreadOnly, Running
  <1>39. ASSUME PumpEnds PROVE Lineage'
    BY <1>39 DEF PumpEnds, ThreadOnly, ThreadEnds, Running, Held, Alive
  <1>40. ASSUME ReaderEnds PROVE Lineage'
    BY <1>40 DEF ReaderEnds, ThreadOnly, ThreadEnds, Running
  <1>41. ASSUME TransportFails PROVE Lineage'
    BY <1>41 DEF TransportFails, ThreadOnly, ThreadEnds, Running
  <1> QED
    BY EngineNext, <1>1, <1>2, <1>3, <1>4, <1>5, <1>6, <1>7, <1>8, <1>9, <1>10, <1>11, <1>12, <1>13,
       <1>14, <1>15, <1>16, <1>17, <1>18, <1>19, <1>20, <1>21, <1>22, <1>23, <1>24, <1>25, <1>26,
       <1>27, <1>28, <1>29, <1>30, <1>31, <1>32, <1>33, <1>34, <1>35, <1>36, <1>37, <1>38, <1>39,
       <1>40, <1>41
       DEF EngineNext, MainSteps, Timeouts, ChildSteps, PumpSteps

\* _adopt_started: one thread starts, and the next is up.
LEMMA StartEffect ==
  ASSUME StartThread
  PROVE  \E t \in Worker :
           /\ pc = t /\ pc' = NextThread[t]
           /\ thread' = [thread EXCEPT ![t] = IF t = "feeder" /\ ~job.input THEN "ended"
                                              ELSE IF t = "reader" /\ ~job.protocol THEN thread[t]
                                              ELSE "running"]
  BY DEF StartThread, Goes

\* Every step keeps the order in which the threads start and end.
LEMMA ThreadsStep ==
  ASSUME Shapes, Lineage, Stages, Threads, Settled, EngineNext
  PROVE  Threads'
  <1> USE DEF vars, disk, mainVars, childVars, pumpVars, flagVars, Threads, Shapes, Lineage, Stages,
              Settled, Running, Worker, Unspawned, Starting, Watching, Ending, Final, InGroup, PC,
              Awaiting, TearingDown, Over
  <1>1. ASSUME Preparing PROVE Threads'
    BY <1>1 DEF Preparing, engineVars
  <1>2. ASSUME PrepareFails PROVE Threads'
    BY <1>2 DEF PrepareFails, MainOnly, Goes
  <1>3. ASSUME LookBeforeSpawn PROVE Threads'
    BY <1>3 DEF LookBeforeSpawn, StoreOnly, Goes, NothingRan
  <1>4. ASSUME Launch PROVE Threads'
    BY <1>4 DEF Launch, Goes
  <1>5. ASSUME LaunchFails PROVE Threads'
    BY <1>5 DEF LaunchFails, MainOnly, Goes
  <1>6. ASSUME ReadStatus PROVE Threads'
    BY <1>6 DEF ReadStatus, MainOnly, Goes
  <1>7. ASSUME StartThread PROVE Threads'
    <2>1. PICK t \in Worker :
            /\ pc = t /\ pc' = NextThread[t]
            /\ thread' = [thread EXCEPT ![t] = IF t = "feeder" /\ ~job.input THEN "ended"
                                               ELSE IF t = "reader" /\ ~job.protocol THEN thread[t]
                                               ELSE "running"]
      BY <1>7, StartEffect
    <2>2. UNCHANGED <<leader, status, raised, released>> /\ leader \in {"payload"} \cup Over
          /\ status = "none"
      BY <1>7, <2>1 DEF StartThread
    <2>3. released # TRUE
      BY <2>1
    <2>4. CASE t = "feeder"
      BY <2>1, <2>2, <2>3, <2>4 DEF NextThread
    <2>5. CASE t = "pump"
      BY <2>1, <2>2, <2>3, <2>5 DEF NextThread
    <2>6. CASE t = "reader"
      BY <2>1, <2>2, <2>3, <2>6 DEF NextThread
    <2> QED
      BY <2>1, <2>4, <2>5, <2>6
  <1>8. ASSUME StartThreadFails PROVE Threads'
    BY <1>8 DEF StartThreadFails, Escapes, Goes, MainOnly, Worker
  <1>9. ASSUME Mark PROVE Threads'
    BY <1>9 DEF Mark, Goes, StoreOnly
  <1>10. ASSUME Poll PROVE Threads'
    BY <1>10 DEF Poll, Goes
  <1>11. ASSUME LookAtFlags PROVE Threads'
    BY <1>11 DEF LookAtFlags, MainOnly
  <1>12. ASSUME LookAtDeadline PROVE Threads'
    BY <1>12 DEF LookAtDeadline, MainOnly, Goes
  <1>13. ASSUME TermGroup PROVE Threads'
    BY <1>13 DEF TermGroup, Teardown, Goes, KinAfterTerm
  <1>14. ASSUME TermLeader PROVE Threads'
    BY <1>14 DEF TermLeader, Teardown, Goes, TermReaches, Ends, Alive
  <1>15. ASSUME GraceReaps PROVE Threads'
    BY <1>15 DEF GraceReaps, Teardown, Goes, AfterReap
  <1>16. ASSUME KillGroup PROVE Threads'
    BY <1>16 DEF KillGroup, Teardown, Goes, Gone, Ends
  <1>17. ASSUME KillLeader PROVE Threads'
    BY <1>17 DEF KillLeader, Teardown, Goes, Ends, Alive
  <1>18. ASSUME Reap PROVE Threads'
    BY <1>18 DEF Reap, Teardown, Goes, AfterReap
  <1>19. ASSUME Probe PROVE Threads'
    BY <1>19 DEF Probe, Teardown, Goes, Gone
  <1>20. ASSUME Join PROVE Threads'
    BY <1>20 DEF Join, Goes, StoreOnly, ChildEnds, NothingRan
  <1>21. ASSUME Finalizing PROVE Threads'
    BY <1>21 DEF Finalizing, engineVars
  <1>22. ASSUME Finalized PROVE Threads'
    BY <1>22 DEF Finalized, MainOnly, Goes
  <1>23. ASSUME Release PROVE Threads'
    BY <1>23 DEF Release, Goes
  <1>24. ASSUME Close PROVE Threads'
    BY <1>24 DEF Close, Goes, StoreOnly
  <1>25. ASSUME StatusTimesOut PROVE Threads'
    BY <1>25 DEF StatusTimesOut, Escapes, Goes, MainOnly
  <1>26. ASSUME GraceExpires PROVE Threads'
    BY <1>26 DEF GraceExpires, Teardown, Goes, Alive
  <1>27. ASSUME JoinTimesOut PROVE Threads'
    BY <1>27 DEF JoinTimesOut, MainOnly, Goes
  <1>28. ASSUME SetsUp PROVE Threads'
    BY <1>28 DEF SetsUp, Outside, Ends
  <1>29. ASSUME ChildDies PROVE Threads'
    BY <1>29 DEF ChildDies, Outside, Ends, Alive
  <1>30. ASSUME Says PROVE Threads'
    BY <1>30 DEF Says, Outside, Speaks
  <1>31. ASSUME Forks PROVE Threads'
    BY <1>31 DEF Forks, Outside
  <1>32. ASSUME KinMoves PROVE Threads'
    BY <1>32 DEF KinMoves, Outside
  <1>33. ASSUME NEW s \in Stream, Writes(s) PROVE Threads'
    BY <1>33 DEF Writes, Outside, Speaks
  <1>34. ASSUME Cancels PROVE Threads'
    BY <1>34 DEF Cancels, Looking
  <1>35. ASSUME Expires PROVE Threads'
    BY <1>35 DEF Expires, Looking
  <1>36. ASSUME FeederEnds PROVE Threads'
    BY <1>36 DEF FeederEnds, ThreadOnly, ThreadEnds, Running
  <1>37. ASSUME NEW s \in Stream, PumpReads(s) PROVE Threads'
    BY <1>37 DEF PumpReads, ThreadOnly, Running
  <1>38. ASSUME PumpForwards PROVE Threads'
    BY <1>38 DEF PumpForwards, ThreadOnly, Running
  <1>39. ASSUME PumpEnds PROVE Threads'
    BY <1>39 DEF PumpEnds, ThreadOnly, ThreadEnds, Running, Held, Alive
  <1>40. ASSUME ReaderEnds PROVE Threads'
    BY <1>40 DEF ReaderEnds, ThreadOnly, ThreadEnds, Running
  <1>41. ASSUME TransportFails PROVE Threads'
    BY <1>41 DEF TransportFails, ThreadOnly, ThreadEnds, Running
  <1> QED
    BY EngineNext, <1>1, <1>2, <1>3, <1>4, <1>5, <1>6, <1>7, <1>8, <1>9, <1>10, <1>11, <1>12, <1>13,
       <1>14, <1>15, <1>16, <1>17, <1>18, <1>19, <1>20, <1>21, <1>22, <1>23, <1>24, <1>25, <1>26,
       <1>27, <1>28, <1>29, <1>30, <1>31, <1>32, <1>33, <1>34, <1>35, <1>36, <1>37, <1>38, <1>39,
       <1>40, <1>41
       DEF EngineNext, MainSteps, Timeouts, ChildSteps, PumpSteps

\* An end before the first signal is the child's own.
LEMMA EndsOwn ==
  ASSUME NEW how, Ends(how), pc \notin TearingDown
  PROVE  leader' = "zombie" /\ death'.own = TRUE
  BY DEF Ends


\* Every step keeps the child's own end apart from one the engine caused.
LEMMA CausesStep ==
  ASSUME Shapes, Lineage, Stages, Threads, Causes, EngineNext
  PROVE  Causes'
  <1> USE DEF vars, disk, mainVars, childVars, pumpVars, flagVars, Causes, Shapes, Stages, Lineage,
              Excused, Failed, Running, Worker, Unspawned, Starting, Watching, Ending, Final,
              InGroup, PC, Awaiting, TearingDown, Over
  <1>1. ASSUME Preparing PROVE Causes'
    BY <1>1 DEF Preparing, engineVars
  <1>2. ASSUME PrepareFails PROVE Causes'
    BY <1>2 DEF PrepareFails, MainOnly, Goes
  <1>3. ASSUME LookBeforeSpawn PROVE Causes'
    BY <1>3 DEF LookBeforeSpawn, StoreOnly, Goes, NothingRan
  <1>4. ASSUME Launch PROVE Causes'
    BY <1>4 DEF Launch, Goes
  <1>5. ASSUME LaunchFails PROVE Causes'
    BY <1>5 DEF LaunchFails, MainOnly, Goes
  <1>6. ASSUME ReadStatus PROVE Causes'
    BY <1>6 DEF ReadStatus, MainOnly, Goes
  <1>7. ASSUME StartThread PROVE Causes'
    BY <1>7 DEF StartThread, Goes, NextThread, Worker
  <1>8. ASSUME StartThreadFails PROVE Causes'
    BY <1>8 DEF StartThreadFails, Escapes, Goes, MainOnly, Worker
  <1>9. ASSUME Mark PROVE Causes'
    BY <1>9 DEF Mark, Goes, StoreOnly
  <1>10. ASSUME Poll PROVE Causes'
    BY <1>10 DEF Poll, Goes
  <1>11. ASSUME LookAtFlags PROVE Causes'
    BY <1>11 DEF LookAtFlags, MainOnly
  <1>12. ASSUME LookAtDeadline PROVE Causes'
    BY <1>12 DEF LookAtDeadline, MainOnly, Goes
  <1>13. ASSUME TermGroup PROVE Causes'
    BY <1>13 DEF TermGroup, Teardown, Goes, KinAfterTerm
  <1>14. ASSUME TermLeader PROVE Causes'
    BY <1>14 DEF TermLeader, Teardown, Goes, TermReaches, Ends, Alive
  <1>15. ASSUME GraceReaps PROVE Causes'
    BY <1>15 DEF GraceReaps, Teardown, Goes, AfterReap
  <1>16. ASSUME KillGroup PROVE Causes'
    BY <1>16 DEF KillGroup, Teardown, Goes, Gone, Ends
  <1>17. ASSUME KillLeader PROVE Causes'
    BY <1>17 DEF KillLeader, Teardown, Goes, Ends, Alive
  <1>18. ASSUME Reap PROVE Causes'
    BY <1>18 DEF Reap, Teardown, Goes, AfterReap
  <1>19. ASSUME Probe PROVE Causes'
    BY <1>19 DEF Probe, Teardown, Goes, Gone
  <1>20. ASSUME Join PROVE Causes'
    BY <1>20 DEF Join, Goes, StoreOnly, ChildEnds, NothingRan
  <1>21. ASSUME Finalizing PROVE Causes'
    BY <1>21 DEF Finalizing, engineVars
  <1>22. ASSUME Finalized PROVE Causes'
    BY <1>22 DEF Finalized, MainOnly, Goes
  <1>23. ASSUME Release PROVE Causes'
    BY <1>23 DEF Release, Goes
  <1>24. ASSUME Close PROVE Causes'
    BY <1>24 DEF Close, Goes, StoreOnly
  <1>25. ASSUME StatusTimesOut PROVE Causes'
    BY <1>25 DEF StatusTimesOut, Escapes, Goes, MainOnly
  <1>26. ASSUME GraceExpires PROVE Causes'
    BY <1>26 DEF GraceExpires, Teardown, Goes, Alive
  <1>27. ASSUME JoinTimesOut PROVE Causes'
    BY <1>27 DEF JoinTimesOut, MainOnly, Goes
  <1>28. ASSUME SetsUp PROVE Causes'
    <2>1. CASE \E how : Ends(how)
      <3>1. PICK how : Ends(how)
        BY <2>1
      <3>2. leader \in {"boot", "session"} /\ UNCHANGED <<pc, raised, stop, thread>>
            /\ leader' \in Over
        BY <1>28, <3>1 DEF SetsUp, Outside, Ends
      <3>3. CASE pc \in TearingDown
        BY <1>28, <3>2, <3>3 DEF SetsUp
      <3>4. CASE pc \notin TearingDown
        BY <3>1, <3>2, <3>4, EndsOwn DEF Excused
      <3> QED
        BY <3>3, <3>4
    <2>2. CASE ~ \E how : Ends(how)
      BY <1>28, <2>2 DEF SetsUp, Outside
    <2> QED
      BY <2>1, <2>2
  <1>29. ASSUME ChildDies PROVE Causes'
    <2>1. PICK how : Ends(how)
      BY <1>29 DEF ChildDies
    <2>2. leader \in {"boot", "session", "payload"} /\ UNCHANGED <<pc, raised, stop, thread>>
          /\ leader' \in Over
      BY <1>29, <2>1 DEF ChildDies, Outside, Ends, Alive
    <2>3. CASE pc \in TearingDown
      BY <2>2, <2>3, <1>29 DEF ChildDies
    <2>4. CASE pc \notin TearingDown
      BY <2>1, <2>2, <2>4, EndsOwn DEF Excused
    <2> QED
      BY <2>3, <2>4
  <1>30. ASSUME Says PROVE Causes'
    BY <1>30 DEF Says, Outside, Speaks
  <1>31. ASSUME Forks PROVE Causes'
    BY <1>31 DEF Forks, Outside
  <1>32. ASSUME KinMoves PROVE Causes'
    BY <1>32 DEF KinMoves, Outside
  <1>33. ASSUME NEW s \in Stream, Writes(s) PROVE Causes'
    BY <1>33 DEF Writes, Outside, Speaks
  <1>34. ASSUME Cancels PROVE Causes'
    BY <1>34 DEF Cancels, Looking
  <1>35. ASSUME Expires PROVE Causes'
    BY <1>35 DEF Expires, Looking
  <1>36. ASSUME FeederEnds PROVE Causes'
    BY <1>36 DEF FeederEnds, ThreadOnly, ThreadEnds, Running
  <1>37. ASSUME NEW s \in Stream, PumpReads(s) PROVE Causes'
    BY <1>37 DEF PumpReads, ThreadOnly, Running
  <1>38. ASSUME PumpForwards PROVE Causes'
    BY <1>38 DEF PumpForwards, ThreadOnly, Running
  <1>39. ASSUME PumpEnds PROVE Causes'
    BY <1>39 DEF PumpEnds, ThreadOnly, ThreadEnds, Running, Held, Alive
  <1>40. ASSUME ReaderEnds PROVE Causes'
    BY <1>40 DEF ReaderEnds, ThreadOnly, ThreadEnds, Running
  <1>41. ASSUME TransportFails PROVE Causes'
    BY <1>41 DEF TransportFails, ThreadOnly, ThreadEnds, Running
  <1> QED
    BY EngineNext, <1>1, <1>2, <1>3, <1>4, <1>5, <1>6, <1>7, <1>8, <1>9, <1>10, <1>11, <1>12, <1>13,
       <1>14, <1>15, <1>16, <1>17, <1>18, <1>19, <1>20, <1>21, <1>22, <1>23, <1>24, <1>25, <1>26,
       <1>27, <1>28, <1>29, <1>30, <1>31, <1>32, <1>33, <1>34, <1>35, <1>36, <1>37, <1>38, <1>39,
       <1>40, <1>41
       DEF EngineNext, MainSteps, Timeouts, ChildSteps, PumpSteps

\* Every step keeps the verdict that of the forwarded stream.
LEMMA ProtocolStep ==
  ASSUME Shapes, Lineage, Stages, Threads, Protocol, EngineNext
  PROVE  Protocol'
  <1> USE DEF vars, disk, mainVars, childVars, pumpVars, flagVars, Protocol, Shapes, Stages,
              Lineage, Threads, Said, Running, Worker, Unspawned, Starting, Watching, Ending, Final,
              InGroup, PC, Awaiting, TearingDown, Over
  <1>1. ASSUME Preparing PROVE Protocol'
    BY <1>1 DEF Preparing, engineVars
  <1>2. ASSUME PrepareFails PROVE Protocol'
    BY <1>2 DEF PrepareFails, MainOnly, Goes
  <1>3. ASSUME LookBeforeSpawn PROVE Protocol'
    BY <1>3 DEF LookBeforeSpawn, StoreOnly, Goes, NothingRan
  <1>4. ASSUME Launch PROVE Protocol'
    BY <1>4 DEF Launch, Goes
  <1>5. ASSUME LaunchFails PROVE Protocol'
    BY <1>5 DEF LaunchFails, MainOnly, Goes
  <1>6. ASSUME ReadStatus PROVE Protocol'
    BY <1>6 DEF ReadStatus, MainOnly, Goes
  <1>7. ASSUME StartThread PROVE Protocol'
    BY <1>7 DEF StartThread, Goes, NextThread, Worker
  <1>8. ASSUME StartThreadFails PROVE Protocol'
    BY <1>8 DEF StartThreadFails, Escapes, Goes, MainOnly, Worker
  <1>9. ASSUME Mark PROVE Protocol'
    BY <1>9 DEF Mark, Goes, StoreOnly
  <1>10. ASSUME Poll PROVE Protocol'
    BY <1>10 DEF Poll, Goes
  <1>11. ASSUME LookAtFlags PROVE Protocol'
    BY <1>11 DEF LookAtFlags, MainOnly
  <1>12. ASSUME LookAtDeadline PROVE Protocol'
    BY <1>12 DEF LookAtDeadline, MainOnly, Goes
  <1>13. ASSUME TermGroup PROVE Protocol'
    BY <1>13 DEF TermGroup, Teardown, Goes, KinAfterTerm
  <1>14. ASSUME TermLeader PROVE Protocol'
    BY <1>14 DEF TermLeader, Teardown, Goes, TermReaches, Ends, Alive
  <1>15. ASSUME GraceReaps PROVE Protocol'
    BY <1>15 DEF GraceReaps, Teardown, Goes, AfterReap
  <1>16. ASSUME KillGroup PROVE Protocol'
    BY <1>16 DEF KillGroup, Teardown, Goes, Gone, Ends
  <1>17. ASSUME KillLeader PROVE Protocol'
    BY <1>17 DEF KillLeader, Teardown, Goes, Ends, Alive
  <1>18. ASSUME Reap PROVE Protocol'
    BY <1>18 DEF Reap, Teardown, Goes, AfterReap
  <1>19. ASSUME Probe PROVE Protocol'
    BY <1>19 DEF Probe, Teardown, Goes, Gone
  <1>20. ASSUME Join PROVE Protocol'
    BY <1>20 DEF Join, Goes, StoreOnly, ChildEnds, NothingRan
  <1>21. ASSUME Finalizing PROVE Protocol'
    BY <1>21 DEF Finalizing, engineVars
  <1>22. ASSUME Finalized PROVE Protocol'
    BY <1>22 DEF Finalized, MainOnly, Goes
  <1>23. ASSUME Release PROVE Protocol'
    BY <1>23 DEF Release, Goes
  <1>24. ASSUME Close PROVE Protocol'
    BY <1>24 DEF Close, Goes, StoreOnly
  <1>25. ASSUME StatusTimesOut PROVE Protocol'
    BY <1>25 DEF StatusTimesOut, Escapes, Goes, MainOnly
  <1>26. ASSUME GraceExpires PROVE Protocol'
    BY <1>26 DEF GraceExpires, Teardown, Goes, Alive
  <1>27. ASSUME JoinTimesOut PROVE Protocol'
    BY <1>27 DEF JoinTimesOut, MainOnly, Goes
  <1>28. ASSUME SetsUp PROVE Protocol'
    BY <1>28 DEF SetsUp, Outside, Ends
  <1>29. ASSUME ChildDies PROVE Protocol'
    BY <1>29 DEF ChildDies, Outside, Ends, Alive
  <1>30. ASSUME Says PROVE Protocol'
    BY <1>30 DEF Says, Outside, Speaks
  <1>31. ASSUME Forks PROVE Protocol'
    BY <1>31 DEF Forks, Outside
  <1>32. ASSUME KinMoves PROVE Protocol'
    BY <1>32 DEF KinMoves, Outside
  <1>33. ASSUME NEW s \in Stream, Writes(s) PROVE Protocol'
    BY <1>33 DEF Writes, Outside, Speaks
  <1>34. ASSUME Cancels PROVE Protocol'
    BY <1>34 DEF Cancels, Looking
  <1>35. ASSUME Expires PROVE Protocol'
    BY <1>35 DEF Expires, Looking
  <1>36. ASSUME FeederEnds PROVE Protocol'
    BY <1>36 DEF FeederEnds, ThreadOnly, ThreadEnds, Running
  <1>37. ASSUME NEW s \in Stream, PumpReads(s) PROVE Protocol'
    BY <1>37 DEF PumpReads, ThreadOnly, Running
  <1>38. ASSUME PumpForwards PROVE Protocol'
    BY <1>38 DEF PumpForwards, ThreadOnly, Running
  <1>39. ASSUME PumpEnds PROVE Protocol'
    BY <1>39 DEF PumpEnds, ThreadOnly, ThreadEnds, Running, Held, Alive
  <1>40. ASSUME ReaderEnds PROVE Protocol'
    BY <1>40 DEF ReaderEnds, ThreadOnly, ThreadEnds, Running
  <1>41. ASSUME TransportFails PROVE Protocol'
    BY <1>41 DEF TransportFails, ThreadOnly, ThreadEnds, Running
  <1> QED
    BY EngineNext, <1>1, <1>2, <1>3, <1>4, <1>5, <1>6, <1>7, <1>8, <1>9, <1>10, <1>11, <1>12, <1>13,
       <1>14, <1>15, <1>16, <1>17, <1>18, <1>19, <1>20, <1>21, <1>22, <1>23, <1>24, <1>25, <1>26,
       <1>27, <1>28, <1>29, <1>30, <1>31, <1>32, <1>33, <1>34, <1>35, <1>36, <1>37, <1>38, <1>39,
       <1>40, <1>41
       DEF EngineNext, MainSteps, Timeouts, ChildSteps, PumpSteps

\* No step but the last publish makes the record final.
LEMMA RecordedStep ==
  ASSUME Shapes, Stages, FinalizedLast, EngineNext
  PROVE  FinalizedLast'
  <1> USE DEF vars, disk, mainVars, childVars, pumpVars, flagVars, FinalizedLast, Shapes, Unspawned,
              Starting, Watching, Ending, Final, InGroup, PC, Awaiting, TearingDown, Over
  <1>1. ASSUME Preparing PROVE FinalizedLast'
    <2>1. manifest'.state # "finalized" \/ manifest' = manifest
      BY <1>1 DEF Preparing, Begin, Prepare, Allocate, ReclaimDecides, Reclaim, ReclaimRemoves,
                  AllocateAgain,
               PublishPrepared, PublishPreparedRaises, CleanDecides, CleanRemoves, Mkdir,
               Rmtree, RmtreePartly, Publishes, PublishRaises, Manifest, NoManifest
    <2> QED
      BY <1>1, <2>1 DEF Preparing, engineVars
  <1>2. ASSUME PrepareFails PROVE FinalizedLast'
    BY <1>2 DEF PrepareFails, MainOnly, Goes
  <1>3. ASSUME LookBeforeSpawn PROVE FinalizedLast'
    BY <1>3 DEF LookBeforeSpawn, StoreOnly, Goes, NothingRan
  <1>4. ASSUME Launch PROVE FinalizedLast'
    BY <1>4 DEF Launch, Goes
  <1>5. ASSUME LaunchFails PROVE FinalizedLast'
    BY <1>5 DEF LaunchFails, MainOnly, Goes
  <1>6. ASSUME ReadStatus PROVE FinalizedLast'
    BY <1>6 DEF ReadStatus, MainOnly, Goes
  <1>7. ASSUME StartThread PROVE FinalizedLast'
    BY <1>7 DEF StartThread, Goes, NextThread, Worker
  <1>8. ASSUME StartThreadFails PROVE FinalizedLast'
    BY <1>8 DEF StartThreadFails, Escapes, Goes, MainOnly, Worker
  <1>9. ASSUME Mark PROVE FinalizedLast'
    BY <1>9 DEF Mark, Goes, StoreOnly, MarkRunning, MarkRunningRaises, Publishes, PublishRaises,
             Manifest
  <1>10. ASSUME Poll PROVE FinalizedLast'
    BY <1>10 DEF Poll, Goes
  <1>11. ASSUME LookAtFlags PROVE FinalizedLast'
    BY <1>11 DEF LookAtFlags, MainOnly
  <1>12. ASSUME LookAtDeadline PROVE FinalizedLast'
    BY <1>12 DEF LookAtDeadline, MainOnly, Goes
  <1>13. ASSUME TermGroup PROVE FinalizedLast'
    BY <1>13 DEF TermGroup, Teardown, Goes, KinAfterTerm
  <1>14. ASSUME TermLeader PROVE FinalizedLast'
    BY <1>14 DEF TermLeader, Teardown, Goes, TermReaches, Ends, Alive
  <1>15. ASSUME GraceReaps PROVE FinalizedLast'
    BY <1>15 DEF GraceReaps, Teardown, Goes, AfterReap
  <1>16. ASSUME KillGroup PROVE FinalizedLast'
    BY <1>16 DEF KillGroup, Teardown, Goes, Gone, Ends
  <1>17. ASSUME KillLeader PROVE FinalizedLast'
    BY <1>17 DEF KillLeader, Teardown, Goes, Ends, Alive
  <1>18. ASSUME Reap PROVE FinalizedLast'
    BY <1>18 DEF Reap, Teardown, Goes, AfterReap
  <1>19. ASSUME Probe PROVE FinalizedLast'
    BY <1>19 DEF Probe, Teardown, Goes, Gone
  <1>20. ASSUME Join PROVE FinalizedLast'
    BY <1>20 DEF Join, Goes, StoreOnly, ChildEnds, NothingRan
  <1>21. ASSUME Finalizing PROVE FinalizedLast'
    BY <1>21 DEF Finalizing, engineVars
  <1>22. ASSUME Finalized PROVE FinalizedLast'
    BY <1>22 DEF Finalized, MainOnly, Goes
  <1>23. ASSUME Release PROVE FinalizedLast'
    BY <1>23 DEF Release, Goes
  <1>24. ASSUME Close PROVE FinalizedLast'
    BY <1>24 DEF Close, Goes, StoreOnly
  <1>25. ASSUME StatusTimesOut PROVE FinalizedLast'
    BY <1>25 DEF StatusTimesOut, Escapes, Goes, MainOnly
  <1>26. ASSUME GraceExpires PROVE FinalizedLast'
    BY <1>26 DEF GraceExpires, Teardown, Goes, Alive
  <1>27. ASSUME JoinTimesOut PROVE FinalizedLast'
    BY <1>27 DEF JoinTimesOut, MainOnly, Goes
  <1>28. ASSUME SetsUp PROVE FinalizedLast'
    BY <1>28 DEF SetsUp, Outside, Ends
  <1>29. ASSUME ChildDies PROVE FinalizedLast'
    BY <1>29 DEF ChildDies, Outside, Ends, Alive
  <1>30. ASSUME Says PROVE FinalizedLast'
    BY <1>30 DEF Says, Outside, Speaks
  <1>31. ASSUME Forks PROVE FinalizedLast'
    BY <1>31 DEF Forks, Outside
  <1>32. ASSUME KinMoves PROVE FinalizedLast'
    BY <1>32 DEF KinMoves, Outside
  <1>33. ASSUME NEW s \in Stream, Writes(s) PROVE FinalizedLast'
    BY <1>33 DEF Writes, Outside, Speaks
  <1>34. ASSUME Cancels PROVE FinalizedLast'
    BY <1>34 DEF Cancels, Looking
  <1>35. ASSUME Expires PROVE FinalizedLast'
    BY <1>35 DEF Expires, Looking
  <1>36. ASSUME FeederEnds PROVE FinalizedLast'
    BY <1>36 DEF FeederEnds, ThreadOnly, ThreadEnds, Running
  <1>37. ASSUME NEW s \in Stream, PumpReads(s) PROVE FinalizedLast'
    BY <1>37 DEF PumpReads, ThreadOnly, Running
  <1>38. ASSUME PumpForwards PROVE FinalizedLast'
    BY <1>38 DEF PumpForwards, ThreadOnly, Running
  <1>39. ASSUME PumpEnds PROVE FinalizedLast'
    BY <1>39 DEF PumpEnds, ThreadOnly, ThreadEnds, Running, Held, Alive
  <1>40. ASSUME ReaderEnds PROVE FinalizedLast'
    BY <1>40 DEF ReaderEnds, ThreadOnly, ThreadEnds, Running
  <1>41. ASSUME TransportFails PROVE FinalizedLast'
    BY <1>41 DEF TransportFails, ThreadOnly, ThreadEnds, Running
  <1> QED
    BY EngineNext, <1>1, <1>2, <1>3, <1>4, <1>5, <1>6, <1>7, <1>8, <1>9, <1>10, <1>11, <1>12, <1>13,
       <1>14, <1>15, <1>16, <1>17, <1>18, <1>19, <1>20, <1>21, <1>22, <1>23, <1>24, <1>25, <1>26,
       <1>27, <1>28, <1>29, <1>30, <1>31, <1>32, <1>33, <1>34, <1>35, <1>36, <1>37, <1>38, <1>39,
       <1>40, <1>41
       DEF EngineNext, MainSteps, Timeouts, ChildSteps, PumpSteps

\* What _outcome_of returns: a stop for an overflow was preceded by the overflow.
LEMMA Outcomes ==
  ASSUME Shapes, Overflows
  PROVE  /\ status # "none" => OutcomeOf \in {"spawn_absent", "spawn_failed"}
         /\ status = "none" /\ Overflowed(retention) => OutcomeOf = "payload_output"
         /\ status = "none" /\ ~Overflowed(retention) =>
              /\ stop # "none" => OutcomeOf = stop /\ stop \in {"cancelled", "wall_time"}
              /\ stop = "none" => OutcomeOf \in {"protocol_failed", death.how}
  <1>1. CASE status = "absent"
    BY <1>1 DEF OutcomeOf
  <1>2. CASE status \notin {"none", "absent"}
    BY <1>2 DEF OutcomeOf
  <1>3. CASE status = "none" /\ Overflowed(retention)
    BY <1>3 DEF OutcomeOf
  <1>4. CASE status = "none" /\ ~Overflowed(retention)
    <2>1. stop # "overflow"
      BY <1>4 DEF Overflows
    <2>2. OutcomeOf = IF stop # "none" THEN stop
                      ELSE IF verdict = "failed" THEN "protocol_failed" ELSE death.how
      BY <1>4 DEF OutcomeOf
    <2> QED
      BY <1>4, <2>1, <2>2 DEF Shapes
  <1> QED
    BY <1>1, <1>2, <1>3, <1>4

\* Join: the threads are over, and it either raises or settles the outcome.
LEMMA JoinEffect ==
  ASSUME Join
  PROVE  /\ pc = "joining" /\ pc' \in {"closing", "finalizing"}
         /\ \A t \in Worker : ~Running(t)
         /\ UNCHANGED <<job, stop, leads, leader, death, status, kin, wrote, said,
                        retention, overflow, pumped, verdict, thread, released>>
         /\ outcome' = outcome \/ (~Failed /\ outcome' = OutcomeOf)
  BY DEF Join, Goes, StoreOnly, childVars, pumpVars, flagVars

\* Every step keeps the types.
LEMMA ShapesStep ==
  ASSUME Shapes, Lineage, Stages, Overflows, EngineNext
  PROVE  Shapes'
  <1> USE DEF vars, disk, mainVars, childVars, pumpVars, flagVars, Shapes, Setup, Worker, Unspawned,
              Starting, Watching, Ending, Final, InGroup, PC, Awaiting, TearingDown, Over
  <1>1. ASSUME Preparing PROVE Shapes'
    BY <1>1 DEF Preparing, engineVars
  <1>2. ASSUME PrepareFails PROVE Shapes'
    BY <1>2 DEF PrepareFails, MainOnly, Goes
  <1>3. ASSUME LookBeforeSpawn PROVE Shapes'
    BY <1>3 DEF LookBeforeSpawn, StoreOnly, Goes, NothingRan
  <1>4. ASSUME Launch PROVE Shapes'
    BY <1>4 DEF Launch, Goes
  <1>5. ASSUME LaunchFails PROVE Shapes'
    BY <1>5 DEF LaunchFails, MainOnly, Goes
  <1>6. ASSUME ReadStatus PROVE Shapes'
    BY <1>6 DEF ReadStatus, MainOnly, Goes
  <1>7. ASSUME StartThread PROVE Shapes'
    BY <1>7 DEF StartThread, Goes, NextThread, Worker
  <1>8. ASSUME StartThreadFails PROVE Shapes'
    BY <1>8 DEF StartThreadFails, Escapes, Goes, MainOnly, Worker
  <1>9. ASSUME Mark PROVE Shapes'
    BY <1>9 DEF Mark, Goes, StoreOnly
  <1>10. ASSUME Poll PROVE Shapes'
    BY <1>10 DEF Poll, Goes
  <1>11. ASSUME LookAtFlags PROVE Shapes'
    BY <1>11 DEF LookAtFlags, MainOnly
  <1>12. ASSUME LookAtDeadline PROVE Shapes'
    BY <1>12 DEF LookAtDeadline, MainOnly, Goes
  <1>13. ASSUME TermGroup PROVE Shapes'
    BY <1>13 DEF TermGroup, Teardown, Goes, KinAfterTerm
  <1>14. ASSUME TermLeader PROVE Shapes'
    BY <1>14 DEF TermLeader, Teardown, Goes, TermReaches, Ends, Alive
  <1>15. ASSUME GraceReaps PROVE Shapes'
    BY <1>15 DEF GraceReaps, Teardown, Goes, AfterReap
  <1>16. ASSUME KillGroup PROVE Shapes'
    BY <1>16 DEF KillGroup, Teardown, Goes, Gone, Ends
  <1>17. ASSUME KillLeader PROVE Shapes'
    BY <1>17 DEF KillLeader, Teardown, Goes, Ends, Alive
  <1>18. ASSUME Reap PROVE Shapes'
    BY <1>18 DEF Reap, Teardown, Goes, AfterReap
  <1>19. ASSUME Probe PROVE Shapes'
    BY <1>19 DEF Probe, Teardown, Goes, Gone
  <1>20. ASSUME Join PROVE Shapes'
    <2>1. CASE outcome' = outcome
      BY <1>20, <2>1, JoinEffect
    <2>2. CASE outcome' = OutcomeOf
      <3>1. OutcomeOf \in {"none", "spawn_absent", "spawn_failed", "payload_output", "wall_time",
                           "cancelled", "protocol_failed", "exited", "signaled"}
        BY Outcomes
      <3> QED
        BY <1>20, <2>2, <3>1, JoinEffect
    <2> QED
      BY <1>20, <2>1, <2>2, JoinEffect
  <1>21. ASSUME Finalizing PROVE Shapes'
    BY <1>21 DEF Finalizing, engineVars
  <1>22. ASSUME Finalized PROVE Shapes'
    BY <1>22 DEF Finalized, MainOnly, Goes
  <1>23. ASSUME Release PROVE Shapes'
    BY <1>23 DEF Release, Goes
  <1>24. ASSUME Close PROVE Shapes'
    BY <1>24 DEF Close, Goes, StoreOnly
  <1>25. ASSUME StatusTimesOut PROVE Shapes'
    BY <1>25 DEF StatusTimesOut, Escapes, Goes, MainOnly
  <1>26. ASSUME GraceExpires PROVE Shapes'
    BY <1>26 DEF GraceExpires, Teardown, Goes, Alive
  <1>27. ASSUME JoinTimesOut PROVE Shapes'
    BY <1>27 DEF JoinTimesOut, MainOnly, Goes
  <1>28. ASSUME SetsUp PROVE Shapes'
    BY <1>28 DEF SetsUp, Outside, Ends
  <1>29. ASSUME ChildDies PROVE Shapes'
    BY <1>29 DEF ChildDies, Outside, Ends, Alive
  <1>30. ASSUME Says PROVE Shapes'
    BY <1>30 DEF Says, Outside, Speaks
  <1>31. ASSUME Forks PROVE Shapes'
    BY <1>31 DEF Forks, Outside
  <1>32. ASSUME KinMoves PROVE Shapes'
    BY <1>32 DEF KinMoves, Outside
  <1>33. ASSUME NEW s \in Stream, Writes(s) PROVE Shapes'
    BY <1>33 DEF Writes, Outside, Speaks
  <1>34. ASSUME Cancels PROVE Shapes'
    BY <1>34 DEF Cancels, Looking
  <1>35. ASSUME Expires PROVE Shapes'
    BY <1>35 DEF Expires, Looking
  <1>36. ASSUME FeederEnds PROVE Shapes'
    BY <1>36 DEF FeederEnds, ThreadOnly, ThreadEnds, Running
  <1>37. ASSUME NEW s \in Stream, PumpReads(s) PROVE Shapes'
    BY <1>37 DEF PumpReads, ThreadOnly, Running
  <1>38. ASSUME PumpForwards PROVE Shapes'
    BY <1>38 DEF PumpForwards, ThreadOnly, Running
  <1>39. ASSUME PumpEnds PROVE Shapes'
    BY <1>39 DEF PumpEnds, ThreadOnly, ThreadEnds, Running, Held, Alive
  <1>40. ASSUME ReaderEnds PROVE Shapes'
    BY <1>40 DEF ReaderEnds, ThreadOnly, ThreadEnds, Running
  <1>41. ASSUME TransportFails PROVE Shapes'
    BY <1>41 DEF TransportFails, ThreadOnly, ThreadEnds, Running
  <1> QED
    BY EngineNext, <1>1, <1>2, <1>3, <1>4, <1>5, <1>6, <1>7, <1>8, <1>9, <1>10, <1>11, <1>12, <1>13,
       <1>14, <1>15, <1>16, <1>17, <1>18, <1>19, <1>20, <1>21, <1>22, <1>23, <1>24, <1>25, <1>26,
       <1>27, <1>28, <1>29, <1>30, <1>31, <1>32, <1>33, <1>34, <1>35, <1>36, <1>37, <1>38, <1>39,
       <1>40, <1>41
       DEF EngineNext, MainSteps, Timeouts, ChildSteps, PumpSteps

\* A declared budget, or none.
LEMMA BudgetIsBudget ==
  ASSUME job \in JobType, NEW s \in Stream
  PROVE  Budget(s) \in Budgets
  BY DEF Budget, Budgets, JobType

\* A read of the pump: what is kept goes with what is read.
LEMMA ReadEffect ==
  ASSUME Shapes, Output, NEW s \in Stream, PumpReads(s)
  PROVE  \E n \in Nat : /\ n \in retention[s].produced .. wrote[s]
                         /\ retention' = [retention EXCEPT ![s] = Retained(n, Budget(s))]
  <1> DEFINE seen == retention[s].produced
  <1>1. PICK n \in 1 .. wrote[s] - seen :
          retention' = [retention EXCEPT ![s] = Offer(retention[s], Bytes(seen, n), Budget(s))]
    BY DEF PumpReads
  <1>2. seen \in Nat /\ seen + n \in seen .. wrote[s] /\ n \in Nat /\ seen + n \in Nat
    BY DEF Output, Shapes
  <1>3. retention[s] = Retained(seen, Budget(s))
    BY DEF Output
  <1>4. Offer(Retained(seen, Budget(s)), Bytes(seen, n), Budget(s)) = Retained(seen + n, Budget(s))
    <2> HIDE DEF seen
    <2>1. Budget(s) \in Budgets
      BY BudgetIsBudget DEF Shapes
    <2> QED
      BY <1>2, <2>1, OfferKeeps
  <1> QED
    BY <1>1, <1>2, <1>3, <1>4

\* What is kept tells how much went by.
LEMMA RetainedProduced ==
  ASSUME NEW n, NEW b PROVE Retained(n, b).produced = n
  BY DEF Retained

\* Every step keeps what the pump holds that of the stream so far.
LEMMA OutputStep ==
  ASSUME Shapes, Lineage, Stages, Threads, Output, EngineNext
  PROVE  Output'
  <1> USE DEF vars, disk, mainVars, childVars, pumpVars, flagVars, Output, Shapes, Stages, Lineage,
              Threads, Running, Worker, AllRead, Budget, Silent, Unspawned, Starting, Watching,
              Ending, Final, InGroup, PC, Awaiting, TearingDown, Over
  <1>1. ASSUME Preparing PROVE Output'
    BY <1>1 DEF Preparing, engineVars
  <1>2. ASSUME PrepareFails PROVE Output'
    BY <1>2 DEF PrepareFails, MainOnly, Goes
  <1>3. ASSUME LookBeforeSpawn PROVE Output'
    BY <1>3 DEF LookBeforeSpawn, StoreOnly, Goes, NothingRan
  <1>4. ASSUME Launch PROVE Output'
    BY <1>4 DEF Launch, Goes
  <1>5. ASSUME LaunchFails PROVE Output'
    BY <1>5 DEF LaunchFails, MainOnly, Goes
  <1>6. ASSUME ReadStatus PROVE Output'
    BY <1>6 DEF ReadStatus, MainOnly, Goes
  <1>7. ASSUME StartThread PROVE Output'
    <2>1. thread'["pump"] = "ended" => thread["pump"] = "ended"
      BY <1>7 DEF StartThread, Goes, NextThread
    <2>2. UNCHANGED <<job, retention, wrote, said, pumped, leader, kin, released>>
      BY <1>7 DEF StartThread
    <2> QED
      BY <2>1, <2>2
  <1>8. ASSUME StartThreadFails PROVE Output'
    BY <1>8 DEF StartThreadFails, Escapes, Goes, MainOnly, Worker
  <1>9. ASSUME Mark PROVE Output'
    BY <1>9 DEF Mark, Goes, StoreOnly
  <1>10. ASSUME Poll PROVE Output'
    BY <1>10 DEF Poll, Goes
  <1>11. ASSUME LookAtFlags PROVE Output'
    BY <1>11 DEF LookAtFlags, MainOnly
  <1>12. ASSUME LookAtDeadline PROVE Output'
    BY <1>12 DEF LookAtDeadline, MainOnly, Goes
  <1>13. ASSUME TermGroup PROVE Output'
    BY <1>13 DEF TermGroup, Teardown, Goes, KinAfterTerm
  <1>14. ASSUME TermLeader PROVE Output'
    BY <1>14 DEF TermLeader, Teardown, Goes, TermReaches, Ends, Alive
  <1>15. ASSUME GraceReaps PROVE Output'
    BY <1>15 DEF GraceReaps, Teardown, Goes, AfterReap
  <1>16. ASSUME KillGroup PROVE Output'
    BY <1>16 DEF KillGroup, Teardown, Goes, Gone, Ends
  <1>17. ASSUME KillLeader PROVE Output'
    BY <1>17 DEF KillLeader, Teardown, Goes, Ends, Alive
  <1>18. ASSUME Reap PROVE Output'
    BY <1>18 DEF Reap, Teardown, Goes, AfterReap
  <1>19. ASSUME Probe PROVE Output'
    BY <1>19 DEF Probe, Teardown, Goes, Gone
  <1>20. ASSUME Join PROVE Output'
    BY <1>20 DEF Join, Goes, StoreOnly, ChildEnds, NothingRan
  <1>21. ASSUME Finalizing PROVE Output'
    BY <1>21 DEF Finalizing, engineVars
  <1>22. ASSUME Finalized PROVE Output'
    BY <1>22 DEF Finalized, MainOnly, Goes
  <1>23. ASSUME Release PROVE Output'
    BY <1>23 DEF Release, Goes
  <1>24. ASSUME Close PROVE Output'
    BY <1>24 DEF Close, Goes, StoreOnly
  <1>25. ASSUME StatusTimesOut PROVE Output'
    BY <1>25 DEF StatusTimesOut, Escapes, Goes, MainOnly
  <1>26. ASSUME GraceExpires PROVE Output'
    BY <1>26 DEF GraceExpires, Teardown, Goes, Alive
  <1>27. ASSUME JoinTimesOut PROVE Output'
    BY <1>27 DEF JoinTimesOut, MainOnly, Goes
  <1>28. ASSUME SetsUp PROVE Output'
    BY <1>28 DEF SetsUp, Outside, Ends
  <1>29. ASSUME ChildDies PROVE Output'
    BY <1>29 DEF ChildDies, Outside, Ends, Alive
  <1>30. ASSUME Says PROVE Output'
    BY <1>30 DEF Says, Outside, Speaks
  <1>31. ASSUME Forks PROVE Output'
    BY <1>31 DEF Forks, Outside
  <1>32. ASSUME KinMoves PROVE Output'
    BY <1>32 DEF KinMoves, Outside
  <1>33. ASSUME NEW s \in Stream, Writes(s) PROVE Output'
    <2>1. UNCHANGED <<job, retention, thread, released, leader, kin>>
      BY <1>33 DEF Writes, Outside
    <2>2. \A r \in Stream : wrote[r] \in Nat /\ wrote'[r] \in Nat /\ wrote[r] <= wrote'[r]
      BY <1>33 DEF Writes
    <2>3. ~(thread["pump"] = "ended" /\ released # TRUE)
      BY <1>33 DEF Writes, Speaks
    <2>4. \A r \in Stream : retention'[r].produced \in 0 .. wrote'[r]
      BY <2>1, <2>2
    <2> QED
      BY <2>1, <2>3, <2>4
  <1>34. ASSUME Cancels PROVE Output'
    BY <1>34 DEF Cancels, Looking
  <1>35. ASSUME Expires PROVE Output'
    BY <1>35 DEF Expires, Looking
  <1>36. ASSUME FeederEnds PROVE Output'
    BY <1>36 DEF FeederEnds, ThreadOnly, ThreadEnds, Running
  <1>37. ASSUME NEW s \in Stream, PumpReads(s) PROVE Output'
    <2>1. PICK n \in Nat : /\ n \in retention[s].produced .. wrote[s]
                           /\ retention' = [retention EXCEPT ![s] = Retained(n, Budget(s))]
      BY <1>37, ReadEffect
    <2>2. UNCHANGED <<job, wrote, thread, leader, kin>> /\ thread["pump"] = "running"
      BY <1>37 DEF PumpReads, ThreadOnly
    <2>3. Retained(n, Budget(s)).produced = n
      BY RetainedProduced
    <2>4. ASSUME NEW r \in Stream
          PROVE  /\ retention'[r] = Retained(retention'[r].produced, Budget(r))
                 /\ retention'[r].produced \in 0 .. wrote[r]
      <3>1. CASE r = s
        BY <2>1, <2>3, <3>1
      <3>2. CASE r # s
        BY <2>1, <3>2
      <3> QED
        BY <3>1, <3>2
    <2>5. retention' = [r \in Stream |-> Retained(retention'[r].produced, Budget(r))]
      BY <2>1, <2>4
    <2>6. \A r \in Stream : Budget(r)' = Budget(r)
      BY <2>2
    <2> QED
      BY <2>2, <2>4, <2>5, <2>6
  <1>38. ASSUME PumpForwards PROVE Output'
    BY <1>38 DEF PumpForwards, ThreadOnly, Running
  <1>39. ASSUME PumpEnds PROVE Output'
    BY <1>39 DEF PumpEnds, ThreadOnly, ThreadEnds, Running, Held, Alive
  <1>40. ASSUME ReaderEnds PROVE Output'
    BY <1>40 DEF ReaderEnds, ThreadOnly, ThreadEnds, Running
  <1>41. ASSUME TransportFails PROVE Output'
    BY <1>41 DEF TransportFails, ThreadOnly, ThreadEnds, Running
  <1> QED
    BY EngineNext, <1>1, <1>2, <1>3, <1>4, <1>5, <1>6, <1>7, <1>8, <1>9, <1>10, <1>11, <1>12, <1>13,
       <1>14, <1>15, <1>16, <1>17, <1>18, <1>19, <1>20, <1>21, <1>22, <1>23, <1>24, <1>25, <1>26,
       <1>27, <1>28, <1>29, <1>30, <1>31, <1>32, <1>33, <1>34, <1>35, <1>36, <1>37, <1>38, <1>39,
       <1>40, <1>41
       DEF EngineNext, MainSteps, Timeouts, ChildSteps, PumpSteps

\* Every step keeps the event behind the overflow it reports.
LEMMA OverflowsStep ==
  ASSUME Shapes, Stages, Causes, Output, Overflows, EngineNext
  PROVE  Overflows'
  <1> USE DEF vars, disk, mainVars, childVars, pumpVars, flagVars, Overflows, Shapes, Stages,
              Causes, Overflowed, MaxBytes, Unspawned, Starting, Watching, Ending, Final, InGroup,
              PC, Awaiting, TearingDown, Over
  <1>1. ASSUME Preparing PROVE Overflows'
    BY <1>1 DEF Preparing, engineVars
  <1>2. ASSUME PrepareFails PROVE Overflows'
    BY <1>2 DEF PrepareFails, MainOnly, Goes
  <1>3. ASSUME LookBeforeSpawn PROVE Overflows'
    BY <1>3 DEF LookBeforeSpawn, StoreOnly, Goes, NothingRan
  <1>4. ASSUME Launch PROVE Overflows'
    BY <1>4 DEF Launch, Goes
  <1>5. ASSUME LaunchFails PROVE Overflows'
    BY <1>5 DEF LaunchFails, MainOnly, Goes
  <1>6. ASSUME ReadStatus PROVE Overflows'
    BY <1>6 DEF ReadStatus, MainOnly, Goes
  <1>7. ASSUME StartThread PROVE Overflows'
    BY <1>7 DEF StartThread, Goes, NextThread, Worker
  <1>8. ASSUME StartThreadFails PROVE Overflows'
    BY <1>8 DEF StartThreadFails, Escapes, Goes, MainOnly, Worker
  <1>9. ASSUME Mark PROVE Overflows'
    BY <1>9 DEF Mark, Goes, StoreOnly
  <1>10. ASSUME Poll PROVE Overflows'
    BY <1>10 DEF Poll, Goes
  <1>11. ASSUME LookAtFlags PROVE Overflows'
    BY <1>11 DEF LookAtFlags, MainOnly
  <1>12. ASSUME LookAtDeadline PROVE Overflows'
    BY <1>12 DEF LookAtDeadline, MainOnly, Goes
  <1>13. ASSUME TermGroup PROVE Overflows'
    BY <1>13 DEF TermGroup, Teardown, Goes, KinAfterTerm
  <1>14. ASSUME TermLeader PROVE Overflows'
    BY <1>14 DEF TermLeader, Teardown, Goes, TermReaches, Ends, Alive
  <1>15. ASSUME GraceReaps PROVE Overflows'
    BY <1>15 DEF GraceReaps, Teardown, Goes, AfterReap
  <1>16. ASSUME KillGroup PROVE Overflows'
    BY <1>16 DEF KillGroup, Teardown, Goes, Gone, Ends
  <1>17. ASSUME KillLeader PROVE Overflows'
    BY <1>17 DEF KillLeader, Teardown, Goes, Ends, Alive
  <1>18. ASSUME Reap PROVE Overflows'
    BY <1>18 DEF Reap, Teardown, Goes, AfterReap
  <1>19. ASSUME Probe PROVE Overflows'
    BY <1>19 DEF Probe, Teardown, Goes, Gone
  <1>20. ASSUME Join PROVE Overflows'
    BY <1>20 DEF Join, Goes, StoreOnly, ChildEnds, NothingRan
  <1>21. ASSUME Finalizing PROVE Overflows'
    BY <1>21 DEF Finalizing, engineVars
  <1>22. ASSUME Finalized PROVE Overflows'
    BY <1>22 DEF Finalized, MainOnly, Goes
  <1>23. ASSUME Release PROVE Overflows'
    BY <1>23 DEF Release, Goes
  <1>24. ASSUME Close PROVE Overflows'
    BY <1>24 DEF Close, Goes, StoreOnly
  <1>25. ASSUME StatusTimesOut PROVE Overflows'
    BY <1>25 DEF StatusTimesOut, Escapes, Goes, MainOnly
  <1>26. ASSUME GraceExpires PROVE Overflows'
    BY <1>26 DEF GraceExpires, Teardown, Goes, Alive
  <1>27. ASSUME JoinTimesOut PROVE Overflows'
    BY <1>27 DEF JoinTimesOut, MainOnly, Goes
  <1>28. ASSUME SetsUp PROVE Overflows'
    BY <1>28 DEF SetsUp, Outside, Ends
  <1>29. ASSUME ChildDies PROVE Overflows'
    BY <1>29 DEF ChildDies, Outside, Ends, Alive
  <1>30. ASSUME Says PROVE Overflows'
    BY <1>30 DEF Says, Outside, Speaks
  <1>31. ASSUME Forks PROVE Overflows'
    BY <1>31 DEF Forks, Outside
  <1>32. ASSUME KinMoves PROVE Overflows'
    BY <1>32 DEF KinMoves, Outside
  <1>33. ASSUME NEW s \in Stream, Writes(s) PROVE Overflows'
    BY <1>33 DEF Writes, Outside, Speaks
  <1>34. ASSUME Cancels PROVE Overflows'
    BY <1>34 DEF Cancels, Looking
  <1>35. ASSUME Expires PROVE Overflows'
    BY <1>35 DEF Expires, Looking
  <1>36. ASSUME FeederEnds PROVE Overflows'
    BY <1>36 DEF FeederEnds, ThreadOnly, ThreadEnds, Running
  <1>37. ASSUME NEW s \in Stream, PumpReads(s) PROVE Overflows'
    <2>1. PICK n \in Nat : /\ n \in retention[s].produced .. wrote[s]
                           /\ retention' = [retention EXCEPT ![s] = Retained(n, Budget(s))]
      BY <1>37, ReadEffect
    <2>2. Retained(n, Budget(s)).produced = n
      BY RetainedProduced
    <2>3. \A r \in Stream : /\ retention[r].produced \in Nat /\ retention'[r].produced \in Nat
                             /\ retention[r].produced <= retention'[r].produced
      BY <2>1, <2>2 DEF Output
    <2>4. UNCHANGED <<job, stop>> /\ MaxBytes \in Nat
      BY <1>37 DEF PumpReads, ThreadOnly, JobType, Stream
    <2>5. overflow' = TRUE => overflow = TRUE \/ Overflowed(retention')
      BY <1>37 DEF PumpReads
    <2>6. Overflowed(retention) => Overflowed(retention')
      BY <2>3, <2>4 DEF Stream
    <2>7. overflow = TRUE => overflow' = TRUE
      BY <1>37 DEF PumpReads
    <2> QED
      BY <2>4, <2>5, <2>6, <2>7
  <1>38. ASSUME PumpForwards PROVE Overflows'
    BY <1>38 DEF PumpForwards, ThreadOnly, Running
  <1>39. ASSUME PumpEnds PROVE Overflows'
    BY <1>39 DEF PumpEnds, ThreadOnly, ThreadEnds, Running, Held, Alive
  <1>40. ASSUME ReaderEnds PROVE Overflows'
    BY <1>40 DEF ReaderEnds, ThreadOnly, ThreadEnds, Running
  <1>41. ASSUME TransportFails PROVE Overflows'
    BY <1>41 DEF TransportFails, ThreadOnly, ThreadEnds, Running
  <1> QED
    BY EngineNext, <1>1, <1>2, <1>3, <1>4, <1>5, <1>6, <1>7, <1>8, <1>9, <1>10, <1>11, <1>12, <1>13,
       <1>14, <1>15, <1>16, <1>17, <1>18, <1>19, <1>20, <1>21, <1>22, <1>23, <1>24, <1>25, <1>26,
       <1>27, <1>28, <1>29, <1>30, <1>31, <1>32, <1>33, <1>34, <1>35, <1>36, <1>37, <1>38, <1>39,
       <1>40, <1>41
       DEF EngineNext, MainSteps, Timeouts, ChildSteps, PumpSteps

\* A child that wrote nothing has been read to the end.
LEMMA NothingToRead ==
  ASSUME Output, Protocol, wrote = [s \in Stream |-> 0], said = "nothing"
  PROVE  AllRead
  BY DEF Output, Protocol, AllRead


\* Every step keeps a settled outcome out of reach of the child and the threads.
LEMMA SettledStep ==
  ASSUME Shapes, Lineage, Stages, Threads, Output, Protocol, Overflows, Settled, EngineNext
  PROVE  Settled'
  <1> USE DEF vars, disk, mainVars, childVars, pumpVars, flagVars, Settled, Shapes, Stages, Lineage,
              Threads, Running, Worker, AllRead, Silent, Unspawned, Starting, Watching, Ending,
              Final, InGroup, PC, Awaiting, TearingDown, Over
  <1>1. ASSUME Preparing PROVE Settled'
    BY <1>1 DEF Preparing, engineVars
  <1>2. ASSUME PrepareFails PROVE Settled'
    BY <1>2 DEF PrepareFails, MainOnly, Goes
  <1>3. ASSUME LookBeforeSpawn PROVE Settled'
    <2>1. AllRead
      BY <1>3, NothingToRead DEF LookBeforeSpawn, Goes
    <2> QED
      BY <1>3, <2>1 DEF LookBeforeSpawn, StoreOnly, Goes, NothingRan
  <1>4. ASSUME Launch PROVE Settled'
    BY <1>4 DEF Launch, Goes
  <1>5. ASSUME LaunchFails PROVE Settled'
    BY <1>5 DEF LaunchFails, MainOnly, Goes
  <1>6. ASSUME ReadStatus PROVE Settled'
    BY <1>6 DEF ReadStatus, MainOnly, Goes
  <1>7. ASSUME StartThread PROVE Settled'
    BY <1>7 DEF StartThread, Goes, NextThread, Worker
  <1>8. ASSUME StartThreadFails PROVE Settled'
    BY <1>8 DEF StartThreadFails, Escapes, Goes, MainOnly, Worker
  <1>9. ASSUME Mark PROVE Settled'
    BY <1>9 DEF Mark, Goes, StoreOnly
  <1>10. ASSUME Poll PROVE Settled'
    BY <1>10 DEF Poll, Goes
  <1>11. ASSUME LookAtFlags PROVE Settled'
    BY <1>11 DEF LookAtFlags, MainOnly
  <1>12. ASSUME LookAtDeadline PROVE Settled'
    BY <1>12 DEF LookAtDeadline, MainOnly, Goes
  <1>13. ASSUME TermGroup PROVE Settled'
    BY <1>13 DEF TermGroup, Teardown, Goes, KinAfterTerm
  <1>14. ASSUME TermLeader PROVE Settled'
    BY <1>14 DEF TermLeader, Teardown, Goes, TermReaches, Ends, Alive
  <1>15. ASSUME GraceReaps PROVE Settled'
    BY <1>15 DEF GraceReaps, Teardown, Goes, AfterReap
  <1>16. ASSUME KillGroup PROVE Settled'
    BY <1>16 DEF KillGroup, Teardown, Goes, Gone, Ends
  <1>17. ASSUME KillLeader PROVE Settled'
    BY <1>17 DEF KillLeader, Teardown, Goes, Ends, Alive
  <1>18. ASSUME Reap PROVE Settled'
    BY <1>18 DEF Reap, Teardown, Goes, AfterReap
  <1>19. ASSUME Probe PROVE Settled'
    BY <1>19 DEF Probe, Teardown, Goes, Gone
  <1>20. ASSUME Join PROVE Settled'
    <2>1. CASE outcome' = outcome
      BY <1>20, <2>1, JoinEffect
    <2>2. CASE outcome' = OutcomeOf /\ ~Failed
      <3>1. AllRead /\ kin \in Silent
        <4>1. CASE status # "none"
          BY <1>20, <4>1, NothingToRead, JoinEffect
        <4>2. CASE status = "none"
          <5>1. thread["pump"] = "ended"
            BY <1>20, <2>2, <4>2, JoinEffect DEF Failed
          <5> QED
            BY <1>20, <5>1, JoinEffect DEF Output
        <4> QED
          BY <4>1, <4>2
      <3>2. OutcomeOf # "cancelled_unstarted"
        BY Outcomes
      <3> QED
        BY <1>20, <2>2, <3>1, <3>2, JoinEffect
    <2> QED
      BY <1>20, <2>1, <2>2, JoinEffect
  <1>21. ASSUME Finalizing PROVE Settled'
    BY <1>21 DEF Finalizing, engineVars
  <1>22. ASSUME Finalized PROVE Settled'
    BY <1>22 DEF Finalized, MainOnly, Goes
  <1>23. ASSUME Release PROVE Settled'
    BY <1>23 DEF Release, Goes
  <1>24. ASSUME Close PROVE Settled'
    BY <1>24 DEF Close, Goes, StoreOnly
  <1>25. ASSUME StatusTimesOut PROVE Settled'
    BY <1>25 DEF StatusTimesOut, Escapes, Goes, MainOnly
  <1>26. ASSUME GraceExpires PROVE Settled'
    BY <1>26 DEF GraceExpires, Teardown, Goes, Alive
  <1>27. ASSUME JoinTimesOut PROVE Settled'
    BY <1>27 DEF JoinTimesOut, MainOnly, Goes
  <1>28. ASSUME SetsUp PROVE Settled'
    BY <1>28 DEF SetsUp, Outside, Ends
  <1>29. ASSUME ChildDies PROVE Settled'
    BY <1>29 DEF ChildDies, Outside, Ends, Alive
  <1>30. ASSUME Says PROVE Settled'
    BY <1>30 DEF Says, Outside, Speaks
  <1>31. ASSUME Forks PROVE Settled'
    BY <1>31 DEF Forks, Outside
  <1>32. ASSUME KinMoves PROVE Settled'
    BY <1>32 DEF KinMoves, Outside
  <1>33. ASSUME NEW s \in Stream, Writes(s) PROVE Settled'
    BY <1>33 DEF Writes, Outside, Speaks
  <1>34. ASSUME Cancels PROVE Settled'
    BY <1>34 DEF Cancels, Looking
  <1>35. ASSUME Expires PROVE Settled'
    BY <1>35 DEF Expires, Looking
  <1>36. ASSUME FeederEnds PROVE Settled'
    BY <1>36 DEF FeederEnds, ThreadOnly, ThreadEnds, Running
  <1>37. ASSUME NEW s \in Stream, PumpReads(s) PROVE Settled'
    BY <1>37 DEF PumpReads, ThreadOnly, Running
  <1>38. ASSUME PumpForwards PROVE Settled'
    BY <1>38 DEF PumpForwards, ThreadOnly, Running
  <1>39. ASSUME PumpEnds PROVE Settled'
    BY <1>39 DEF PumpEnds, ThreadOnly, ThreadEnds, Running, Held, Alive
  <1>40. ASSUME ReaderEnds PROVE Settled'
    BY <1>40 DEF ReaderEnds, ThreadOnly, ThreadEnds, Running
  <1>41. ASSUME TransportFails PROVE Settled'
    BY <1>41 DEF TransportFails, ThreadOnly, ThreadEnds, Running
  <1> QED
    BY EngineNext, <1>1, <1>2, <1>3, <1>4, <1>5, <1>6, <1>7, <1>8, <1>9, <1>10, <1>11, <1>12, <1>13,
       <1>14, <1>15, <1>16, <1>17, <1>18, <1>19, <1>20, <1>21, <1>22, <1>23, <1>24, <1>25, <1>26,
       <1>27, <1>28, <1>29, <1>30, <1>31, <1>32, <1>33, <1>34, <1>35, <1>36, <1>37, <1>38, <1>39,
       <1>40, <1>41
       DEF EngineNext, MainSteps, Timeouts, ChildSteps, PumpSteps

\* Every step keeps the payload from blame for what it did not do.
LEMMA OwnDeathStep ==
  ASSUME Shapes, Stages, Threads, Causes, Overflows, Settled, OwnDeath, EngineNext
  PROVE  OwnDeath'
  <1> USE DEF vars, disk, mainVars, childVars, pumpVars, flagVars, OwnDeath, Shapes, Stages, Causes,
              Settled, Owners, Excused, Unspawned, Starting, Watching, Ending, Final, InGroup, PC,
              Awaiting, TearingDown, Over
  <1>1. ASSUME Preparing PROVE OwnDeath'
    BY <1>1 DEF Preparing, engineVars
  <1>2. ASSUME PrepareFails PROVE OwnDeath'
    BY <1>2 DEF PrepareFails, MainOnly, Goes
  <1>3. ASSUME LookBeforeSpawn PROVE OwnDeath'
    BY <1>3 DEF LookBeforeSpawn, StoreOnly, Goes, NothingRan
  <1>4. ASSUME Launch PROVE OwnDeath'
    BY <1>4 DEF Launch, Goes
  <1>5. ASSUME LaunchFails PROVE OwnDeath'
    BY <1>5 DEF LaunchFails, MainOnly, Goes
  <1>6. ASSUME ReadStatus PROVE OwnDeath'
    BY <1>6 DEF ReadStatus, MainOnly, Goes
  <1>7. ASSUME StartThread PROVE OwnDeath'
    BY <1>7 DEF StartThread, Goes, NextThread, Worker
  <1>8. ASSUME StartThreadFails PROVE OwnDeath'
    BY <1>8 DEF StartThreadFails, Escapes, Goes, MainOnly, Worker
  <1>9. ASSUME Mark PROVE OwnDeath'
    BY <1>9 DEF Mark, Goes, StoreOnly
  <1>10. ASSUME Poll PROVE OwnDeath'
    BY <1>10 DEF Poll, Goes
  <1>11. ASSUME LookAtFlags PROVE OwnDeath'
    BY <1>11 DEF LookAtFlags, MainOnly
  <1>12. ASSUME LookAtDeadline PROVE OwnDeath'
    BY <1>12 DEF LookAtDeadline, MainOnly, Goes
  <1>13. ASSUME TermGroup PROVE OwnDeath'
    BY <1>13 DEF TermGroup, Teardown, Goes, KinAfterTerm
  <1>14. ASSUME TermLeader PROVE OwnDeath'
    BY <1>14 DEF TermLeader, Teardown, Goes, TermReaches, Ends, Alive
  <1>15. ASSUME GraceReaps PROVE OwnDeath'
    BY <1>15 DEF GraceReaps, Teardown, Goes, AfterReap
  <1>16. ASSUME KillGroup PROVE OwnDeath'
    BY <1>16 DEF KillGroup, Teardown, Goes, Gone, Ends
  <1>17. ASSUME KillLeader PROVE OwnDeath'
    BY <1>17 DEF KillLeader, Teardown, Goes, Ends, Alive
  <1>18. ASSUME Reap PROVE OwnDeath'
    BY <1>18 DEF Reap, Teardown, Goes, AfterReap
  <1>19. ASSUME Probe PROVE OwnDeath'
    BY <1>19 DEF Probe, Teardown, Goes, Gone
  <1>20. ASSUME Join PROVE OwnDeath'
    <2>1. CASE outcome' = outcome
      BY <1>20, <2>1, JoinEffect
    <2>2. CASE outcome' = OutcomeOf /\ ~Failed
      <3>1. CASE status = "none" /\ ~Overflowed(retention) /\ stop = "none"
        <4>1. death.own = TRUE
          BY <1>20, <2>2, <3>1, JoinEffect DEF Threads
        <4> QED
          BY <1>20, <4>1, JoinEffect
      <3>2. CASE ~(status = "none" /\ ~Overflowed(retention) /\ stop = "none")
        <4>1. OutcomeOf \in {"spawn_absent", "spawn_failed", "payload_output", "cancelled",
                             "wall_time"}
          BY <3>2, Outcomes
        <4> QED
          BY <2>2, <4>1
      <3> QED
        BY <3>1, <3>2
    <2> QED
      BY <1>20, <2>1, <2>2, JoinEffect
  <1>21. ASSUME Finalizing PROVE OwnDeath'
    BY <1>21 DEF Finalizing, engineVars
  <1>22. ASSUME Finalized PROVE OwnDeath'
    BY <1>22 DEF Finalized, MainOnly, Goes
  <1>23. ASSUME Release PROVE OwnDeath'
    BY <1>23 DEF Release, Goes
  <1>24. ASSUME Close PROVE OwnDeath'
    BY <1>24 DEF Close, Goes, StoreOnly
  <1>25. ASSUME StatusTimesOut PROVE OwnDeath'
    BY <1>25 DEF StatusTimesOut, Escapes, Goes, MainOnly
  <1>26. ASSUME GraceExpires PROVE OwnDeath'
    BY <1>26 DEF GraceExpires, Teardown, Goes, Alive
  <1>27. ASSUME JoinTimesOut PROVE OwnDeath'
    BY <1>27 DEF JoinTimesOut, MainOnly, Goes
  <1>28. ASSUME SetsUp PROVE OwnDeath'
    BY <1>28 DEF SetsUp, Outside, Ends
  <1>29. ASSUME ChildDies PROVE OwnDeath'
    BY <1>29 DEF ChildDies, Outside, Ends, Alive
  <1>30. ASSUME Says PROVE OwnDeath'
    BY <1>30 DEF Says, Outside, Speaks
  <1>31. ASSUME Forks PROVE OwnDeath'
    BY <1>31 DEF Forks, Outside
  <1>32. ASSUME KinMoves PROVE OwnDeath'
    BY <1>32 DEF KinMoves, Outside
  <1>33. ASSUME NEW s \in Stream, Writes(s) PROVE OwnDeath'
    BY <1>33 DEF Writes, Outside, Speaks
  <1>34. ASSUME Cancels PROVE OwnDeath'
    BY <1>34 DEF Cancels, Looking
  <1>35. ASSUME Expires PROVE OwnDeath'
    BY <1>35 DEF Expires, Looking
  <1>36. ASSUME FeederEnds PROVE OwnDeath'
    BY <1>36 DEF FeederEnds, ThreadOnly, ThreadEnds, Running
  <1>37. ASSUME NEW s \in Stream, PumpReads(s) PROVE OwnDeath'
    BY <1>37 DEF PumpReads, ThreadOnly, Running
  <1>38. ASSUME PumpForwards PROVE OwnDeath'
    BY <1>38 DEF PumpForwards, ThreadOnly, Running
  <1>39. ASSUME PumpEnds PROVE OwnDeath'
    BY <1>39 DEF PumpEnds, ThreadOnly, ThreadEnds, Running, Held, Alive
  <1>40. ASSUME ReaderEnds PROVE OwnDeath'
    BY <1>40 DEF ReaderEnds, ThreadOnly, ThreadEnds, Running
  <1>41. ASSUME TransportFails PROVE OwnDeath'
    BY <1>41 DEF TransportFails, ThreadOnly, ThreadEnds, Running
  <1> QED
    BY EngineNext, <1>1, <1>2, <1>3, <1>4, <1>5, <1>6, <1>7, <1>8, <1>9, <1>10, <1>11, <1>12, <1>13,
       <1>14, <1>15, <1>16, <1>17, <1>18, <1>19, <1>20, <1>21, <1>22, <1>23, <1>24, <1>25, <1>26,
       <1>27, <1>28, <1>29, <1>30, <1>31, <1>32, <1>33, <1>34, <1>35, <1>36, <1>37, <1>38, <1>39,
       <1>40, <1>41
       DEF EngineNext, MainSteps, Timeouts, ChildSteps, PumpSteps

\* Everything read is everything kept, and judged.
LEMMA ReadMeansComplete ==
  ASSUME Shapes, Output, Protocol, AllRead
  PROVE  /\ \A s \in Stream : retention[s] = Retained(wrote[s], Budget(s))
         /\ Overflowed(retention) <=> job.output /\ wrote["stdout"] + wrote["stderr"] > MaxBytes
         /\ thread["reader"] = "ended" => (verdict = "ok" <=> said = "complete")
  <1>1. \A s \in Stream : retention[s] = Retained(wrote[s], Budget(s))
    BY DEF Output, AllRead
  <1>2. Overflowed(retention) <=> job.output /\ wrote["stdout"] + wrote["stderr"] > MaxBytes
    BY DEF AllRead, Overflowed, Stream
  <1>3. thread["reader"] = "ended" => (verdict = "ok" <=> said = "complete")
    BY DEF AllRead, Protocol
  <1> QED
    BY <1>1, <1>2, <1>3

\* Nothing written is no overflow.
LEMMA NothingIsNoOverflow ==
  ASSUME Shapes, wrote = [s \in Stream |-> 0]
  PROVE  ~(wrote["stdout"] + wrote["stderr"] > MaxBytes)
  BY DEF Shapes, JobType, MaxBytes, Stream


\* Every step keeps a settled result complete.
LEMMA CompleteStep ==
  ASSUME Shapes, Lineage, Stages, Threads, Output, Protocol, Overflows, Settled, Settled',
     OutputComplete, EngineNext
  PROVE  OutputComplete'
  <1> USE DEF vars, disk, mainVars, childVars, pumpVars, flagVars, OutputComplete, Shapes, Settled,
              Running, Worker, Budget, MaxBytes, Silent, Unspawned, Starting, Watching, Ending,
              Final, InGroup, PC, Awaiting, TearingDown, Over
  <1>1. ASSUME Preparing PROVE OutputComplete'
    BY <1>1 DEF Preparing, engineVars
  <1>2. ASSUME PrepareFails PROVE OutputComplete'
    BY <1>2 DEF PrepareFails, MainOnly, Goes
  <1>3. ASSUME LookBeforeSpawn PROVE OutputComplete'
    <2>1. CASE outcome' = outcome
      BY <1>3, <2>1 DEF LookBeforeSpawn, StoreOnly, Goes
    <2>2. CASE outcome' = "cancelled_unstarted"
      <3>1. AllRead /\ wrote = [s \in Stream |-> 0]
        BY <1>3, NothingToRead DEF LookBeforeSpawn, Goes, Lineage, Stages
      <3>2. UNCHANGED <<job, wrote, said, retention, verdict, thread>>
        BY <1>3 DEF LookBeforeSpawn, StoreOnly
      <3> QED
        BY <2>2, <3>1, <3>2, ReadMeansComplete, NothingIsNoOverflow
    <2> QED
      BY <1>3, <2>1, <2>2 DEF LookBeforeSpawn
  <1>4. ASSUME Launch PROVE OutputComplete'
    BY <1>4 DEF Launch, Goes
  <1>5. ASSUME LaunchFails PROVE OutputComplete'
    BY <1>5 DEF LaunchFails, MainOnly, Goes
  <1>6. ASSUME ReadStatus PROVE OutputComplete'
    BY <1>6 DEF ReadStatus, MainOnly, Goes
  <1>7. ASSUME StartThread PROVE OutputComplete'
    BY <1>7 DEF StartThread, Goes, NextThread, Worker
  <1>8. ASSUME StartThreadFails PROVE OutputComplete'
    BY <1>8 DEF StartThreadFails, Escapes, Goes, MainOnly, Worker
  <1>9. ASSUME Mark PROVE OutputComplete'
    BY <1>9 DEF Mark, Goes, StoreOnly
  <1>10. ASSUME Poll PROVE OutputComplete'
    BY <1>10 DEF Poll, Goes
  <1>11. ASSUME LookAtFlags PROVE OutputComplete'
    BY <1>11 DEF LookAtFlags, MainOnly
  <1>12. ASSUME LookAtDeadline PROVE OutputComplete'
    BY <1>12 DEF LookAtDeadline, MainOnly, Goes
  <1>13. ASSUME TermGroup PROVE OutputComplete'
    BY <1>13 DEF TermGroup, Teardown, Goes, KinAfterTerm
  <1>14. ASSUME TermLeader PROVE OutputComplete'
    BY <1>14 DEF TermLeader, Teardown, Goes, TermReaches, Ends, Alive
  <1>15. ASSUME GraceReaps PROVE OutputComplete'
    BY <1>15 DEF GraceReaps, Teardown, Goes, AfterReap
  <1>16. ASSUME KillGroup PROVE OutputComplete'
    BY <1>16 DEF KillGroup, Teardown, Goes, Gone, Ends
  <1>17. ASSUME KillLeader PROVE OutputComplete'
    BY <1>17 DEF KillLeader, Teardown, Goes, Ends, Alive
  <1>18. ASSUME Reap PROVE OutputComplete'
    BY <1>18 DEF Reap, Teardown, Goes, AfterReap
  <1>19. ASSUME Probe PROVE OutputComplete'
    BY <1>19 DEF Probe, Teardown, Goes, Gone
  <1>20. ASSUME Join PROVE OutputComplete'
    <2>1. CASE outcome' = outcome
      BY <1>20, <2>1, JoinEffect
    <2>2. CASE outcome' = OutcomeOf /\ ~Failed
      <3>1. UNCHANGED <<job, wrote, said, retention, pumped, verdict, thread>>
        BY <1>20, JoinEffect
      <3>2. CASE outcome' = "none"
        BY <3>2
      <3>3. CASE outcome' # "none"
        <4>1. AllRead
          BY <3>1, <3>3 DEF AllRead
        <4>2. OutcomeOf = "payload_output" <=> status = "none" /\ Overflowed(retention)
          BY Outcomes
        <4>3. status # "none" => wrote = [s \in Stream |-> 0]
          BY DEF Lineage
        <4>4. OutcomeOf = "payload_output"
                <=> job.output /\ wrote["stdout"] + wrote["stderr"] > MaxBytes
          BY <4>1, <4>2, <4>3, ReadMeansComplete, NothingIsNoOverflow
        <4> QED
          BY <2>2, <3>1, <4>1, <4>4, ReadMeansComplete
      <3> QED
        BY <3>2, <3>3
    <2> QED
      BY <1>20, <2>1, <2>2, JoinEffect
  <1>21. ASSUME Finalizing PROVE OutputComplete'
    BY <1>21 DEF Finalizing, engineVars
  <1>22. ASSUME Finalized PROVE OutputComplete'
    BY <1>22 DEF Finalized, MainOnly, Goes
  <1>23. ASSUME Release PROVE OutputComplete'
    BY <1>23 DEF Release, Goes
  <1>24. ASSUME Close PROVE OutputComplete'
    BY <1>24 DEF Close, Goes, StoreOnly
  <1>25. ASSUME StatusTimesOut PROVE OutputComplete'
    BY <1>25 DEF StatusTimesOut, Escapes, Goes, MainOnly
  <1>26. ASSUME GraceExpires PROVE OutputComplete'
    BY <1>26 DEF GraceExpires, Teardown, Goes, Alive
  <1>27. ASSUME JoinTimesOut PROVE OutputComplete'
    BY <1>27 DEF JoinTimesOut, MainOnly, Goes
  <1>28. ASSUME SetsUp PROVE OutputComplete'
    BY <1>28 DEF SetsUp, Outside, Ends
  <1>29. ASSUME ChildDies PROVE OutputComplete'
    BY <1>29 DEF ChildDies, Outside, Ends, Alive
  <1>30. ASSUME Says PROVE OutputComplete'
    BY <1>30 DEF Says, Outside, Speaks
  <1>31. ASSUME Forks PROVE OutputComplete'
    BY <1>31 DEF Forks, Outside
  <1>32. ASSUME KinMoves PROVE OutputComplete'
    BY <1>32 DEF KinMoves, Outside
  <1>33. ASSUME NEW s \in Stream, Writes(s) PROVE OutputComplete'
    BY <1>33 DEF Writes, Outside, Speaks
  <1>34. ASSUME Cancels PROVE OutputComplete'
    BY <1>34 DEF Cancels, Looking
  <1>35. ASSUME Expires PROVE OutputComplete'
    BY <1>35 DEF Expires, Looking
  <1>36. ASSUME FeederEnds PROVE OutputComplete'
    BY <1>36 DEF FeederEnds, ThreadOnly, ThreadEnds, Running
  <1>37. ASSUME NEW s \in Stream, PumpReads(s) PROVE OutputComplete'
    BY <1>37 DEF PumpReads, ThreadOnly, Running
  <1>38. ASSUME PumpForwards PROVE OutputComplete'
    BY <1>38 DEF PumpForwards, ThreadOnly, Running
  <1>39. ASSUME PumpEnds PROVE OutputComplete'
    BY <1>39 DEF PumpEnds, ThreadOnly, ThreadEnds, Running, Held, Alive
  <1>40. ASSUME ReaderEnds PROVE OutputComplete'
    BY <1>40 DEF ReaderEnds, ThreadOnly, ThreadEnds, Running
  <1>41. ASSUME TransportFails PROVE OutputComplete'
    BY <1>41 DEF TransportFails, ThreadOnly, ThreadEnds, Running
  <1> QED
    BY EngineNext, <1>1, <1>2, <1>3, <1>4, <1>5, <1>6, <1>7, <1>8, <1>9, <1>10, <1>11, <1>12, <1>13,
       <1>14, <1>15, <1>16, <1>17, <1>18, <1>19, <1>20, <1>21, <1>22, <1>23, <1>24, <1>25, <1>26,
       <1>27, <1>28, <1>29, <1>30, <1>31, <1>32, <1>33, <1>34, <1>35, <1>36, <1>37, <1>38, <1>39,
       <1>40, <1>41
       DEF EngineNext, MainSteps, Timeouts, ChildSteps, PumpSteps

-----------------------------------------------------------------------------
(* The theorems.                                                            *)

\* A call begins in the invariant.
LEMMA EngineInvInit == EngineInit => EngineInv
  <1> SUFFICES ASSUME EngineInit PROVE EngineInv
    OBVIOUS
  <1> USE DEF EngineInit
  <1>1. job \in JobType
    BY EngineAssumption
  <1>2. Shapes
    BY <1>1 DEF Shapes, PC, Setup
  <1>3. Lineage /\ Stages
    BY DEF Lineage, Stages, Unspawned, Starting, Watching, Ending, Final, Awaiting, TearingDown,
           InGroup
  <1>4. Threads
    BY DEF Threads, Unspawned, Ending, Awaiting, TearingDown, Running
  <1>5. Fresh.produced = 0 /\ \A s \in Stream : Fresh = Retained(0, Budget(s))
    <2> SUFFICES ASSUME NEW s \in Stream PROVE Fresh = Retained(0, Budget(s)) /\ Fresh.produced = 0
      BY DEF Stream
    <2>1. Budget(s) = Unbudgeted \/ (Budget(s).head \in Nat /\ Budget(s).tail \in Nat)
      BY <1>1 DEF Budget, JobType
    <2>2. Bytes(0, 0) = <<>>
      BY DEF Bytes
    <2>3. Retained(0, Budget(s)) = [head |-> Bytes(0, 0), tail |-> Bytes(0, 0),
                                    produced |-> 0, dropped |-> 0]
      BY <2>1 DEF Retained, Smaller
    <2> QED
      BY <2>2, <2>3 DEF Fresh
  <1>6. Output
    BY <1>5 DEF Output, Worker
  <1>7. Overflows
    BY DEF Overflows
  <1>8. Protocol
    BY DEF Protocol, Said, Worker
  <1>9. Causes
    BY DEF Causes, Ending, TearingDown, Over
  <1>10. Settled /\ OwnDeath /\ OutputComplete
    BY DEF Settled, OwnDeath, OutputComplete
  <1>11. FinalizedLast
    BY DEF FinalizedLast, Init, Manifest, NoManifest
  <1> QED
    BY <1>2, <1>3, <1>4, <1>6, <1>7, <1>8, <1>9, <1>10, <1>11 DEF EngineInv

\* Every step of a call, and every stutter, keeps the invariant.
LEMMA EngineInvStep == EngineInv /\ [EngineNext]_engineAll => EngineInv'
  <1> SUFFICES ASSUME EngineInv, [EngineNext]_engineAll PROVE EngineInv'
    OBVIOUS
  <1> USE DEF EngineInv
  <1>1. CASE EngineNext
    <2>1. Shapes' /\ Lineage' /\ Stages' /\ Threads'
      BY <1>1, ShapesStep, LineageStep, StagesStep, ThreadsStep
    <2>2. Output' /\ Overflows' /\ Protocol' /\ Causes'
      BY <1>1, OutputStep, OverflowsStep, ProtocolStep, CausesStep
    <2>3. Settled' /\ FinalizedLast' /\ OwnDeath'
      BY <1>1, SettledStep, RecordedStep, OwnDeathStep
    <2>4. OutputComplete'
      BY <1>1, <2>3, CompleteStep
    <2> QED
      BY <2>1, <2>2, <2>3, <2>4
  <1>2. CASE UNCHANGED engineAll
    <2> USE <1>2 DEF engineAll, engineVars, vars, disk, mainVars, childVars, pumpVars, flagVars
    <2>1. Shapes'
      BY DEF Shapes
    <2>2. Lineage' /\ Stages'
      BY DEF Lineage, Stages, InGroup
    <2>3. Threads'
      BY DEF Threads, Running
    <2>4. Output'
      BY DEF Output, Budget, AllRead
    <2>5. Overflows'
      BY DEF Overflows, Overflowed, MaxBytes
    <2>6. Protocol'
      BY DEF Protocol, Running
    <2>7. Causes'
      BY DEF Causes, Excused, Failed
    <2>8. Settled' /\ FinalizedLast' /\ OwnDeath'
      BY DEF Settled, FinalizedLast, OwnDeath, Running, AllRead
    <2>9. OutputComplete'
      BY DEF OutputComplete, Budget, MaxBytes
    <2> QED
      BY <2>1, <2>2, <2>3, <2>4, <2>5, <2>6, <2>7, <2>8, <2>9
  <1> QED
    BY <1>1, <1>2

\* Every reachable state of a call satisfies the invariant.
THEOREM EngineInvariant == EngineSpec => []EngineInv
  BY EngineInvInit, EngineInvStep, PTL DEF EngineSpec

\* GroupGone: once the record is final or the call over, the child is reaped and
\* nothing it started is left in its group, whatever it ignored or forked and
\* whichever step of run_execution raised; and _Transports.close left no thread.
THEOREM TeardownIsComplete == EngineSpec => []GroupGone
  <1>1. EngineInv => GroupGone
    BY DEF EngineInv, FinalizedLast, Stages, Threads, Final, GroupGone
  <1> QED
    BY <1>1, EngineInvariant, PTL

\* OwnDeath: _outcome_of never blames the payload for an end that a stop or the
\* teardown brought about.
THEOREM BlameIsDeserved == EngineSpec => []OwnDeath
  <1>1. EngineInv => OwnDeath
    BY DEF EngineInv
  <1> QED
    BY <1>1, EngineInvariant, PTL

\* OutputComplete: a result holds what is to be kept of all that was written,
\* however it was cut into reads, for every size of head and tail; overflow and
\* protocol are judged on the whole of it.
THEOREM ResultsHoldAllOutput == EngineSpec => []OutputComplete
  <1>1. EngineInv => OutputComplete
    BY DEF EngineInv
  <1> QED
    BY <1>1, EngineInvariant, PTL

\* The calling thread drives the store as RunStore says an attempt does: what is
\* proved of the record there holds of the record of every call.
THEOREM EngineDrivesStore == EngineSpec => Spec
  <1>1. EngineInit => Init
    BY DEF EngineInit
  <1>2. [EngineNext]_engineAll => [Next]_vars
    <2> SUFFICES ASSUME [EngineNext]_engineAll PROVE [Next]_vars
      OBVIOUS
    <2> USE EngineAssumption
    <2>1. CASE MainSteps
      <3>1. CASE Preparing
        BY <3>1 DEF Preparing, Next
      <3>2. CASE LookBeforeSpawn
        BY <3>2 DEF LookBeforeSpawn, Next, Run
      <3>3. CASE Mark
        BY <3>3 DEF Mark, Next, Run
      <3>4. CASE Join
        BY <3>4 DEF Join, Next, Run
      <3>5. CASE Finalizing
        BY <3>5 DEF Finalizing, Next
      <3>6. CASE Close
        BY <3>6 DEF Close, Next, Run
      <3>7. CASE PrepareFails \/ LaunchFails \/ ReadStatus \/ StartThreadFails
                 \/ LookAtFlags \/ LookAtDeadline \/ Finalized
        BY <3>7 DEF PrepareFails, LaunchFails, ReadStatus, StartThreadFails, Escapes, LookAtFlags,
                    LookAtDeadline, Finalized, MainOnly
      <3>8. CASE TermGroup \/ TermLeader \/ GraceReaps \/ KillGroup \/ KillLeader \/ Reap \/ Probe
        BY <3>8 DEF TermGroup, TermLeader, GraceReaps, KillGroup, KillLeader, Reap, Probe, Teardown
      <3>9. CASE Launch \/ StartThread \/ Poll \/ Release
        BY <3>9 DEF Launch, StartThread, Poll, Release
      <3> QED
        BY <2>1, <3>1, <3>2, <3>3, <3>4, <3>5, <3>6, <3>7, <3>8, <3>9 DEF MainSteps
    <2>2. CASE Timeouts
      BY <2>2 DEF Timeouts, StatusTimesOut, Escapes, MainOnly, GraceExpires, Teardown, JoinTimesOut
    <2>3. CASE ChildSteps
      BY <2>3 DEF ChildSteps, SetsUp, ChildDies, Says, Forks, KinMoves, Writes, Outside
    <2>4. CASE Cancels \/ Expires
      BY <2>4 DEF Cancels, Expires
    <2>5. CASE FeederEnds \/ PumpSteps \/ ReaderEnds \/ TransportFails
      BY <2>5 DEF FeederEnds, PumpSteps, PumpReads, PumpForwards, PumpEnds, ReaderEnds,
                  TransportFails, ThreadOnly
    <2>6. CASE UNCHANGED engineAll
      BY <2>6 DEF engineAll
    <2> QED
      BY <2>1, <2>2, <2>3, <2>4, <2>5, <2>6 DEF EngineNext
  <1> QED
    BY <1>1, <1>2, PTL DEF EngineSpec, Spec

\* So one call of run_execution on its own leaves a record that verifies, and returns a
\* receipt that tells what is on disk, with the exceptions for reads that failed that
\* the two invariants name.
THEOREM CallsLeaveSoundRecords ==
  ASSUME ~Overlapping
  PROVE  EngineSpec => [](FinalizedVerifies /\ ReceiptsTellDurableState)
  BY EngineDrivesStore, FinalizedRecordsVerify, ReceiptsAgree, PTL
=============================================================================
