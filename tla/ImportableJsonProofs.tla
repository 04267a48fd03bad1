------------------------ MODULE ImportableJsonProofs ------------------------
(***************************************************************************)
(* Safety of ImportableJson for every budget, chunk size and length of a    *)
(* stream: the protocol reader accepts what the reference accepts and holds *)
(* no more than its budgets, a stopped in-process call is never entered     *)
(* late nor takes the result of its body, and what is parsed is what was    *)
(* returned.                                                                *)
(***************************************************************************)
EXTENDS ImportableJson, FiniteSetTheorems, TLAPS

-----------------------------------------------------------------------------
(* Lengths of streams.  Length is a recursive function of the state; the    *)
(* same sum over any sequence of frames is Total, and what it computes is   *)
(* proved by looking at the least number for which it would be wrong.       *)

Total(st, k) ==
  LET sum[i \in 0 .. k] == IF i = 0 THEN 0 ELSE sum[i - 1] + st[i].size + 1
  IN  sum[k]

\* f is the function of partial sums up to k.
Sums(f, st, k) == f = [i \in 0 .. k |-> IF i = 0 THEN 0 ELSE f[i - 1] + st[i].size + 1]

\* The first k frames of the two sequences are equally long.
SameSizes(st, su, k) == \A i \in 1 .. k : st[i].size = su[i].size

\* A set of naturals that is not empty has a least element.
LEMMA LeastNatural ==
  ASSUME NEW T, T \subseteq Nat, T # {}
  PROVE  \E n \in T : \A m \in T : n <= m
<1>1. PICK n \in T : \A m \in T : ~ (<<m, n>> \in OpToRel(<, Nat))
  BY WFMin, NatLessThanWellFounded
<1>2. ASSUME NEW m \in T
      PROVE  n <= m
  <2>1. <<m, n>> \notin OpToRel(<, Nat)
    BY <1>1
  <2>2. m \in Nat /\ n \in Nat
    OBVIOUS
  <2>3. ~(m < n)
    BY <2>1, <2>2 DEF OpToRel
  <2> QED
    BY <2>2, <2>3
<1> QED
  BY <1>2

\* The recursion of Total has a solution up to every length.
LEMMA SumsExist ==
  ASSUME NEW st, NEW n \in Nat, \A i \in 1 .. n : st[i].size \in Nat,
         NEW k \in 0 .. n
  PROVE  \E f \in [0 .. k -> Nat] : Sums(f, st, k)
<1> DEFINE Bad == {j \in 0 .. n : ~ \E f \in [0 .. j -> Nat] : Sums(f, st, j)}
<1>1. SUFFICES ASSUME Bad # {}
               PROVE  FALSE
  OBVIOUS
<1>2. Bad \subseteq Nat
  OBVIOUS
<1>3. PICK j \in Bad : \A m \in Bad : j <= m
  <2> HIDE DEF Bad
  <2> QED
    BY <1>1, <1>2, LeastNatural
<1>4. j \in 0 .. n /\ ~ \E f \in [0 .. j -> Nat] : Sums(f, st, j)
  OBVIOUS
<1>5. CASE j = 0
  <2> DEFINE f == [i \in 0 .. 0 |-> 0]
  <2>1. f \in [0 .. j -> Nat]
    BY <1>5
  <2>2. Sums(f, st, j)
    BY <1>5 DEF Sums
  <2> QED
    BY <1>4, <2>1, <2>2
<1>6. CASE j > 0
  <2>1. j - 1 \in 0 .. n /\ j - 1 \notin Bad
    BY <1>3, <1>4, <1>6
  <2>2. PICK g \in [0 .. j - 1 -> Nat] : Sums(g, st, j - 1)
    BY <2>1
  <2> DEFINE f == [i \in 0 .. j |-> IF i = j THEN g[j - 1] + st[j].size + 1 ELSE g[i]]
  <2>3. j \in Nat /\ st[j].size \in Nat /\ g[j - 1] \in Nat
    BY <1>4, <1>6
  <2>4. f \in [0 .. j -> Nat]
    BY <2>3
  <2>5. \A i \in 0 .. j - 1 :
          g[i] = IF i = 0 THEN 0 ELSE g[i - 1] + st[i].size + 1
    BY <2>2, <2>3 DEF Sums
  <2>6. ASSUME NEW i \in 0 .. j
        PROVE  f[i] = IF i = 0 THEN 0 ELSE f[i - 1] + st[i].size + 1
    <3>1. CASE i = 0
      BY <1>6, <2>3, <2>5, <3>1
    <3>2. CASE i = j
      BY <1>6, <2>3, <3>2
    <3>3. CASE i # 0 /\ i # j
      <4>1. i \in 0 .. j - 1 /\ i - 1 \in 0 .. j /\ i - 1 # j
        BY <2>3, <3>3
      <4> QED
        BY <2>5, <3>3, <4>1
    <3> QED
      BY <3>1, <3>2, <3>3
  <2>7. Sums(f, st, j)
    <3> HIDE DEF f
    <3> QED
      BY <2>4, <2>6 DEF Sums
  <2> QED
    BY <1>4, <2>4, <2>7
<1> QED
  BY <1>4, <1>5, <1>6

\* Sequences with the same first sizes have the same first sums.
LEMMA SumsAgree ==
  ASSUME NEW st, NEW su, NEW j \in Nat, NEW k \in Nat, j <= k,
         SameSizes(st, su, j),
         NEW f, NEW g, Sums(f, st, j), Sums(g, su, k)
  PROVE  f[j] = g[j]
<1> DEFINE Bad == {i \in 0 .. j : f[i] # g[i]}
<1>1. SUFFICES ASSUME Bad # {}
               PROVE  FALSE
  OBVIOUS
<1>2. Bad \subseteq Nat
  OBVIOUS
<1>3. PICK i \in Bad : \A m \in Bad : i <= m
  <2> HIDE DEF Bad
  <2> QED
    BY <1>1, <1>2, LeastNatural
<1>4. i \in 0 .. j /\ i \in 0 .. k /\ f[i] # g[i]
  OBVIOUS
<1>5. /\ f[i] = IF i = 0 THEN 0 ELSE f[i - 1] + st[i].size + 1
      /\ g[i] = IF i = 0 THEN 0 ELSE g[i - 1] + su[i].size + 1
  BY <1>4 DEF Sums
<1>6. i # 0
  BY <1>4, <1>5
<1>7. i - 1 \in 0 .. j /\ i - 1 \notin Bad
  BY <1>3, <1>4, <1>6
<1>8. f[i - 1] = g[i - 1] /\ st[i].size = su[i].size
  BY <1>4, <1>6, <1>7 DEF SameSizes
<1> QED
  BY <1>4, <1>5, <1>6, <1>8

LEMMA TotalIs ==
  ASSUME NEW st, NEW n \in Nat, \A i \in 1 .. n : st[i].size \in Nat,
         NEW k \in 0 .. n,
         NEW f, Sums(f, st, k)
  PROVE  Total(st, k) = f[k]
<1>1. Total(st, k) = (CHOOSE g : Sums(g, st, k))[k]
  BY DEF Total, Sums
<1>2. PICK g : g = CHOOSE h : Sums(h, st, k)
  OBVIOUS
<1>3. Sums(g, st, k)
  BY <1>2
<1>4. g[k] = f[k]
  <2>1. k \in Nat /\ k <= k /\ SameSizes(st, st, k)
    BY DEF SameSizes
  <2> QED
    BY <1>3, <2>1, SumsAgree
<1> QED
  BY <1>1, <1>2, <1>4

\* The equations of Total.
LEMMA TotalRecursion ==
  ASSUME NEW st, NEW n \in Nat, \A i \in 1 .. n : st[i].size \in Nat
  PROVE  /\ Total(st, 0) = 0
         /\ \A k \in 0 .. n : Total(st, k) \in Nat
         /\ \A k \in 1 .. n : Total(st, k) = Total(st, k - 1) + st[k].size + 1
<1>1. Total(st, 0) = 0
  <2>1. PICK f \in [0 .. 0 -> Nat] : Sums(f, st, 0)
    <3>1. 0 \in 0 .. n
      OBVIOUS
    <3> QED
      BY <3>1, SumsExist
  <2>2. f[0] = 0
    BY <2>1 DEF Sums
  <2> QED
    BY <2>1, <2>2, TotalIs
<1>2. ASSUME NEW k \in 0 .. n
      PROVE  Total(st, k) \in Nat
  <2>1. PICK f \in [0 .. k -> Nat] : Sums(f, st, k)
    BY SumsExist
  <2>2. f[k] \in Nat
    BY <2>1
  <2> QED
    BY <2>1, <2>2, TotalIs
<1>3. ASSUME NEW k \in 1 .. n
      PROVE  Total(st, k) = Total(st, k - 1) + st[k].size + 1
  <2>1. k \in 0 .. n /\ k - 1 \in 0 .. n /\ k \in Nat /\ k - 1 \in Nat
    OBVIOUS
  <2>2. PICK f \in [0 .. k -> Nat] : Sums(f, st, k)
    BY <2>1, SumsExist
  <2>3. PICK g \in [0 .. k - 1 -> Nat] : Sums(g, st, k - 1)
    BY <2>1, SumsExist
  <2>4. g[k - 1] = f[k - 1]
    <3>1. k - 1 <= k /\ SameSizes(st, st, k - 1)
      BY <2>1 DEF SameSizes
    <3> QED
      BY <2>1, <2>2, <2>3, <3>1, SumsAgree
  <2>5. f[k] = f[k - 1] + st[k].size + 1
    BY <2>1, <2>2 DEF Sums
  <2>6. Total(st, k) = f[k] /\ Total(st, k - 1) = g[k - 1]
    BY <2>1, <2>2, <2>3, TotalIs
  <2> QED
    BY <2>4, <2>5, <2>6
<1> QED
  BY <1>1, <1>2, <1>3

\* The sum depends on the frames it counts only.
LEMMA TotalAgrees ==
  ASSUME NEW st, NEW su, NEW n \in Nat, \A i \in 1 .. n : st[i].size \in Nat,
         SameSizes(su, st, n),
         NEW k \in 0 .. n
  PROVE  Total(su, k) = Total(st, k)
<1>1. k \in Nat /\ k <= k /\ SameSizes(su, st, k)
  BY DEF SameSizes
<1>2. PICK f \in [0 .. k -> Nat] : Sums(f, st, k)
  BY SumsExist
<1>3. \A i \in 1 .. n : su[i].size \in Nat
  BY DEF SameSizes
<1>4. PICK g \in [0 .. k -> Nat] : Sums(g, su, k)
  BY <1>3, SumsExist
<1>5. g[k] = f[k]
  BY <1>1, <1>2, <1>4, SumsAgree
<1>6. Total(st, k) = f[k]
  BY <1>2, TotalIs
<1>7. Total(su, k) = g[k]
  BY <1>3, <1>4, TotalIs
<1> QED
  BY <1>5, <1>6, <1>7

\* A longer part of a stream is longer by at least its terminators.
LEMMA TotalGrows ==
  ASSUME NEW st, NEW n \in Nat, \A i \in 1 .. n : st[i].size \in Nat,
         NEW j \in 0 .. n, NEW k \in 0 .. n, j <= k
  PROVE  Total(st, j) + (k - j) <= Total(st, k)
<1> DEFINE Bad == {i \in j .. n : ~(Total(st, j) + (i - j) <= Total(st, i))}
<1>1. SUFFICES ASSUME Bad # {}
               PROVE  FALSE
  OBVIOUS
<1>2. Bad \subseteq Nat
  OBVIOUS
<1>3. PICK i \in Bad : \A m \in Bad : i <= m
  <2> HIDE DEF Bad
  <2> QED
    BY <1>1, <1>2, LeastNatural
<1>4. i \in j .. n /\ i \in 0 .. n /\ ~(Total(st, j) + (i - j) <= Total(st, i))
  OBVIOUS
<1>5. Total(st, j) \in Nat /\ Total(st, i) \in Nat
  BY <1>4, TotalRecursion
<1>6. i # j
  BY <1>4, <1>5
<1>7. i \in 1 .. n /\ i - 1 \in j .. n /\ i - 1 \in 0 .. n /\ i - 1 \notin Bad
  BY <1>3, <1>4, <1>6
<1>8. /\ Total(st, i) = Total(st, i - 1) + st[i].size + 1
      /\ Total(st, i - 1) \in Nat /\ st[i].size \in Nat
  BY <1>7, TotalRecursion
<1>9. Total(st, j) + (i - 1 - j) <= Total(st, i - 1)
  BY <1>7
<1> QED
  BY <1>4, <1>5, <1>7, <1>8, <1>9

-----------------------------------------------------------------------------
(* The inductive invariant.                                                 *)

\* Frames of the stream that the reader has accepted: they are its first ones.
Accepted ==
  IF prelude THEN (IF completed THEN outputs + 2 ELSE outputs + 1) ELSE 0

AllBytes == Total(stream, Len(stream)) + torn

\* What a verdict of oversized may be about, apart from the total.
OverBudget ==
  \/ Emitted > MaxOutputs
  \/ \E i \in 1 .. Len(stream) : stream[i].size > MaxFrame \/ stream[i].what = "deep"

\* Reading keeps within the bytes there are and within one byte of the budgets.
Bytes ==
  /\ at # "ended" => torn = 0
  /\ Total(stream, taken) <= received /\ received <= AllBytes
  /\ received - Total(stream, taken) <= MaxFrame + 1
  /\ received <= MaxTotal + 1
  /\ Reading => received <= MaxTotal
  /\ eof => at = "ended" /\ received = AllBytes

\* The accepted frames are right, and the flags of the reader tell which they are.
Accepts ==
  /\ ~prelude => outputs = 0 /\ ~completed
  /\ Accepted <= taken
  /\ Reading => taken = Accepted
  /\ \A i \in 1 .. Accepted : Right(i)
  /\ \A i \in 2 .. outputs + 1 : stream[i].what = "output"
  /\ \A i \in 1 .. Accepted :
       stream[i].what = "complete" <=> completed /\ i = outputs + 2

\* A stream crossed its total, or its first frame that is not accepted is wrong,
\* or the payload has ended and every frame was accepted, the last one torn beyond
\* the size of a frame or not.
Judged ==
  \/ verdict = "oversized" /\ received > MaxTotal
  \/ /\ Accepted < Len(stream) /\ ~Right(Accepted + 1)
     /\ verdict # "ok"
     /\ verdict = "oversized" => OverBudget
  \/ /\ at = "ended" /\ Accepted = Len(stream)
     /\ received = AllBytes /\ received <= MaxTotal
     /\ verdict # "oversized"
     /\ verdict = "ok" <=> completed /\ torn = 0
  \/ /\ at = "ended" /\ Accepted = Len(stream)
     /\ torn > MaxFrame /\ verdict = "oversized"

\* An importable driver writes a prelude, the result it was returned and a
\* completion, as far as it gets.
Importable ==
  driver = "importable" =>
    /\ at = "starting" => Len(stream) = 0
    /\ at = "running" => Len(stream) = 1
    /\ at = "emitted" => Len(stream) = 2
    /\ Len(stream) <= 3
    /\ Len(stream) >= 1 => stream[1].what = "prelude"
    /\ Len(stream) >= 2 => stream[2].what = "output" /\ returned = "json"
    /\ Len(stream) >= 3 => stream[3].what = "complete"

StreamInv ==
  /\ StreamTypeOK
  /\ Bytes
  /\ Accepts
  /\ ~Reading => Judged
  /\ Importable

\* The thread goes through its stages, and keeps what it found on the way.
Stages ==
  /\ task = "calling" => worker = "none"
  /\ worker \in {"none", "validating", "arming", "looking", "looking2", "dispatching"} =>
       ~entered /\ how = "none" /\ due = "none"
  /\ worker = "entry" => entered /\ how = "none" /\ due = "none"
  /\ worker \in {"leaving", "leaving2"} => how \notin {"none", "dispatch"}
  /\ worker \in {"delivering", "ended"} <=> result # "none"
  /\ how = "json" => entered
  /\ entered => stamped
  /\ worker \in {"arming", "looking", "looking2", "dispatching", "entry", "leaving", "leaving2"}
       => stamped
  /\ result = "value" => how = "json"
  /\ how = "json" /\ result # "none" => result \in {"value", "cancelled", "wall_time"}

\* A stop once in effect stays in effect until it is looked for.
Stops ==
  /\ due = "cancelled" => token
  /\ due = "wall_time" => timer = "fired"
  /\ worker = "leaving2" => due # "cancelled"
  /\ StopOutranksBody

\* The entry point is not entered, and can no longer be.
Barred ==
  /\ token /\ ~entered
  /\ worker \in {"none", "validating", "arming", "looking", "delivering", "ended"}

\* What the task returned, and that it is not made up before the attempt is known.
Answered ==
  /\ future # "pending" => worker = "ended" /\ future = result
  /\ answer # "none" <=> task = "returned"
  /\ task = "interrupted" => token
  /\ answer # "none" => \/ answer = future
                        \/ answer = "interrupted"
                        \/ answer = "interrupted_fresh" /\ Barred

InInv == InTypeOK /\ Stages /\ Stops /\ Answered

JsonInv ==
  /\ mode \in {"in_process", "process"}
  /\ mode = "in_process" => driver = "importable"
  /\ StreamInv
  /\ InInv

-----------------------------------------------------------------------------
(* The in-process call.                                                     *)

LEMMA InInitHolds == InInit => InInv
  BY DEF InInit, InInv, InTypeOK, Answers, Started, Stages, Stops, StopOutranksBody, Answered

LEMMA InStep ==
  ASSUME InInv, InNext
  PROVE  InInv'
<1> USE DEF InInv, InTypeOK, Answers, Started, Stages, Stops, StopOutranksBody, Answered, Barred
<1>1. CASE Offload
  BY <1>1 DEF Offload
<1>2. CASE Resume
  BY <1>2 DEF Resume
<1>3. CASE AnswerInterrupt
  <2>1. CASE stamped
    BY <1>3, <2>1 DEF AnswerInterrupt
  <2>2. CASE ~stamped
    <3>1. token /\ ~entered
      BY <1>3, <2>2 DEF AnswerInterrupt
    <3>2. worker \in {"none", "validating", "delivering", "ended"}
      BY <2>2
    <3>3. Barred' /\ answer' = "interrupted_fresh"
      BY <1>3, <2>2, <3>1, <3>2 DEF AnswerInterrupt
    <3> QED
      BY <1>3, <3>3 DEF AnswerInterrupt
  <2> QED
    BY <2>1, <2>2
<1>4. CASE Interrupt
  BY <1>4 DEF Interrupt
<1>5. CASE CancelToken
  BY <1>5 DEF CancelToken
<1>6. CASE Fire
  BY <1>6 DEF Fire, WorkerOnly
<1>7. CASE Validate
  BY <1>7 DEF Validate, Moves, WorkerOnly
<1>8. CASE Arm
  BY <1>8 DEF Arm, Moves, WorkerOnly
<1>9. CASE LookAtToken
  BY <1>9 DEF LookAtToken, Concludes, Moves, WorkerOnly
<1>10. CASE LookAtDeadline
  BY <1>10 DEF LookAtDeadline, Concludes, Moves, WorkerOnly
<1>11. CASE DispatchFails
  BY <1>11 DEF DispatchFails, Concludes, Moves, WorkerOnly
<1>12. CASE ImportTerminates
  BY <1>12 DEF ImportTerminates, Moves, WorkerOnly, StopInEffect
<1>13. CASE Enter
  BY <1>13 DEF Enter, Moves, WorkerOnly
<1>14. CASE Leave
  <2> USE DEF Leave, Moves, WorkerOnly
  <2>1. /\ due' = "cancelled" => token
        /\ due' = "wall_time" => timer = "fired"
        /\ due' \in {"none", "cancelled", "wall_time"}
    BY <1>14 DEF StopInEffect
  <2>2. InTypeOK'
    BY <1>14, <2>1
  <2>3. Stages'
    BY <1>14
  <2>4. Stops' /\ Answered'
    BY <1>14, <2>1
  <2> QED
    BY <2>2, <2>3, <2>4
<1>15. CASE LeaveLooksAtToken
  BY <1>15 DEF LeaveLooksAtToken, Concludes, Moves, WorkerOnly, BodyResult
<1>16. CASE LeaveLooksAtDeadline
  BY <1>16 DEF LeaveLooksAtDeadline, Concludes, Moves, WorkerOnly, BodyResult
<1>17. CASE Deliver
  BY <1>17 DEF Deliver, Moves
<1> QED
  BY <1>1, <1>2, <1>3, <1>4, <1>5, <1>6, <1>7, <1>8, <1>9, <1>10, <1>11, <1>12, <1>13, <1>14, <1>15, <1>16, <1>17 DEF InNext, TaskSteps, Worker

LEMMA InStutters ==
  ASSUME InInv, UNCHANGED inVars
  PROVE  InInv'
  BY DEF InInv, InTypeOK, Answers, Started, Stages, Stops, StopOutranksBody, Answered, Barred, inVars

\* Nothing undoes a bar.
LEMMA BarStays ==
  ASSUME InInv, Barred, InNext \/ UNCHANGED inVars
  PROVE  Barred'
<1>1. token \in BOOLEAN /\ entered \in BOOLEAN
  BY DEF InInv, InTypeOK
<1> USE <1>1 DEF Barred
<1>2. CASE UNCHANGED inVars
  BY <1>2 DEF inVars
<1>3. CASE Offload \/ Resume \/ AnswerInterrupt
  <2>1. token' = token /\ entered' = entered
    BY <1>3 DEF Offload, Resume, AnswerInterrupt
  <2>2. worker' \in {"none", "validating", "arming", "looking", "delivering", "ended"}
    BY <1>3 DEF Offload, Resume, AnswerInterrupt
  <2> QED
    BY <2>1, <2>2
<1>4. CASE Interrupt \/ CancelToken
  BY <1>4 DEF Interrupt, CancelToken
<1>5. CASE Fire
  BY <1>5 DEF Fire, WorkerOnly
<1>6. CASE Validate \/ Arm
  <2>1. token' = token /\ entered' = entered
    BY <1>6 DEF Validate, Arm, Moves, WorkerOnly
  <2>2. worker' \in {"none", "validating", "arming", "looking", "delivering", "ended"}
    BY <1>6 DEF Validate, Arm, Moves, WorkerOnly
  <2> QED
    BY <2>1, <2>2
<1>7. CASE LookAtToken
  BY <1>7 DEF LookAtToken, Concludes, Moves, WorkerOnly
<1>8. CASE Deliver
  BY <1>8 DEF Deliver, Moves
<1>9. CASE LookAtDeadline \/ DispatchFails \/ ImportTerminates \/ Enter
  BY <1>9 DEF LookAtDeadline, DispatchFails, ImportTerminates, Enter, Concludes, Moves
<1>10. CASE Leave \/ LeaveLooksAtToken \/ LeaveLooksAtDeadline
  BY <1>10 DEF Leave, LeaveLooksAtToken, LeaveLooksAtDeadline, Concludes, Moves
<1> QED
  BY <1>2, <1>3, <1>4, <1>5, <1>6, <1>7, <1>8, <1>9, <1>10 DEF InNext, TaskSteps, Worker

\* What a call returned stays, and is never made of fresh facts once the entry
\* point was called.
LEMMA AnswerStays ==
  ASSUME InInv, InNext \/ UNCHANGED inVars
  PROVE  /\ answer # "none" => UNCHANGED answer
         /\ entered => answer' # "interrupted_fresh"
<1> USE DEF Moves, WorkerOnly, InInv, InTypeOK
<1>1. CASE UNCHANGED inVars
  BY <1>1 DEF inVars, Answers, Started, Answered, Barred
<1>2. CASE Resume
  BY <1>2 DEF Resume, Answers, Started, Answered
<1>3. CASE AnswerInterrupt
  BY <1>3 DEF AnswerInterrupt, Stages, Answered
<1>4. ASSUME UNCHANGED answer
      PROVE  /\ answer # "none" => UNCHANGED answer
             /\ entered => answer' # "interrupted_fresh"
  BY <1>4 DEF Answers, Started, Answered, Barred
<1>5. CASE Offload \/ Interrupt \/ CancelToken \/ Fire \/ Worker
  <2>1. UNCHANGED answer
    BY <1>5 DEF Offload, Interrupt, CancelToken, Fire, Worker, Validate, Arm, LookAtToken,
                LookAtDeadline, DispatchFails, ImportTerminates, Enter, Leave,
                LeaveLooksAtToken, LeaveLooksAtDeadline, Deliver
  <2> QED
    BY <1>4, <2>1
<1> QED
  BY <1>1, <1>2, <1>3, <1>5 DEF InNext, TaskSteps

-----------------------------------------------------------------------------
(* The protocol stream.                                                     *)

LEMMA InTermsOfTotal ==
  /\ Buffered = received - Total(stream, taken)
  /\ Written = AllBytes
  /\ HasFrame <=> taken < Len(stream) /\ Total(stream, taken + 1) <= received
<1>1. ASSUME NEW k
      PROVE  Length(k) = Total(stream, k)
  BY DEF Length, Total
<1> QED
  BY <1>1 DEF Buffered, Written, AllBytes, HasFrame

\* Sums over the stream are naturals, and strictly increasing.
LEMMA StreamTotals ==
  ASSUME StreamTypeOK
  PROVE  /\ Len(stream) \in Nat
         /\ \A i \in 1 .. Len(stream) : stream[i] \in Frames /\ stream[i].size \in Nat
         /\ \A k \in 0 .. Len(stream) : Total(stream, k) \in Nat
         /\ \A k \in 1 .. Len(stream) :
              Total(stream, k) = Total(stream, k - 1) + stream[k].size + 1
         /\ \A j, k \in 0 .. Len(stream) :
              j < k => Total(stream, j) < Total(stream, k)
<1>1. Len(stream) \in Nat /\ \A i \in 1 .. Len(stream) : stream[i] \in Frames
  BY DEF StreamTypeOK
<1>2. \A i \in 1 .. Len(stream) : stream[i].size \in Nat
  BY <1>1, StreamAssumption DEF Frames
<1>3. /\ \A k \in 0 .. Len(stream) : Total(stream, k) \in Nat
      /\ \A k \in 1 .. Len(stream) :
           Total(stream, k) = Total(stream, k - 1) + stream[k].size + 1
  BY <1>1, <1>2, TotalRecursion
<1>4. ASSUME NEW j \in 0 .. Len(stream), NEW k \in 0 .. Len(stream), j < k
      PROVE  Total(stream, j) < Total(stream, k)
  <2>1. j <= k /\ k - j > 0
    BY <1>1, <1>4
  <2>2. Total(stream, j) + (k - j) <= Total(stream, k)
    BY <1>1, <1>2, <2>1, TotalGrows
  <2>3. Total(stream, j) \in Nat /\ Total(stream, k) \in Nat
    BY <1>3
  <2> QED
    BY <1>1, <2>1, <2>2, <2>3
<1> QED
  BY <1>1, <1>2, <1>3, <1>4

\* Counting outputs.
LEMMA EmittedType ==
  ASSUME StreamTypeOK
  PROVE  /\ IsFiniteSet({i \in 1 .. Len(stream) : stream[i].what = "output"})
         /\ Emitted \in Nat
<1>1. Len(stream) \in Nat
  BY DEF StreamTypeOK
<1>2. IsFiniteSet(1 .. Len(stream))
  BY <1>1, FS_Interval
<1>3. {i \in 1 .. Len(stream) : stream[i].what = "output"} \in SUBSET (1 .. Len(stream))
  OBVIOUS
<1> QED
  BY <1>2, <1>3, FS_Subset, FS_CardinalityType DEF Emitted

\* What a frame added to a stream leaves as it was.
LEMMA Appended ==
  ASSUME StreamTypeOK, NEW f \in Frames, stream' = Append(stream, f)
  PROVE  /\ stream' \in Seq(Frames) /\ Len(stream') = Len(stream) + 1
         /\ \A i \in 1 .. Len(stream) : stream'[i] = stream[i]
         /\ stream'[Len(stream) + 1] = f
         /\ \A k \in 0 .. Len(stream) : Total(stream', k) = Total(stream, k)
         /\ Total(stream', Len(stream')) = Total(stream, Len(stream)) + f.size + 1
         /\ f.size \in Nat
         /\ \A i \in 1 .. Len(stream) : Right(i)' <=> Right(i)
         /\ OverBudget => OverBudget'
<1>1. stream \in Seq(Frames) /\ Len(stream) \in Nat
  BY DEF StreamTypeOK
<1>2. /\ stream' \in Seq(Frames) /\ Len(stream') = Len(stream) + 1
      /\ \A i \in 1 .. Len(stream) : stream'[i] = stream[i]
      /\ stream'[Len(stream) + 1] = f
  BY <1>1
<1>3. \A i \in 1 .. Len(stream) + 1 : stream'[i].size \in Nat
  <2>1. \A i \in 1 .. Len(stream) + 1 : stream'[i] \in Frames
    BY <1>1, <1>2
  <2> QED
    BY <2>1, StreamAssumption DEF Frames
<1>4. f.size \in Nat
  BY StreamAssumption DEF Frames
<1>5. \A k \in 0 .. Len(stream) : Total(stream', k) = Total(stream, k)
  <2>1. SameSizes(stream', stream, Len(stream))
    BY <1>2 DEF SameSizes
  <2>2. \A i \in 1 .. Len(stream) : stream[i].size \in Nat
    BY StreamTotals
  <2> QED
    BY <1>1, <2>1, <2>2, TotalAgrees
<1>6. Total(stream', Len(stream')) = Total(stream, Len(stream)) + f.size + 1
  <2>1. Len(stream) + 1 \in Nat /\ Len(stream) + 1 \in 1 .. Len(stream) + 1
    BY <1>1
  <2>2. Total(stream', Len(stream) + 1) =
          Total(stream', (Len(stream) + 1) - 1) + stream'[Len(stream) + 1].size + 1
    BY <1>3, <2>1, TotalRecursion
  <2>3. (Len(stream) + 1) - 1 = Len(stream) /\ Len(stream) \in 0 .. Len(stream)
    BY <1>1
  <2> QED
    BY <1>2, <1>5, <2>2, <2>3
<1>7. ASSUME NEW i \in 1 .. Len(stream)
      PROVE  Right(i)' <=> Right(i)
  <2>1. stream'[i] = stream[i] /\ \A h \in 1 .. i - 1 : stream'[h] = stream[h]
    BY <1>1, <1>2
  <2> QED
    BY <2>1 DEF Right
<1>8. ASSUME OverBudget
      PROVE  OverBudget'
  <2>1. CASE \E i \in 1 .. Len(stream) : stream[i].size > MaxFrame \/ stream[i].what = "deep"
    <3>1. PICK i \in 1 .. Len(stream) : stream[i].size > MaxFrame \/ stream[i].what = "deep"
      BY <2>1
    <3>2. i \in 1 .. Len(stream') /\ stream'[i] = stream[i]
      BY <1>1, <1>2
    <3> QED
      BY <3>1, <3>2 DEF OverBudget
  <2>2. CASE Emitted > MaxOutputs
    <3> DEFINE Old == {i \in 1 .. Len(stream) : stream[i].what = "output"}
               New == {i \in 1 .. Len(stream') : stream'[i].what = "output"}
    <3>1. Old \in SUBSET New
      BY <1>1, <1>2
    <3>2. IsFiniteSet(1 .. Len(stream'))
      BY <1>1, <1>2, FS_Interval
    <3>3. IsFiniteSet(New)
      <4>1. New \in SUBSET (1 .. Len(stream'))
        OBVIOUS
      <4> QED
        BY <3>2, <4>1, FS_Subset
    <3>4. Cardinality(Old) <= Cardinality(New)
      <4> HIDE DEF Old, New
      <4> QED
        BY <3>1, <3>3, FS_Subset
    <3>5. Cardinality(New) \in Nat
      <4> HIDE DEF New
      <4> QED
        BY <3>3, FS_CardinalityType
    <3>6. Emitted = Cardinality(Old) /\ Emitted' = Cardinality(New)
      BY DEF Emitted
    <3>7. Emitted \in Nat
      BY EmittedType
    <3>8. Emitted' > MaxOutputs
      <4> HIDE DEF Old, New
      <4> QED
        BY <2>2, <3>4, <3>5, <3>6, <3>7, StreamAssumption
    <3> QED
      BY <3>8 DEF OverBudget
  <2> QED
    BY <1>8, <2>1, <2>2 DEF OverBudget
<1> QED
  BY <1>2, <1>4, <1>5, <1>6, <1>7, <1>8

ReadInv == StreamTypeOK /\ Bytes /\ Accepts /\ (~Reading => Judged)

LEMMA AcceptedType ==
  ASSUME StreamTypeOK, Accepts
  PROVE  Accepted \in 0 .. Len(stream) /\ outputs \in Nat /\ outputs <= Accepted
<1>1. outputs \in Nat /\ taken \in 0 .. Len(stream) /\ Len(stream) \in Nat
  BY StreamAssumption DEF StreamTypeOK
<1> QED
  BY <1>1 DEF Accepts, Accepted

\* A frame written while the payload lives changes nothing of what was read.
LEMMA AppendKeeps ==
  ASSUME ReadInv, NEW f \in Frames, stream' = Append(stream, f),
         at # "ended", at' # "ended", UNCHANGED <<torn, readerVars>>
  PROVE  Bytes' /\ Accepts' /\ (~Reading => Judged)'
<1> DEFINE n == Len(stream)
<1>1. /\ StreamTypeOK /\ Bytes /\ Accepts /\ (~Reading => Judged)
      /\ received' = received /\ taken' = taken /\ eof' = eof /\ prelude' = prelude
      /\ completed' = completed /\ outputs' = outputs /\ verdict' = verdict /\ torn' = torn
  BY DEF ReadInv, readerVars
<1>2. /\ Len(stream') = n + 1
      /\ \A i \in 1 .. n : stream'[i] = stream[i]
      /\ \A k \in 0 .. n : Total(stream', k) = Total(stream, k)
      /\ Total(stream', Len(stream')) = Total(stream, n) + f.size + 1
      /\ f.size \in Nat
      /\ \A i \in 1 .. n : Right(i)' <=> Right(i)
      /\ OverBudget => OverBudget'
  BY <1>1, Appended
<1>3. /\ n \in Nat /\ taken \in 0 .. n /\ outputs \in Nat /\ Accepted \in 0 .. n
      /\ received \in Nat /\ torn \in Nat
  BY <1>1, AcceptedType, StreamAssumption DEF StreamTypeOK
<1>4. Accepted' = Accepted
  BY <1>1 DEF Accepted
<1>5. Bytes'
  <2>1. Total(stream', taken') = Total(stream, taken)
    BY <1>1, <1>2, <1>3
  <2>2. Total(stream, n) \in Nat
    BY <1>1, <1>3, StreamTotals
  <2>3. AllBytes' = AllBytes + f.size + 1 /\ AllBytes \in Nat
    <3> DEFINE t == Total(stream, n)
               u == Total(stream', Len(stream'))
               b == f.size
    <3>1. AllBytes' = u + torn /\ AllBytes = t + torn
      BY <1>1 DEF AllBytes
    <3>2. u = t + b + 1 /\ t \in Nat /\ b \in Nat /\ torn \in Nat
      BY <1>2, <1>3, <2>2
    <3> HIDE DEF t, u, b
    <3>3. u + torn = (t + torn) + b + 1 /\ t + torn \in Nat
      BY <3>2
    <3> USE DEF b
    <3> QED
      BY <3>1, <3>3
  <2>4. received' <= AllBytes'
    BY <1>1, <1>2, <1>3, <2>3 DEF Bytes
  <2> QED
    BY <1>1, <2>1, <2>4 DEF Bytes, Reading
<1>6. Accepts'
  <2>1. \A i \in 1 .. Accepted' : Right(i)'
    BY <1>1, <1>2, <1>3, <1>4 DEF Accepts
  <2>2. \A i \in 2 .. outputs' + 1 : stream'[i].what = "output"
    <3>1. outputs # 0 => outputs + 1 <= n
      BY <1>1, <1>3 DEF Accepts, Accepted
    <3>2. \A i \in 2 .. outputs + 1 : i \in 1 .. n
      BY <1>3, <3>1
    <3> QED
      BY <1>1, <1>2, <3>2 DEF Accepts
  <2>3. \A i \in 1 .. Accepted' :
          stream'[i].what = "complete" <=> completed' /\ i = outputs' + 2
    BY <1>1, <1>2, <1>3, <1>4 DEF Accepts
  <2> QED
    BY <1>1, <1>4, <2>1, <2>2, <2>3 DEF Accepts, Reading
<1>7. ASSUME ~Reading'
      PROVE  Judged'
  <2>1. Judged
    BY <1>1, <1>7 DEF Reading
  <2>2. CASE verdict = "oversized" /\ received > MaxTotal
    BY <1>1, <2>2 DEF Judged
  <2>3. CASE /\ Accepted < Len(stream) /\ ~Right(Accepted + 1)
             /\ verdict # "ok"
             /\ verdict = "oversized" => OverBudget
    <3>1. PICK m \in 1 .. n : m = Accepted + 1
      BY <1>3, <2>3
    <3>2. ~Right(m)'
      <4>1. ~Right(m)
        BY <2>3, <3>1
      <4> QED
        BY <1>2, <4>1
    <3>3. ~Right(Accepted + 1)'
      <4>1. m = Accepted' + 1
        BY <1>4, <3>1
      <4> QED
        BY <3>2, <4>1 DEF Right
    <3>4. Accepted' < Len(stream')
      BY <1>2, <1>3, <1>4, <2>3
    <3> QED
      BY <1>1, <1>2, <1>4, <2>3, <3>2, <3>3, <3>4 DEF Judged
  <2> QED
    BY <2>1, <2>2, <2>3 DEF Judged
<1> QED
  BY <1>5, <1>6, <1>7 DEF Reading

\* Nothing is read by the end of the payload.
LEMMA EndKeeps ==
  ASSUME ReadInv, Ends
  PROVE  ReadInv'
<1>1. /\ StreamTypeOK /\ Bytes /\ Accepts /\ (~Reading => Judged)
      /\ received' = received /\ taken' = taken /\ eof' = eof /\ prelude' = prelude
      /\ completed' = completed /\ outputs' = outputs /\ verdict' = verdict
      /\ stream' = stream /\ driver' = driver /\ returned' = returned
      /\ at # "ended" /\ at' = "ended" /\ exit' \in {"zero", "nonzero", "signaled"}
  BY DEF ReadInv, readerVars, Ends
<1>2. torn' \in Nat /\ torn = 0
  BY <1>1, StreamAssumption DEF Ends, Bytes, Cuts
<1>3. StreamTypeOK'
  BY <1>1, <1>2 DEF StreamTypeOK
<1>4. Bytes'
  <2>1. Total(stream, Len(stream)) \in Nat /\ received \in Nat
    <3>1. Len(stream) \in 0 .. Len(stream)
      BY <1>1 DEF StreamTypeOK
    <3> QED
      BY <1>1, <3>1, StreamTotals DEF StreamTypeOK
  <2>2. AllBytes' = AllBytes + torn' /\ AllBytes \in Nat
    BY <1>1, <1>2, <2>1 DEF AllBytes
  <2>3. received' <= AllBytes'
    <3>1. received <= AllBytes /\ torn' \in Nat
      BY <1>1, <1>2, StreamAssumption DEF Bytes
    <3>2. \A a, b, c \in Nat : a <= b => a <= b + c
      OBVIOUS
    <3>3. received <= AllBytes + torn'
      BY <2>1, <2>2, <3>1, <3>2
    <3> QED
      BY <1>1, <2>2, <3>3
  <2>4. ~eof
    BY <1>1 DEF Bytes
  <2> QED
    BY <1>1, <2>3, <2>4 DEF Bytes, Reading
<1>5. Accepts'
  BY <1>1 DEF Accepts, Accepted, Right, Reading
<1>6. ASSUME ~Reading'
      PROVE  Judged'
  <2>1. Judged /\ Accepted' = Accepted
    BY <1>1, <1>6 DEF Reading, Accepted
  <2>2. (OverBudget' <=> OverBudget) /\ (Right(Accepted + 1)' <=> Right(Accepted + 1))
    BY <1>1, <2>1 DEF Right, OverBudget, Emitted
  <2> QED
    BY <1>1, <2>1, <2>2 DEF Judged
<1> QED
  BY <1>3, <1>4, <1>5, <1>6 DEF ReadInv, Reading

LEMMA MinMax ==
  /\ \A a, b \in Int : /\ Min({a, b}) \in {a, b} /\ Min({a, b}) <= a /\ Min({a, b}) <= b
                       /\ Max({a, b}) \in {a, b} /\ Max({a, b}) >= a /\ Max({a, b}) >= b
  /\ \A a, b, c \in Int : /\ Min({a, b, c}) \in {a, b, c} /\ Min({a, b, c}) <= a
                          /\ Min({a, b, c}) <= b /\ Min({a, b, c}) <= c
<1>1. ASSUME NEW a \in Int, NEW b \in Int
      PROVE  Min({a, b}) \in {a, b} /\ Min({a, b}) <= a /\ Min({a, b}) <= b
  <2>1. \E x \in {a, b} : \A y \in {a, b} : x <= y
    OBVIOUS
  <2> QED
    BY <2>1 DEF Min
<1>2. ASSUME NEW a \in Int, NEW b \in Int
      PROVE  Max({a, b}) \in {a, b} /\ Max({a, b}) >= a /\ Max({a, b}) >= b
  <2>1. \E x \in {a, b} : \A y \in {a, b} : x >= y
    OBVIOUS
  <2> QED
    BY <2>1 DEF Max
<1>3. ASSUME NEW a \in Int, NEW b \in Int, NEW c \in Int
      PROVE  /\ Min({a, b, c}) \in {a, b, c} /\ Min({a, b, c}) <= a
             /\ Min({a, b, c}) <= b /\ Min({a, b, c}) <= c
  <2>1. \E x \in {a, b, c} : \A y \in {a, b, c} : x <= y
    OBVIOUS
  <2> QED
    BY <2>1 DEF Min
<1> QED
  BY <1>1, <1>2, <1>3

\* A read asks for a byte at least, and for one byte too many at most.
LEMMA ReadSizeBounds ==
  ASSUME Buffered \in Int, Buffered <= MaxFrame, received \in Nat, received <= MaxTotal
  PROVE  /\ ReadSize \in Nat /\ ReadSize >= 1
         /\ ReadSize <= MaxFrame + 1 - Buffered
         /\ ReadSize <= MaxTotal + 1 - received
<1> DEFINE a == ChunkBytes
           b == MaxFrame + 1 - Buffered
           c == MaxTotal + 1 - received
           m == Min({a, b, c})
<1>1. a \in Int /\ b \in Int /\ c \in Int /\ a >= 1 /\ b >= 1 /\ c >= 1
  BY StreamAssumption
<1>2. ReadSize = Max({1, m})
  BY DEF ReadSize
<1> HIDE DEF a, b, c
<1>3. m \in {a, b, c} /\ m <= b /\ m <= c
  BY <1>1, MinMax
<1> HIDE DEF m
<1>4. m \in Int /\ m >= 1
  BY <1>1, <1>3
<1>5. Max({1, m}) \in {1, m} /\ Max({1, m}) >= 1 /\ Max({1, m}) >= m
  BY <1>4, MinMax
<1>6. ReadSize = m
  BY <1>2, <1>4, <1>5
<1>7. ReadSize \in Nat /\ ReadSize >= 1 /\ ReadSize <= b /\ ReadSize <= c
  BY <1>1, <1>3, <1>4, <1>6
<1> QED
  BY <1>7 DEF b, c

\* The numbers a step of the reader computes with.
LEMMA ReaderNumbers ==
  ASSUME ReadInv, Reading
  PROVE  /\ Len(stream) \in Nat /\ taken \in 0 .. Len(stream) /\ taken = Accepted
         /\ received \in Nat /\ received <= MaxTotal /\ torn \in Nat
         /\ Total(stream, taken) \in Nat /\ Total(stream, taken) <= received
         /\ AllBytes \in Nat /\ received <= AllBytes
         /\ Buffered = received - Total(stream, taken) /\ Buffered \in Nat
         /\ Written = AllBytes
         /\ taken < Len(stream) =>
              /\ Total(stream, taken + 1) = Total(stream, taken) + stream[taken + 1].size + 1
              /\ stream[taken + 1] \in Frames /\ stream[taken + 1].size \in Nat
              /\ Total(stream, taken + 1) \in Nat /\ Total(stream, taken + 1) <= AllBytes
<1>1. StreamTypeOK /\ Bytes /\ Accepts
  BY DEF ReadInv
<1>2. /\ Len(stream) \in Nat /\ taken \in 0 .. Len(stream) /\ received \in Nat
      /\ torn \in Nat
  BY <1>1, StreamAssumption DEF StreamTypeOK
<1>3. received <= MaxTotal /\ taken = Accepted /\ Total(stream, taken) <= received
      /\ received <= AllBytes
  BY <1>1 DEF Bytes, Accepts
<1>4. \A k \in 0 .. Len(stream) : Total(stream, k) \in Nat
  BY <1>1, StreamTotals
<1>5. Total(stream, taken) \in Nat /\ Total(stream, Len(stream)) \in Nat
  BY <1>2, <1>4
<1>6. AllBytes \in Nat /\ AllBytes >= Total(stream, Len(stream))
  BY <1>2, <1>5 DEF AllBytes
<1>7. Buffered = received - Total(stream, taken) /\ Written = AllBytes
  BY InTermsOfTotal
<1>8. Buffered \in Nat
  BY <1>2, <1>3, <1>5, <1>7
<1>9. ASSUME taken < Len(stream)
      PROVE  /\ Total(stream, taken + 1) = Total(stream, taken) + stream[taken + 1].size + 1
             /\ stream[taken + 1] \in Frames /\ stream[taken + 1].size \in Nat
             /\ Total(stream, taken + 1) \in Nat /\ Total(stream, taken + 1) <= AllBytes
  <2>1. PICK k \in 1 .. Len(stream) : k = taken + 1 /\ k - 1 = taken
    BY <1>2, <1>9
  <2>2. /\ Total(stream, k) = Total(stream, k - 1) + stream[k].size + 1
        /\ stream[k] \in Frames /\ stream[k].size \in Nat
    BY <1>1, StreamTotals
  <2>3. Total(stream, k) \in Nat
    BY <1>2, <1>4
  <2>4. Total(stream, k) <= Total(stream, Len(stream))
    <3>1. CASE k = Len(stream)
      BY <1>5, <3>1
    <3>2. CASE k < Len(stream)
      <4>1. k \in 0 .. Len(stream) /\ Len(stream) \in 0 .. Len(stream)
        BY <1>2
      <4>2. Total(stream, k) < Total(stream, Len(stream))
        BY <1>1, <3>2, <4>1, StreamTotals
      <4> QED
        BY <1>5, <2>3, <4>2
    <3> QED
      BY <1>2, <3>1, <3>2
  <2>5. Total(stream, k) <= AllBytes
    BY <1>5, <1>6, <2>3, <2>4
  <2> QED
    BY <2>1, <2>2, <2>3, <2>5
<1> QED
  BY <1>2, <1>3, <1>5, <1>6, <1>7, <1>8, <1>9

LEMMA FillKeeps ==
  ASSUME ReadInv, Fill
  PROVE  ReadInv'
<1> DEFINE n == Min({ReadSize, Written - received})
<1>1. /\ StreamTypeOK /\ Bytes /\ Accepts /\ Reading /\ verdict = "reading"
      /\ driver' = driver /\ at' = at /\ exit' = exit /\ returned' = returned
      /\ stream' = stream /\ torn' = torn /\ taken' = taken /\ prelude' = prelude
      /\ completed' = completed /\ outputs' = outputs
      /\ received' = received + n /\ eof' = (n = 0)
      /\ verdict' = IF received + n > MaxTotal THEN "oversized" ELSE verdict
  BY DEF ReadInv, Fill, Reading, writerVars
<1>2. /\ received \in Nat /\ received <= MaxTotal /\ AllBytes \in Nat /\ received <= AllBytes
      /\ Buffered = received - Total(stream, taken) /\ Buffered \in Nat
      /\ Total(stream, taken) \in Nat /\ Written = AllBytes
  BY <1>1, ReaderNumbers
<1>3. Buffered <= MaxFrame
  BY DEF Fill
<1>4. /\ ReadSize \in Nat /\ ReadSize >= 1
      /\ ReadSize <= MaxFrame + 1 - Buffered
      /\ ReadSize <= MaxTotal + 1 - received
  BY <1>2, <1>3, ReadSizeBounds
<1>5. /\ n \in {ReadSize, Written - received}
      /\ n <= ReadSize /\ n <= Written - received
  <2>1. ReadSize \in Int /\ Written - received \in Int
    BY <1>2, <1>4
  <2> QED
    BY <2>1, MinMax
<1>6. n \in Nat
  BY <1>2, <1>4, <1>5
<1>7. n = 0 => at = "ended" /\ Written = received
  BY <1>2, <1>4, <1>5 DEF Fill
<1> HIDE DEF n
<1>8. /\ received + n \in Nat /\ received + n <= AllBytes
      /\ Total(stream, taken) <= received + n
      /\ (received + n) - Total(stream, taken) <= MaxFrame + 1
      /\ received + n <= MaxTotal + 1
  <2>1. MaxFrame \in Nat /\ MaxTotal \in Nat
    BY StreamAssumption
  <2>2. n <= AllBytes - received /\ n <= MaxFrame + 1 - (received - Total(stream, taken))
        /\ n <= MaxTotal + 1 - received
    BY <1>2, <1>4, <1>5, <1>6, <2>1
  <2>3. Total(stream, taken) <= received
    BY <1>1 DEF Bytes
  <2> QED
    BY <1>2, <1>6, <2>1, <2>2, <2>3
<1>9. StreamTypeOK'
  BY <1>1, <1>8 DEF StreamTypeOK
<1>10. AllBytes' = AllBytes
  BY <1>1 DEF AllBytes
<1>11. Bytes'
  <2>1. eof' => at' = "ended" /\ received' = AllBytes'
    <3>1. CASE n = 0
      BY <1>1, <1>2, <1>7, <1>10, <3>1
    <3>2. CASE n # 0
      BY <1>1, <3>2
    <3> QED
      BY <3>1, <3>2
  <2>2. Reading' => received' <= MaxTotal
    <3>1. CASE received + n > MaxTotal
      BY <1>1, <3>1 DEF Reading
    <3>2. CASE ~(received + n > MaxTotal)
      BY <1>1, <1>8, <3>2, StreamAssumption
    <3> QED
      BY <3>1, <3>2
  <2>3. /\ Total(stream', taken') <= received' /\ received' <= AllBytes'
        /\ received' - Total(stream', taken') <= MaxFrame + 1
        /\ received' <= MaxTotal + 1
    BY <1>1, <1>8, <1>10
  <2> QED
    BY <1>1, <2>1, <2>2, <2>3 DEF Bytes
<1>12. Accepts'
  <2>1. Accepted' = Accepted
    BY <1>1 DEF Accepted
  <2>2. \A i : Right(i)' <=> Right(i)
    BY <1>1 DEF Right
  <2>3. \A i \in 1 .. Accepted' : Right(i)'
    BY <1>1, <2>1, <2>2 DEF Accepts
  <2> QED
    BY <1>1, <2>1, <2>3 DEF Accepts
<1>13. ~Reading' => Judged'
  BY <1>1 DEF Judged, Reading
<1> QED
  BY <1>9, <1>11, <1>12, <1>13 DEF ReadInv, Reading

\* A step of the reader that accepts no frame and moves nothing but its verdict.
LEMMA VerdictKeeps ==
  ASSUME ReadInv, Reading, UNCHANGED <<writerVars, received, eof, prelude, completed, outputs>>,
         taken' \in 0 .. Len(stream), taken <= taken',
         Total(stream, taken') <= received, Total(stream, taken) <= Total(stream, taken'),
         Total(stream, taken') \in Nat,
         verdict' \in {"ok", "malformed", "oversized", "unexpected", "duplicate",
                       "id_mismatch", "incomplete"},
         \/ /\ Accepted < Len(stream) /\ ~Right(Accepted + 1)
            /\ verdict' # "ok"
            /\ verdict' = "oversized" => OverBudget
         \/ /\ at = "ended" /\ Accepted = Len(stream) /\ received = AllBytes
            /\ verdict' # "oversized"
            /\ verdict' = "ok" <=> completed /\ torn = 0
         \/ /\ at = "ended" /\ Accepted = Len(stream)
            /\ torn > MaxFrame /\ verdict' = "oversized"
  PROVE  ReadInv'
<1>1. /\ StreamTypeOK /\ Bytes /\ Accepts
      /\ driver' = driver /\ at' = at /\ exit' = exit /\ returned' = returned
      /\ stream' = stream /\ torn' = torn /\ received' = received /\ eof' = eof
      /\ prelude' = prelude /\ completed' = completed /\ outputs' = outputs
  BY DEF ReadInv, writerVars
<1>2. /\ received \in Nat /\ received <= MaxTotal /\ taken = Accepted
      /\ Total(stream, taken) \in Nat /\ taken \in Nat /\ taken' \in Nat
  BY ReaderNumbers
<1>3. StreamTypeOK'
  BY <1>1 DEF StreamTypeOK
<1>4. Bytes'
  <2>1. received - Total(stream, taken') <= MaxFrame + 1
    <3>1. received - Total(stream, taken) <= MaxFrame + 1 /\ MaxFrame \in Nat
      BY <1>1, StreamAssumption DEF Bytes
    <3> QED
      BY <1>2, <3>1
  <2>2. AllBytes' = AllBytes
    BY <1>1 DEF AllBytes
  <2> QED
    BY <1>1, <1>2, <2>1, <2>2 DEF Bytes
<1>5. Accepted' = Accepted /\ (\A i : Right(i)' <=> Right(i))
  BY <1>1 DEF Accepted, Right
<1>6. Accepts'
  <2>1. \A i \in 1 .. Accepted' : Right(i)'
    BY <1>1, <1>5 DEF Accepts
  <2>2. Accepted' <= taken'
    BY <1>2, <1>5
  <2>3. ~Reading'
    BY DEF Reading
  <2> QED
    BY <1>1, <1>5, <2>1, <2>2, <2>3 DEF Accepts
<1>7. Judged'
  <2>1. AllBytes' = AllBytes /\ (OverBudget => OverBudget')
    BY <1>1 DEF AllBytes, OverBudget, Emitted
  <2>2. CASE /\ Accepted < Len(stream) /\ ~Right(Accepted + 1)
             /\ verdict' # "ok"
             /\ verdict' = "oversized" => OverBudget
    <3>1. ~Right(Accepted + 1)'
      BY <1>1, <1>5, <2>2 DEF Right
    <3> QED
      BY <1>1, <1>5, <2>1, <2>2, <3>1 DEF Judged
  <2>3. CASE /\ at = "ended" /\ Accepted = Len(stream) /\ received = AllBytes
             /\ verdict' # "oversized"
             /\ verdict' = "ok" <=> completed /\ torn = 0
    BY <1>1, <1>2, <1>5, <2>1, <2>3 DEF Judged
  <2>4. CASE /\ at = "ended" /\ Accepted = Len(stream)
             /\ torn > MaxFrame /\ verdict' = "oversized"
    BY <1>1, <1>5, <2>4 DEF Judged
  <2> QED
    BY <2>2, <2>3, <2>4
<1> QED
  BY <1>3, <1>4, <1>6, <1>7 DEF ReadInv

LEMMA OverlongKeeps ==
  ASSUME ReadInv, Overlong
  PROVE  ReadInv'
<1>1. Reading /\ ~HasFrame /\ Buffered > MaxFrame /\ verdict' = "oversized" /\ taken' = taken
      /\ UNCHANGED <<writerVars, received, eof, prelude, completed, outputs>>
  BY DEF Overlong, Fails
<1>2. /\ Len(stream) \in Nat /\ taken \in 0 .. Len(stream) /\ taken = Accepted
      /\ received \in Nat /\ torn \in Nat
      /\ Total(stream, taken) \in Nat /\ Total(stream, taken) <= received
      /\ AllBytes \in Nat /\ received <= AllBytes
      /\ Buffered = received - Total(stream, taken)
      /\ taken < Len(stream) =>
           /\ Total(stream, taken + 1) = Total(stream, taken) + stream[taken + 1].size + 1
           /\ stream[taken + 1] \in Frames /\ stream[taken + 1].size \in Nat
  BY <1>1, ReaderNumbers
<1>3. MaxFrame \in Nat
  BY StreamAssumption
<1>4. CASE taken = Len(stream)
  <2>1. AllBytes = Total(stream, taken) + torn
    BY <1>4 DEF AllBytes
  <2>2. torn > MaxFrame
    BY <1>1, <1>2, <1>3, <2>1
  <2>3. at = "ended"
    BY <1>3, <2>2 DEF ReadInv, Bytes
  <2> QED
    BY <1>1, <1>2, <1>4, <2>2, <2>3, VerdictKeeps
<1>5. CASE taken < Len(stream)
  <2>1. ~(Total(stream, taken + 1) <= received)
    BY <1>1, <1>5, InTermsOfTotal
  <2>2. stream[taken + 1].size > MaxFrame
    BY <1>1, <1>2, <1>3, <1>5, <2>1
  <2>3. taken + 1 \in 1 .. Len(stream)
    BY <1>2, <1>5
  <2>4. ~Right(Accepted + 1) /\ OverBudget
    <3>1. ~(stream[taken + 1].size <= MaxFrame)
      BY <1>2, <1>3, <1>5, <2>2
    <3> QED
      BY <1>2, <2>2, <2>3, <3>1 DEF Right, OverBudget
  <2> QED
    BY <1>1, <1>2, <1>5, <2>4, VerdictKeeps
<1> QED
  BY <1>2, <1>4, <1>5

LEMMA FinishKeeps ==
  ASSUME ReadInv, Finish
  PROVE  ReadInv'
<1>1. Reading /\ ~HasFrame /\ eof /\ taken' = taken
      /\ verdict' = (IF ~completed THEN "incomplete"
                     ELSE IF Buffered > 0 THEN "unexpected" ELSE "ok")
      /\ UNCHANGED <<writerVars, received, eof, prelude, completed, outputs>>
  BY DEF Finish, Fails
<1>2. /\ Len(stream) \in Nat /\ taken \in 0 .. Len(stream) /\ taken = Accepted
      /\ received \in Nat /\ torn \in Nat
      /\ Total(stream, taken) \in Nat /\ Total(stream, taken) <= received
      /\ Buffered = received - Total(stream, taken)
      /\ taken < Len(stream) => Total(stream, taken + 1) <= AllBytes
  BY <1>1, ReaderNumbers
<1>3. at = "ended" /\ received = AllBytes
  BY <1>1 DEF ReadInv, Bytes
<1>4. taken = Len(stream)
  <2>1. ~(taken < Len(stream) /\ Total(stream, taken + 1) <= received)
    BY <1>1, InTermsOfTotal
  <2> QED
    BY <1>2, <1>3, <2>1
<1>5. Buffered = torn
  <2>1. AllBytes = Total(stream, taken) + torn /\ torn \in Nat
    BY <1>2, <1>4, StreamAssumption DEF AllBytes
  <2> QED
    BY <1>2, <1>3, <2>1
<1>6. Buffered > 0 <=> torn # 0
  BY <1>2, <1>5, StreamAssumption
<1>7. verdict' = "ok" <=> completed /\ torn = 0
  BY <1>1, <1>6
<1>8. verdict' \in {"ok", "unexpected", "incomplete"}
  BY <1>1
<1> QED
  BY <1>1, <1>2, <1>3, <1>4, <1>7, <1>8, VerdictKeeps

\* A frame is accepted if and only if it is the right one at its place.
LEMMA ViolationIsExact ==
  ASSUME ReadInv, Reading, taken < Len(stream)
  PROVE  LET f == stream[taken + 1]
             v == Violation(f)
         IN  /\ v = "none" =>
                  /\ Right(taken + 1) /\ ~completed
                  /\ \/ f.what = "prelude" /\ ~prelude
                     \/ f.what = "output" /\ prelude /\ outputs + 1 <= MaxOutputs
                     \/ f.what = "complete" /\ prelude
             /\ v # "none" =>
                  /\ ~Right(taken + 1)
                  /\ v \in {"malformed", "oversized", "unexpected", "duplicate",
                            "id_mismatch", "incomplete"}
                  /\ v = "oversized" => OverBudget
<1> DEFINE f == stream[taken + 1]
           v == Violation(f)
           i == taken + 1
<1>1. StreamTypeOK /\ Accepts
  BY DEF ReadInv
<1>2. /\ Len(stream) \in Nat /\ taken \in 0 .. Len(stream) /\ taken = Accepted
      /\ f \in Frames
  BY ReaderNumbers
<1>3. /\ outputs \in Nat /\ MaxFrame \in Nat /\ MaxOutputs \in Nat
      /\ prelude \in BOOLEAN /\ completed \in BOOLEAN
  BY <1>1, StreamAssumption DEF StreamTypeOK
<1>4. f.size \in Nat /\ f.n \in Nat /\ f.what \in What
  BY <1>2, <1>3, StreamAssumption DEF Frames
<1>5. i \in 1 .. Len(stream) /\ i \in Nat
  BY <1>2
<1>6. /\ ~prelude => i = 1 /\ outputs = 0 /\ ~completed
      /\ prelude /\ ~completed => i = outputs + 2
      /\ prelude /\ completed => i = outputs + 3
  BY <1>1, <1>2, <1>3 DEF Accepts, Accepted
<1>7. ~completed => \A h \in 1 .. i - 1 : stream[h].what # "complete"
  BY <1>1, <1>2, <1>3 DEF Accepts
<1>8. completed => stream[i - 1].what = "complete" /\ i - 1 \in 1 .. i - 1
  BY <1>1, <1>2, <1>3, <1>6 DEF Accepts
<1>9. Right(i) <=> /\ f.size <= MaxFrame
                   /\ \/ i = 1 /\ f.what = "prelude"
                      \/ i > 1 /\ f.what = "output" /\ f.n = i - 2 /\ f.n < MaxOutputs
                      \/ i > 1 /\ f.what = "complete" /\ f.n = i - 2
                   /\ \A h \in 1 .. i - 1 : stream[h].what # "complete"
  BY DEF Right
<1>10. v = IF f.size > MaxFrame THEN "oversized"
           ELSE IF completed THEN "unexpected"
           ELSE CASE f.what = "garbage" -> "malformed"
                  [] f.what = "deep" -> "oversized"
                  [] f.what \in {"prelude", "alien"} ->
                       IF prelude THEN "unexpected"
                       ELSE IF f.what = "alien" THEN "id_mismatch" ELSE "none"
                  [] f.what = "output" ->
                       IF ~prelude THEN "unexpected"
                       ELSE IF f.n < outputs THEN "duplicate"
                       ELSE IF f.n > outputs THEN "unexpected"
                       ELSE IF outputs + 1 > MaxOutputs THEN "oversized" ELSE "none"
                  [] f.what = "complete" ->
                       IF ~prelude THEN "unexpected"
                       ELSE IF f.n # outputs THEN "incomplete" ELSE "none"
  BY DEF Violation
<1>11. SUFFICES /\ v = "none" =>
                     /\ Right(i) /\ ~completed
                     /\ \/ f.what = "prelude" /\ ~prelude
                        \/ f.what = "output" /\ prelude /\ outputs + 1 <= MaxOutputs
                        \/ f.what = "complete" /\ prelude
                /\ v # "none" =>
                     /\ ~Right(i)
                     /\ v \in {"malformed", "oversized", "unexpected", "duplicate",
                               "id_mismatch", "incomplete"}
                     /\ v = "oversized" => OverBudget
  OBVIOUS
<1>12. f.size > MaxFrame \/ f.what = "deep" => OverBudget
  BY <1>5 DEF OverBudget
<1>13. f.what = "output" /\ prelude /\ ~completed /\ outputs + 1 > MaxOutputs => OverBudget
  <2> HAVE f.what = "output" /\ prelude /\ ~completed /\ outputs + 1 > MaxOutputs
  <2> DEFINE Out == {h \in 1 .. Len(stream) : stream[h].what = "output"}
  <2>1. i = outputs + 2
    BY <1>6
  <2>2. 2 .. outputs + 2 \in SUBSET Out
    <3>1. \A h \in 2 .. outputs + 1 : stream[h].what = "output"
      BY <1>1 DEF Accepts
    <3>2. ASSUME NEW h \in 2 .. outputs + 2
          PROVE  h \in Out
      <4>1. h \in 1 .. Len(stream)
        BY <1>2, <1>3, <1>5, <2>1
      <4>2. CASE h = outputs + 2
        BY <2>1, <4>1, <4>2
      <4>3. CASE h # outputs + 2
        BY <1>3, <3>1, <4>1, <4>3
      <4> QED
        BY <4>2, <4>3
    <3> QED
      BY <3>2
  <2>3. IsFiniteSet(Out) /\ Emitted = Cardinality(Out) /\ Emitted \in Nat
    BY <1>1, EmittedType DEF Emitted
  <2>4. Cardinality(2 .. outputs + 2) = outputs + 1
    <3>1. PICK b \in Int : b = outputs + 2
      BY <1>3
    <3>2. Cardinality(2 .. b) = IF 2 > b THEN 0 ELSE b - 2 + 1
      BY FS_Interval
    <3> QED
      BY <1>3, <3>1, <3>2
  <2>5. Cardinality(2 .. outputs + 2) <= Cardinality(Out)
    <3> HIDE DEF Out
    <3> QED
      BY <2>2, <2>3, FS_Subset
  <2>6. Emitted > MaxOutputs
    <3> HIDE DEF Out
    <3> QED
      BY <1>3, <2>3, <2>4, <2>5
  <2> QED
    BY <2>6 DEF OverBudget
<1> HIDE DEF f, v
<1>14. CASE f.size > MaxFrame
  BY <1>3, <1>4, <1>9, <1>10, <1>12, <1>14
<1>15. CASE ~(f.size > MaxFrame) /\ completed
  BY <1>8, <1>9, <1>10, <1>15
<1>16. CASE ~(f.size > MaxFrame) /\ ~completed
  <2>1. f.size <= MaxFrame /\ \A h \in 1 .. i - 1 : stream[h].what # "complete"
    BY <1>3, <1>4, <1>7, <1>16
  <2>2. Right(i) <=> \/ i = 1 /\ f.what = "prelude"
                     \/ i > 1 /\ f.what = "output" /\ f.n = i - 2 /\ f.n < MaxOutputs
                     \/ i > 1 /\ f.what = "complete" /\ f.n = i - 2
    BY <1>9, <2>1
  <2>3. (~prelude /\ i = 1 /\ outputs = 0) \/ (prelude /\ i = outputs + 2)
    BY <1>6, <1>16
  <2>4. CASE f.what \in {"garbage", "deep", "alien"}
    BY <1>10, <1>12, <1>16, <2>2, <2>4
  <2>5. CASE f.what = "prelude"
    BY <1>3, <1>10, <1>16, <2>2, <2>3, <2>5
  <2>6. CASE f.what = "output"
    <3> HIDE DEF i
    <3> QED
      BY <1>3, <1>4, <1>5, <1>10, <1>13, <1>16, <2>2, <2>3, <2>6
  <2>7. CASE f.what = "complete"
    <3> HIDE DEF i
    <3> QED
      BY <1>3, <1>4, <1>5, <1>10, <1>16, <2>2, <2>3, <2>7
  <2> QED
    BY <1>4, <2>4, <2>5, <2>6, <2>7 DEF What
<1> QED
  BY <1>3, <1>14, <1>15, <1>16

LEMMA TakeKeeps ==
  ASSUME ReadInv, Take
  PROVE  ReadInv'
<1> DEFINE f == stream[taken + 1]
           v == Violation(f)
           good == v = "none"
<1>1. /\ StreamTypeOK /\ Bytes /\ Accepts /\ Reading /\ HasFrame
      /\ driver' = driver /\ at' = at /\ exit' = exit /\ returned' = returned
      /\ stream' = stream /\ torn' = torn /\ received' = received /\ eof' = eof
      /\ taken' = taken + 1
      /\ verdict' = IF good THEN verdict ELSE v
      /\ prelude' = (prelude \/ (good /\ f.what = "prelude"))
      /\ completed' = (completed \/ (good /\ f.what = "complete"))
      /\ outputs' = IF good /\ f.what = "output" THEN outputs + 1 ELSE outputs
  BY DEF ReadInv, Take, writerVars
<1>2. /\ Len(stream) \in Nat /\ taken \in 0 .. Len(stream) /\ taken = Accepted
      /\ received \in Nat /\ received <= MaxTotal
      /\ Total(stream, taken) \in Nat /\ Total(stream, taken) <= received
      /\ taken < Len(stream) =>
           /\ Total(stream, taken + 1) = Total(stream, taken) + f.size + 1
           /\ f.size \in Nat /\ Total(stream, taken + 1) \in Nat
  BY <1>1, ReaderNumbers
<1>3. taken < Len(stream) /\ Total(stream, taken + 1) <= received
  BY <1>1, InTermsOfTotal
<1>4. /\ taken + 1 \in 0 .. Len(stream)
      /\ Total(stream, taken + 1) \in Nat
      /\ Total(stream, taken) <= Total(stream, taken + 1)
  BY <1>2, <1>3
<1>5. /\ good => /\ Right(taken + 1) /\ ~completed
                 /\ \/ f.what = "prelude" /\ ~prelude
                    \/ f.what = "output" /\ prelude /\ outputs + 1 <= MaxOutputs
                    \/ f.what = "complete" /\ prelude
      /\ ~good => /\ ~Right(taken + 1)
                  /\ v \in {"malformed", "oversized", "unexpected", "duplicate",
                            "id_mismatch", "incomplete"}
                  /\ v = "oversized" => OverBudget
  BY <1>1, <1>3, ViolationIsExact
<1>6. /\ outputs \in Nat /\ MaxOutputs \in Nat /\ outputs <= MaxOutputs
      /\ prelude \in BOOLEAN /\ completed \in BOOLEAN
  BY <1>1, StreamAssumption DEF StreamTypeOK
<1> HIDE DEF v
<1>7. CASE ~good
  <2>1. prelude' = prelude /\ completed' = completed /\ outputs' = outputs /\ verdict' = v
    BY <1>1, <1>6, <1>7
  <2>2. /\ UNCHANGED <<writerVars, received, eof, prelude, completed, outputs>>
        /\ taken' \in 0 .. Len(stream) /\ taken <= taken'
        /\ Total(stream, taken') <= received
        /\ Total(stream, taken) <= Total(stream, taken')
        /\ Total(stream, taken') \in Nat
    BY <1>1, <1>2, <1>3, <1>4, <2>1 DEF writerVars
  <2>3. /\ Accepted < Len(stream) /\ ~Right(Accepted + 1)
        /\ verdict' # "ok" /\ (verdict' = "oversized" => OverBudget)
    BY <1>2, <1>3, <1>5, <1>7, <2>1
  <2>4. verdict' \in {"ok", "malformed", "oversized", "unexpected", "duplicate",
                      "id_mismatch", "incomplete"}
    BY <1>5, <1>7, <2>1
  <2> QED
    BY <1>1, <2>2, <2>3, <2>4, VerdictKeeps
<1>8. CASE good
  <2>1. verdict' = verdict /\ Reading'
    BY <1>1, <1>8 DEF Reading
  <2>2. outputs' \in 0 .. MaxOutputs
    BY <1>1, <1>5, <1>6, <1>8
  <2>3. StreamTypeOK'
    BY <1>1, <1>4, <1>6, <2>1, <2>2 DEF StreamTypeOK
  <2>4. Bytes'
    <3>1. received - Total(stream, taken + 1) <= MaxFrame + 1
      <4>1. received - Total(stream, taken) <= MaxFrame + 1 /\ MaxFrame \in Nat
        BY <1>1, StreamAssumption DEF Bytes
      <4> QED
        BY <1>2, <1>4, <4>1
    <3>2. AllBytes' = AllBytes
      BY <1>1 DEF AllBytes
    <3> QED
      BY <1>1, <1>2, <1>3, <3>1, <3>2 DEF Bytes
  <2>5. \A i : Right(i)' <=> Right(i)
    BY <1>1 DEF Right
  <2>6. /\ Accepted' = taken + 1 /\ taken + 1 \in Nat /\ taken \in Nat
        /\ prelude' /\ (completed' <=> f.what = "complete")
        /\ f.what = "prelude" => taken = 0 /\ outputs' = 0
        /\ f.what = "output" => taken = outputs + 1 /\ outputs' = outputs + 1
        /\ f.what = "complete" => taken = outputs + 1 /\ outputs' = outputs
    <3>1. /\ ~prelude => taken = 0 /\ outputs = 0
          /\ prelude => taken = outputs + 1
      BY <1>1, <1>2, <1>5, <1>8 DEF Accepts, Accepted
    <3>2. CASE f.what = "prelude"
      <4>1. prelude' = TRUE /\ completed' = FALSE /\ outputs' = outputs
        BY <1>1, <1>5, <1>6, <1>8, <3>2
      <4>2. Accepted' = outputs + 1
        BY <1>6, <4>1 DEF Accepted
      <4> QED
        BY <1>2, <1>5, <1>6, <1>8, <3>1, <3>2, <4>1, <4>2
    <3>3. CASE f.what = "output"
      <4>1. prelude' = TRUE /\ completed' = FALSE /\ outputs' = outputs + 1
        BY <1>1, <1>5, <1>6, <1>8, <3>3
      <4>2. Accepted' = outputs + 2
        BY <1>6, <4>1 DEF Accepted
      <4> QED
        BY <1>2, <1>5, <1>6, <1>8, <3>1, <3>3, <4>1, <4>2
    <3>4. CASE f.what = "complete"
      <4>1. prelude' = TRUE /\ completed' = TRUE /\ outputs' = outputs
        BY <1>1, <1>5, <1>6, <1>8, <3>4
      <4>2. Accepted' = outputs + 2
        BY <1>6, <4>1 DEF Accepted
      <4> QED
        BY <1>2, <1>5, <1>6, <1>8, <3>1, <3>4, <4>1, <4>2
    <3> QED
      BY <1>5, <1>8, <3>2, <3>3, <3>4
  <2>7. \A i \in 1 .. Accepted' : Right(i)'
    <3>1. \A i \in 1 .. taken + 1 : i \in 1 .. taken \/ i = taken + 1
      BY <2>6
    <3>2. \A i \in 1 .. taken + 1 : Right(i)
      BY <1>1, <1>2, <1>5, <1>8, <3>1 DEF Accepts
    <3> QED
      BY <2>5, <2>6, <3>2
  <2>8. \A i \in 2 .. outputs' + 1 : stream[i].what = "output"
    <3>1. CASE f.what = "output"
      <4>1. \A i \in 2 .. outputs' + 1 : i \in 2 .. outputs + 1 \/ i = taken + 1
        BY <1>6, <2>6, <3>1
      <4> QED
        BY <1>1, <3>1, <4>1 DEF Accepts
    <3>2. CASE f.what # "output"
      BY <1>1, <1>8, <3>2 DEF Accepts
    <3> QED
      BY <3>1, <3>2
  <2>9. \A i \in 1 .. taken + 1 :
          stream[i].what = "complete" <=> completed' /\ i = outputs' + 2
    <3>1. \A i \in 1 .. taken : stream[i].what # "complete"
      BY <1>1, <1>2, <1>5, <1>8 DEF Accepts
    <3>2. ASSUME NEW i \in 1 .. taken + 1
          PROVE  stream[i].what = "complete" <=> completed' /\ i = outputs' + 2
      <4>1. CASE i = taken + 1
        BY <1>5, <1>6, <1>8, <2>6, <4>1
      <4>2. CASE i # taken + 1
        <5>1. stream[i].what # "complete"
          BY <2>6, <3>1, <4>2
        <5>2. completed' => i # outputs' + 2
          BY <1>6, <2>6, <4>2
        <5> QED
          BY <5>1, <5>2
      <4> QED
        BY <4>1, <4>2
    <3> QED
      BY <3>2
  <2>10. Accepts'
    BY <1>1, <2>6, <2>7, <2>8, <2>9 DEF Accepts
  <2> QED
    BY <2>1, <2>3, <2>4, <2>10 DEF ReadInv
<1> QED
  BY <1>7, <1>8

LEMMA ReadInvOf == StreamInv <=> ReadInv /\ Importable
  BY DEF StreamInv, ReadInv

\* A payload that writes a frame and lives on.
LEMMA WriterKeeps ==
  ASSUME ReadInv, NEW f \in Frames, stream' = Append(stream, f),
         at # "ended", at' \in {"starting", "running", "emitted", "completed"},
         UNCHANGED <<driver, exit, returned, torn, readerVars>>
  PROVE  ReadInv'
<1>1. StreamTypeOK
  BY DEF ReadInv
<1>2. stream' \in Seq(Frames) /\ Len(stream') = Len(stream) + 1 /\ Len(stream) \in Nat
  BY <1>1, Appended, StreamTotals
<1>3. taken' \in 0 .. Len(stream')
  BY <1>1, <1>2 DEF StreamTypeOK, readerVars
<1>4. StreamTypeOK'
  BY <1>1, <1>2, <1>3 DEF StreamTypeOK, readerVars
<1>5. Bytes' /\ Accepts' /\ (~Reading => Judged)'
  BY AppendKeeps
<1> QED
  BY <1>4, <1>5 DEF ReadInv

LEMMA PutsWrites ==
  ASSUME NEW what \in What, NEW n \in Nat, Puts(what, n)
  PROVE  /\ \E f \in Frames : f.what = what /\ stream' = Append(stream, f)
         /\ UNCHANGED <<driver, exit, torn, readerVars>>
<1>1. PICK size \in FrameSizes : stream' = Append(stream, Frame(what, n, size))
  BY DEF Puts
<1>2. Frame(what, n, size) \in Frames /\ Frame(what, n, size).what = what
  BY StreamAssumption DEF Frame, Frames
<1> QED
  BY <1>1, <1>2 DEF Puts

LEMMA StreamInitHolds == StreamInit => StreamInv
<1> SUFFICES ASSUME StreamInit
             PROVE  StreamInv
  OBVIOUS
<1>1. StreamTypeOK
  <2>1. stream \in Seq(Frames) /\ Len(stream) = 0
    BY DEF StreamInit
  <2>2. torn \in Nat /\ outputs \in 0 .. MaxOutputs /\ taken \in 0 .. Len(stream)
    BY <2>1, StreamAssumption DEF StreamInit
  <2> QED
    BY <2>1, <2>2 DEF StreamInit, StreamTypeOK
<1>2. Len(stream) = 0 /\ Total(stream, 0) = 0
  <2>1. stream = <<>> /\ Len(stream) = 0
    BY DEF StreamInit
  <2>2. \A i \in 1 .. 0 : stream[i].size \in Nat
    OBVIOUS
  <2> QED
    BY <2>1, <2>2, TotalRecursion
<1>3. Bytes
  BY <1>2, StreamAssumption DEF StreamInit, Bytes, AllBytes, Reading
<1>4. Accepts
  BY DEF StreamInit, Accepts, Accepted
<1>5. Importable
  BY <1>2 DEF StreamInit, Importable
<1>6. Reading
  BY DEF StreamInit, Reading
<1> QED
  BY <1>1, <1>3, <1>4, <1>5, <1>6 DEF StreamInv

\* The reader sees the stream, not what the entry point returned.
LEMMA ReturnKeeps ==
  ASSUME ReadInv, returned' \in {"nothing", "json", "other"},
         UNCHANGED <<driver, at, exit, stream, torn, readerVars>>
  PROVE  ReadInv'
<1>1. UNCHANGED <<received, taken, eof, prelude, completed, outputs, verdict>>
  BY DEF readerVars
<1>2. StreamTypeOK' /\ Bytes'
  BY <1>1 DEF ReadInv, StreamTypeOK, Bytes, AllBytes, Reading
<1>3. Accepted' = Accepted /\ (\A i : Right(i)' <=> Right(i))
  BY <1>1 DEF Accepted, Right
<1>4. Accepts'
  <2>1. \A i \in 1 .. Accepted' : Right(i)'
    BY <1>3 DEF ReadInv, Accepts
  <2> QED
    BY <1>1, <1>3, <2>1 DEF ReadInv, Accepts, Reading
<1>5. ~Reading' => Judged'
  <2>1. Right(Accepted + 1)' <=> Right(Accepted + 1)
    BY <1>3 DEF Right
  <2>2. AllBytes' = AllBytes /\ (OverBudget' <=> OverBudget)
    BY DEF AllBytes, OverBudget, Emitted
  <2> QED
    BY <1>1, <1>3, <2>1, <2>2 DEF ReadInv, Judged, Reading
<1> QED
  BY <1>2, <1>4, <1>5 DEF ReadInv, Reading

LEMMA StreamStutters ==
  ASSUME StreamInv, UNCHANGED streamVars
  PROVE  StreamInv'
<1>1. UNCHANGED <<driver, at, exit, returned, stream, torn, readerVars>>
  BY DEF streamVars, writerVars
<1>2. ReadInv'
  BY <1>1, ReturnKeeps DEF StreamInv, ReadInv, StreamTypeOK
<1>3. Importable'
  BY <1>1 DEF StreamInv, Importable
<1> QED
  BY <1>2, <1>3 DEF StreamInv, ReadInv

LEMMA StreamStep ==
  ASSUME StreamInv, StreamNext
  PROVE  StreamInv'
<1>1. ReadInv /\ Importable /\ StreamTypeOK /\ Len(stream) \in Nat
  BY ReadInvOf, StreamTotals DEF StreamInv
<1>2. Emitted \in Nat
  BY <1>1, EmittedType
<1>3. CASE Prelude
  <2>1. /\ at = "starting" /\ driver # "rogue" /\ at' = "running" /\ returned' = returned
        /\ Puts("prelude", 0)
    BY <1>3 DEF Prelude
  <2>2. /\ UNCHANGED <<driver, exit, torn, readerVars>>
        /\ \E f \in Frames : f.what = "prelude" /\ stream' = Append(stream, f)
    BY <2>1, PutsWrites DEF What
  <2>3. PICK f \in Frames : f.what = "prelude" /\ stream' = Append(stream, f)
    BY <2>2
  <2>4. ReadInv'
    BY <1>1, <2>1, <2>2, <2>3, WriterKeeps
  <2>5. /\ Len(stream') = Len(stream) + 1
        /\ stream'[Len(stream) + 1] = f
    BY <1>1, <2>3, Appended
  <2>6. Importable'
    BY <1>1, <2>1, <2>2, <2>3, <2>5 DEF Importable
  <2> QED
    BY <2>4, <2>6, ReadInvOf DEF StreamInv, ReadInv
<1>4. CASE Emit
  <2>1. /\ at = "running" /\ returned' = returned /\ Puts("output", Emitted)
        /\ \/ driver = "general" /\ at' = at
           \/ driver = "importable" /\ returned = "json" /\ at' = "emitted"
    BY <1>4 DEF Emit
  <2>2. /\ UNCHANGED <<driver, exit, torn, readerVars>>
        /\ \E f \in Frames : f.what = "output" /\ stream' = Append(stream, f)
    BY <1>2, <2>1, PutsWrites DEF What
  <2>3. PICK f \in Frames : f.what = "output" /\ stream' = Append(stream, f)
    BY <2>2
  <2>4. ReadInv'
    BY <1>1, <2>1, <2>2, <2>3, WriterKeeps
  <2>5. /\ Len(stream') = Len(stream) + 1
        /\ stream'[Len(stream) + 1] = f
        /\ \A i \in 1 .. Len(stream) : stream'[i] = stream[i]
    BY <1>1, <2>3, Appended
  <2>6. Importable'
    <3>1. CASE driver = "importable"
      <4>1. Len(stream) = 1 /\ Len(stream') = 2 /\ at' \in {"emitted", "completed"}
        <5>1. Len(stream) = 1
          BY <1>1, <2>1, <3>1 DEF Importable
        <5>2. Len(stream') = 2
          BY <2>5, <5>1
        <5>3. at' \in {"emitted", "completed"}
          BY <2>1, <3>1
        <5> QED
          BY <5>1, <5>2, <5>3
      <4>2. /\ stream'[2] = f
            /\ \A i \in 1 .. 1 : stream'[i] = stream[i]
        BY <2>5, <4>1
      <4> QED
        BY <1>1, <2>1, <2>3, <3>1, <4>1, <4>2 DEF Importable
    <3>2. CASE driver # "importable"
      BY <2>2, <3>2 DEF Importable
    <3> QED
      BY <3>1, <3>2
  <2> QED
    BY <2>4, <2>6 DEF StreamInv, ReadInv
<1>5. CASE Complete
  <2>1. /\ at = IF driver = "importable" THEN "emitted" ELSE "running"
        /\ at' = "completed" /\ returned' = returned /\ Puts("complete", Emitted)
    BY <1>5 DEF Complete
  <2>2. /\ UNCHANGED <<driver, exit, torn, readerVars>>
        /\ \E f \in Frames : f.what = "complete" /\ stream' = Append(stream, f)
    BY <1>2, <2>1, PutsWrites DEF What
  <2>3. PICK f \in Frames : f.what = "complete" /\ stream' = Append(stream, f)
    BY <2>2
  <2>4. ReadInv'
    BY <1>1, <2>1, <2>2, <2>3, WriterKeeps
  <2>5. /\ Len(stream') = Len(stream) + 1
        /\ stream'[Len(stream) + 1] = f
        /\ \A i \in 1 .. Len(stream) : stream'[i] = stream[i]
    BY <1>1, <2>3, Appended
  <2>6. Importable'
    <3>1. CASE driver = "importable"
      <4>1. Len(stream) = 2 /\ Len(stream') = 3 /\ at' \in {"emitted", "completed"}
        <5>1. Len(stream) = 2
          BY <1>1, <2>1, <3>1 DEF Importable
        <5>2. Len(stream') = 3
          BY <2>5, <5>1
        <5>3. at' \in {"emitted", "completed"}
          BY <2>1, <3>1
        <5> QED
          BY <5>1, <5>2, <5>3
      <4>2. /\ stream'[3] = f
            /\ \A i \in 1 .. 2 : stream'[i] = stream[i]
        BY <2>5, <4>1
      <4> QED
        BY <1>1, <2>1, <2>3, <3>1, <4>1, <4>2 DEF Importable
    <3>2. CASE driver # "importable"
      BY <2>2, <3>2 DEF Importable
    <3> QED
      BY <3>1, <3>2
  <2> QED
    BY <2>4, <2>6 DEF StreamInv, ReadInv
<1>6. CASE Rogue
  <2>1. /\ driver = "rogue" /\ at # "ended"
        /\ UNCHANGED <<driver, at, exit, returned, torn, readerVars>>
    BY <1>6 DEF Rogue
  <2>2. PICK f \in RogueFrames : stream' = Append(stream, f)
    BY <1>6 DEF Rogue
  <2>3. f \in Frames
    BY StreamAssumption DEF RogueFrames, Frames, Frame, What
  <2>4. at' \in {"starting", "running", "emitted", "completed"}
    BY <1>1, <2>1 DEF StreamTypeOK
  <2>5. ReadInv'
    BY <1>1, <2>1, <2>2, <2>3, <2>4, WriterKeeps
  <2>6. Importable'
    BY <2>1 DEF Importable
  <2> QED
    BY <2>5, <2>6 DEF StreamInv, ReadInv
<1>7. CASE Ends
  <2>1. ReadInv'
    BY <1>1, <1>7, EndKeeps
  <2>2. Importable'
    BY <1>1, <1>7 DEF Ends, Importable
  <2> QED
    BY <2>1, <2>2 DEF StreamInv, ReadInv
<1>8. CASE Reader
  <2>1. ReadInv'
    BY <1>1, <1>8, FillKeeps, OverlongKeeps, FinishKeeps, TakeKeeps DEF Reader
  <2>2. UNCHANGED writerVars
    BY <1>8 DEF Reader, Fill, Overlong, Finish, Take
  <2>3. Importable'
    BY <1>1, <2>2 DEF Importable, writerVars
  <2> QED
    BY <2>1, <2>3 DEF StreamInv, ReadInv
<1>9. CASE Returns
  <2>1. /\ driver = "importable" /\ at = "running" /\ returned = "nothing"
        /\ returned' \in {"json", "other"}
        /\ UNCHANGED <<driver, at, exit, stream, torn, readerVars>>
    BY <1>9 DEF Returns
  <2>2. ReadInv'
    BY <1>1, <2>1, ReturnKeeps
  <2>3. Importable'
    BY <1>1, <2>1 DEF Importable
  <2> QED
    BY <2>2, <2>3 DEF StreamInv, ReadInv
<1> QED
  BY <1>3, <1>4, <1>5, <1>6, <1>7, <1>8, <1>9 DEF StreamNext, Payload

-----------------------------------------------------------------------------
(* The theorems.                                                            *)

LEMMA JsonStep ==
  ASSUME JsonInv, [JsonNext]_jsonVars
  PROVE  /\ JsonInv'
         /\ InNext \/ UNCHANGED inVars
<1>1. CASE mode = "process" /\ StreamNext /\ UNCHANGED <<mode, inVars>>
  <2>1. StreamInv' /\ InInv'
    BY <1>1, StreamStep, InStutters DEF JsonInv
  <2> QED
    BY <1>1, <2>1 DEF JsonInv
<1>2. CASE mode = "in_process" /\ InNext /\ UNCHANGED <<mode, streamVars>>
  <2>1. StreamInv' /\ InInv'
    BY <1>2, StreamStutters, InStep DEF JsonInv
  <2> QED
    BY <1>2, <2>1 DEF JsonInv, streamVars, writerVars
<1>3. CASE UNCHANGED jsonVars
  <2>1. UNCHANGED <<mode, streamVars, inVars>>
    BY <1>3 DEF jsonVars
  <2>2. StreamInv' /\ InInv'
    BY <2>1, StreamStutters, InStutters DEF JsonInv
  <2> QED
    BY <2>1, <2>2 DEF JsonInv, streamVars, writerVars
<1> QED
  BY <1>1, <1>2, <1>3 DEF JsonNext

\* Reader, writer, thread and task keep the inductive invariant, for every budget,
\* chunk size and number of frames.
THEOREM JsonInvariant == JsonSpec => []JsonInv
<1>1. JsonInit => JsonInv
  <2> SUFFICES ASSUME JsonInit
               PROVE  JsonInv
    OBVIOUS
  <2>1. StreamInv /\ InInv
    BY StreamInitHolds, InInitHolds DEF JsonInit
  <2> QED
    BY <2>1 DEF JsonInit, JsonInv
<1>2. JsonInv /\ [JsonNext]_jsonVars => JsonInv'
  BY JsonStep
<1> QED
  BY <1>1, <1>2, PTL DEF JsonSpec

\* Whatever the payload writes and wherever the reads cut it, read_protocol_stream
\* accepts exactly the well-formed streams within their budgets, keeps the outputs
\* at their start, and blames a budget only if it was crossed.
THEOREM ReaderMeetsReference == JsonSpec => []ReadsAsReference
<1>1. ASSUME StreamInv
      PROVE  ReadsAsReference
  <2>1. /\ StreamTypeOK /\ Bytes /\ Accepts /\ (~Reading => Judged) /\ Written = AllBytes
        /\ ~Reading <=> verdict # "reading"
    BY <1>1, InTermsOfTotal DEF StreamInv, Reading
  <2>2. /\ Accepted \in 0 .. Len(stream) /\ outputs \in Nat /\ Len(stream) \in Nat
        /\ received \in Nat /\ MaxTotal \in Nat /\ AllBytes \in Nat /\ received <= AllBytes
    <3>1. Total(stream, Len(stream)) \in Nat /\ Len(stream) \in Nat
      <4>1. Len(stream) \in Nat /\ Len(stream) \in 0 .. Len(stream)
        BY <2>1 DEF StreamTypeOK
      <4> QED
        BY <2>1, <4>1, StreamTotals
    <3>2. torn \in Nat /\ received \in Nat /\ MaxTotal \in Nat
      BY <2>1, StreamAssumption DEF StreamTypeOK
    <3>3. AllBytes \in Nat
      BY <3>1, <3>2 DEF AllBytes
    <3> QED
      BY <2>1, <3>1, <3>2, <3>3, AcceptedType DEF Bytes
  <2>3. /\ prelude => Accepted = (IF completed THEN outputs + 2 ELSE outputs + 1)
        /\ ~prelude => Accepted = 0 /\ outputs = 0 /\ ~completed
    BY <2>1 DEF Accepts, Accepted
  <2>4. /\ \A i \in 1 .. Accepted : Right(i)
        /\ \A i \in 2 .. outputs + 1 : stream[i].what = "output"
        /\ \A i \in 1 .. Accepted :
             stream[i].what = "complete" <=> completed /\ i = outputs + 2
    BY <2>1 DEF Accepts
  <2>5. \A i \in outputs + 2 .. Accepted : stream[i].what # "output"
    <3>1. ASSUME NEW i \in outputs + 2 .. Accepted
          PROVE  stream[i].what # "output"
      <4>1. completed /\ i = outputs + 2 /\ i \in 1 .. Accepted
        BY <2>2, <2>3
      <4>2. stream[i].what = "complete"
        BY <2>4, <4>1
      <4> QED
        BY <4>2
    <3> QED
      BY <3>1
  <2>6. ASSUME verdict # "reading"
        PROVE  verdict = "ok" <=> WellFormed /\ at = "ended"
    <3>1. Judged
      BY <2>1, <2>6
    <3>2. CASE verdict = "oversized" /\ received > MaxTotal
      BY <2>1, <2>2, <3>2 DEF WellFormed
    <3>3. CASE /\ Accepted < Len(stream) /\ ~Right(Accepted + 1)
               /\ verdict # "ok"
      <4>1. Accepted + 1 \in 1 .. Len(stream)
        BY <2>2, <3>3
      <4> QED
        BY <3>3, <4>1 DEF WellFormed
    <3>4. CASE /\ at = "ended" /\ Accepted = Len(stream)
               /\ received = AllBytes /\ received <= MaxTotal
               /\ verdict = "ok" <=> completed /\ torn = 0
      <4>1. completed <=> \E i \in 1 .. Len(stream) : stream[i].what = "complete"
        <5>1. ASSUME completed
              PROVE  \E i \in 1 .. Len(stream) : stream[i].what = "complete"
          <6>1. outputs + 2 \in 1 .. Accepted
            BY <2>2, <2>3, <5>1
          <6> QED
            BY <2>4, <3>4, <5>1, <6>1
        <5>2. ASSUME NEW i \in 1 .. Len(stream), stream[i].what = "complete"
              PROVE  completed
          BY <2>4, <3>4, <5>2
        <5> QED
          BY <5>1, <5>2
      <4>2. \A i \in 1 .. Len(stream) : Right(i)
        BY <2>4, <3>4
      <4> QED
        BY <2>1, <3>4, <4>1, <4>2 DEF WellFormed
    <3>5. CASE torn > MaxFrame /\ verdict = "oversized"
      <4>1. torn # 0
        BY <3>5, StreamAssumption
      <4> QED
        BY <3>5, <4>1 DEF WellFormed
    <3> QED
      BY <3>1, <3>2, <3>3, <3>4, <3>5 DEF Judged
  <2>7. \A i \in 1 .. outputs : Right(i + 1) /\ stream[i + 1].what = "output"
    <3>1. ASSUME NEW i \in 1 .. outputs
          PROVE  i + 1 \in 1 .. Accepted /\ i + 1 \in 2 .. outputs + 1
      BY <2>2, <2>3
    <3> QED
      BY <2>4, <3>1
  <2>8. ASSUME ~Reading, received <= MaxTotal,
               NEW i \in outputs + 2 .. Len(stream), stream[i].what = "output"
        PROVE  \E h \in 1 .. i : ~Right(h)
    <3>1. ~(i <= Accepted)
      BY <2>2, <2>5, <2>8
    <3>2. ~(received > MaxTotal) /\ Accepted # Len(stream)
      BY <2>2, <2>8, <3>1
    <3>3. ~Right(Accepted + 1)
      BY <2>1, <2>8, <3>2 DEF Judged
    <3>4. Accepted + 1 \in 1 .. i
      BY <2>2, <3>1
    <3> QED
      BY <3>3, <3>4
  <2>9. ASSUME verdict = "oversized"
        PROVE  Written > MaxTotal \/ torn > MaxFrame \/ OverBudget
    BY <2>1, <2>2, <2>9 DEF Judged
  <2> QED
    BY <2>6, <2>7, <2>8, <2>9 DEF ReadsAsReference, OverBudget
<1>2. JsonInv => ReadsAsReference
  BY <1>1 DEF JsonInv
<1> QED
  BY <1>2, JsonInvariant, PTL

\* However much a payload writes, the reader holds one byte more than a frame may
\* have at most, and reads one byte more than a stream may have at most.
THEOREM ReaderStaysInBudget == JsonSpec => []BufferBounded
<1>1. JsonInv => BufferBounded
  BY InTermsOfTotal DEF JsonInv, StreamInv, Bytes, BufferBounded
<1> QED
  BY <1>1, JsonInvariant, PTL

\* A stop in effect when the entry point was left decides the result of
\* ImportableJsonExecutor, whatever the entry point did.
THEOREM StopDecides == JsonSpec => []StopOutranksBody
<1>1. JsonInv => StopOutranksBody
  BY DEF JsonInv, InInv, Stops
<1> QED
  BY <1>1, JsonInvariant, PTL

\* A token cancelled before the thread has looked at it keeps the entry point from
\* ever being called.
THEOREM LateCancelBars == JsonSpec => NeverEntersLate
<1>1. JsonInv => (token /\ BeforeLook => Barred)
  BY DEF JsonInv, InInv, Stages, Barred, BeforeLook
<1>2. JsonInv /\ Barred /\ [JsonNext]_jsonVars => Barred'
  BY JsonStep, BarStays DEF JsonInv
<1>3. Barred => ~entered
  BY DEF Barred
<1> QED
  BY <1>1, <1>2, <1>3, JsonInvariant, PTL DEF JsonSpec, NeverEntersLate

\* What an in-process call has returned stands, and holds the facts of the attempt
\* if the entry point was called.
THEOREM AnswersAreFinal == JsonSpec => AnswerStands
<1>1. ASSUME JsonInv, [JsonNext]_jsonVars
      PROVE  [/\ answer # "none" => UNCHANGED answer
              /\ entered => answer' # "interrupted_fresh"]_inVars
  BY <1>1, JsonStep, AnswerStays DEF JsonInv
<1> QED
  BY <1>1, JsonInvariant, PTL DEF JsonSpec, AnswerStands

\* parse_importable_json_result parses a result only if the entry point returned
\* strict JSON, by either route, and parses it unless the call was stopped or the
\* child or its stream failed.
THEOREM ParsedIsReturned == JsonSpec => []ParsesWhatReturned
<1>1. ASSUME JsonInv, ReadsAsReference, Completion.over, driver = "importable"
      PROVE  /\ Parses(Completion) => ReturnedJson
             /\ ReturnedJson => \/ Parses(Completion)
                                \/ /\ mode = "in_process"
                                   /\ answer \in {"cancelled", "wall_time", "interrupted"}
                                \/ mode = "process" /\ (exit # "zero" \/ ~WellFormed)
  <2>1. CASE mode = "in_process"
    <3>1. /\ Completion.over <=> task = "returned"
          /\ Parses(Completion) <=> answer = "value"
          /\ ReturnedJson <=> how = "json"
      BY <2>1 DEF Completion, Parses, ReturnedJson
    <3>2. /\ answer # "none"
          /\ answer # "interrupted" => answer = future \/ (answer = "interrupted_fresh" /\ Barred)
          /\ future # "pending" => future = result
          /\ future \in Answers \cup {"pending"}
          /\ answer \in Answers \cup {"none", "interrupted", "interrupted_fresh"}
      BY <1>1, <3>1 DEF JsonInv, InInv, InTypeOK, Answered
    <3>3. /\ how = "json" => entered
          /\ result = "value" => how = "json"
          /\ how = "json" /\ result # "none" => result \in {"value", "cancelled", "wall_time"}
      BY <1>1 DEF JsonInv, InInv, Stages
    <3>4. answer = "value" => how = "json"
      BY <3>2, <3>3 DEF Answers, Started
    <3>5. how = "json" => answer \in {"value", "cancelled", "wall_time", "interrupted"}
      BY <3>2, <3>3 DEF Answers, Started, Barred
    <3> QED
      BY <2>1, <3>1, <3>4, <3>5
  <2>2. CASE mode = "process"
    <3>1. /\ Completion.over <=> verdict # "reading" /\ at = "ended"
          /\ Parses(Completion) <=> verdict = "ok" /\ exit = "zero" /\ outputs = 1
          /\ ReturnedJson <=> returned = "json"
      BY <1>1, <2>2 DEF Completion, Parses, ReturnedJson
    <3>2. Importable /\ Accepts /\ StreamTypeOK /\ Judged
      BY <1>1, <3>1 DEF JsonInv, StreamInv, Reading
    <3>3. /\ Accepted \in 0 .. Len(stream) /\ outputs \in Nat /\ Len(stream) \in Nat
      BY <3>2, AcceptedType, StreamTotals
    <3>4. ASSUME verdict = "ok"
          PROVE  outputs = 1 /\ returned = "json"
      <4>1. Accepted = Len(stream) /\ completed
        BY <3>2, <3>4 DEF Judged
      <4>2. /\ outputs + 2 = Len(stream)
            /\ stream[outputs + 2].what = "complete"
        <5>1. Accepted = outputs + 2
          BY <3>2, <4>1 DEF Accepts, Accepted
        <5>2. outputs + 2 \in 1 .. Accepted
          BY <3>3, <5>1
        <5> QED
          BY <3>2, <4>1, <5>1, <5>2 DEF Accepts
      <4>3. outputs = 0 \/ outputs = 1
        BY <1>1, <3>2, <3>3, <4>2 DEF Importable
      <4>4. outputs # 0
        BY <1>1, <3>2, <4>2 DEF Importable
      <4> QED
        BY <1>1, <3>2, <4>2, <4>3, <4>4 DEF Importable
    <3>5. verdict = "ok" <=> WellFormed
      BY <1>1, <3>1 DEF ReadsAsReference
    <3> QED
      BY <2>2, <3>1, <3>4, <3>5
  <2> QED
    BY <1>1, <2>1, <2>2 DEF JsonInv
<1>2. JsonInv /\ ReadsAsReference => ParsesWhatReturned
  BY <1>1 DEF ParsesWhatReturned
<1> QED
  BY <1>2, JsonInvariant, ReaderMeetsReference, PTL

=============================================================================
