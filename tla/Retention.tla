------------------------------ MODULE Retention ------------------------------
(***************************************************************************)
(* StreamRetention of execution/retention.py: what is kept of one output    *)
(* stream, its first bytes and its last ones, while the stream goes by in   *)
(* chunks of any size.  A byte is its position in the stream.               *)
(***************************************************************************)
EXTENDS Integers, Sequences

\* `budget` is [head, tail], or Unbudgeted: everything is kept in the head.
CONSTANT Unbudgeted

Fresh == [head |-> <<>>, tail |-> <<>>, produced |-> 0, dropped |-> 0]

Smaller(m, n) == IF m < n THEN m ELSE n

\* The bytes m + 1 .. m + n of a stream.
Bytes(m, n) == [i \in 1 .. n |-> m + i]

\* offer: the head fills first, the rest goes through the tail, whose oldest
\* bytes are dropped.  A tail of no bytes drops all of it.
Offer(kept, chunk, budget) ==
  LET room == IF budget = Unbudgeted THEN Len(chunk) ELSE budget.head - Len(kept.head)
      taken == Smaller(room, Len(chunk))
      tail == kept.tail \o SubSeq(chunk, taken + 1, Len(chunk))
      over == IF budget = Unbudgeted \/ Len(tail) <= budget.tail THEN 0
              ELSE Len(tail) - budget.tail
  IN  [head |-> kept.head \o SubSeq(chunk, 1, taken),
       tail |-> SubSeq(tail, over + 1, Len(tail)),
       produced |-> kept.produced + Len(chunk),
       dropped |-> kept.dropped + over]

\* What is to be kept of the first n bytes, however they were cut up.
Retained(n, budget) ==
  LET h == IF budget = Unbudgeted THEN n ELSE Smaller(n, budget.head)
      t == IF budget = Unbudgeted THEN 0 ELSE Smaller(n - h, budget.tail)
  IN  [head |-> Bytes(0, h), tail |-> Bytes(n - t, t),
       produced |-> n, dropped |-> n - h - t]
=============================================================================
