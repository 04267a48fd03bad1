--------------------------- MODULE ProtocolStream ---------------------------
(***************************************************************************)
(* The protected protocol: the writer a Python payload is wrapped in        *)
(* (runtime/bootstrap.py), and read_protocol_stream (runtime/protocol.py),  *)
(* which reads what arrives under byte, frame and output budgets.           *)
(*                                                                          *)
(* A frame is what it says and how many bytes it takes before its LF.  The  *)
(* payload is trusted to be neither correct nor alive: it may die inside a  *)
(* frame, and a rogue one finds the descriptor and writes what it likes.    *)
(***************************************************************************)
EXTENDS Integers, Sequences, FiniteSetsExt

CONSTANTS MaxFrame,    \* protocol_frame_bytes
          MaxTotal,    \* protocol_total_bytes
          MaxOutputs,  \* protocol_output_count
          ChunkBytes,  \* _CHUNK_BYTES
          MaxFrames,   \* bound on the frames of a stream
          FrameSizes,  \* the sizes frames may have, whoever writes them
          Numbers      \* the numbers a rogue claims

ASSUME StreamAssumption ==
  /\ {MaxFrame, MaxTotal, ChunkBytes} \subseteq Nat \ {0}
  /\ {MaxOutputs, MaxFrames} \subseteq Nat
  /\ FrameSizes \subseteq Nat /\ Numbers \subseteq Nat

VARIABLES
  driver,     \* the payload: importable, any other driver, or rogue
  at,         \* where the payload stands
  exit,       \* how its process ended
  returned,   \* what its entry point has returned
  stream,     \* the frames in the pipe, from the first
  torn,       \* bytes of a frame cut short by the end of the payload
  received,   \* bytes_received
  taken,      \* frames taken from the buffer
  eof,        \* _at_eof
  prelude,    \* _prelude_seen
  completed,  \* _completed
  outputs,    \* the number of accepted outputs
  verdict     \* reading, ok, or the code of the failure

writerVars == <<driver, at, exit, returned, stream, torn>>
readerVars == <<received, taken, eof, prelude, completed, outputs, verdict>>
streamVars == <<writerVars, readerVars>>

Frame(what, n, size) == [what |-> what, n |-> n, size |-> size]

\* "alien" is a prelude of another request, "deep" nests below the depth budget,
\* "garbage" is not a frame at all.
What == {"prelude", "alien", "output", "complete", "garbage", "deep"}
Frames == [what : What, n : Nat, size : FrameSizes]

\* The state has its types.
StreamTypeOK ==
  /\ driver \in {"importable", "general", "rogue"}
  /\ at \in {"starting", "running", "emitted", "completed", "ended"}
  /\ exit \in {"none", "zero", "nonzero", "signaled"}
  /\ returned \in {"nothing", "json", "other"}
  /\ stream \in Seq(Frames) /\ torn \in Nat
  /\ received \in Nat /\ taken \in 0 .. Len(stream)
  /\ {eof, prelude, completed} \subseteq BOOLEAN
  /\ outputs \in 0 .. MaxOutputs
  /\ verdict \in {"reading", "ok", "malformed", "oversized", "unexpected", "duplicate",
                  "id_mismatch", "incomplete"}

StreamInit ==
  /\ driver \in {"importable", "general", "rogue"}
  /\ at = "starting" /\ exit = "none" /\ returned = "nothing"
  /\ stream = <<>> /\ torn = 0
  /\ received = 0 /\ taken = 0 /\ eof = FALSE
  /\ prelude = FALSE /\ completed = FALSE /\ outputs = 0
  /\ verdict = "reading"

-----------------------------------------------------------------------------
(* The payload, in the wrapper of bootstrap.py.                             *)

\* Bytes of the first k frames, their terminators included.
Length(k) ==
  LET sum[i \in 0 .. k] == IF i = 0 THEN 0 ELSE sum[i - 1] + stream[i].size + 1
  IN  sum[k]

Written == Length(Len(stream)) + torn

Emitted == Cardinality({i \in 1 .. Len(stream) : stream[i].what = "output"})

\* _frame: a whole frame, flushed before the call returns.
Puts(what, n) ==
  /\ Len(stream) < MaxFrames
  /\ \E size \in FrameSizes : stream' = Append(stream, Frame(what, n, size))
  /\ UNCHANGED <<driver, exit, torn, readerVars>>

\* The request was read to its end and is canonical.
Prelude ==
  /\ at = "starting" /\ driver # "rogue"
  /\ Puts("prelude", 0)
  /\ at' = "running"
  /\ UNCHANGED returned

\* The entry point of an importable driver returns, once.
Returns ==
  /\ driver = "importable" /\ at = "running" /\ returned = "nothing"
  /\ returned' \in {"json", "other"}
  /\ UNCHANGED <<driver, at, exit, stream, torn, readerVars>>

\* emit: an importable driver emits the result it was returned, and validation
\* lets strict JSON through only.
Emit ==
  /\ at = "running"
  /\ \/ driver = "general" /\ at' = at
     \/ driver = "importable" /\ returned = "json" /\ at' = "emitted"
  /\ Puts("output", Emitted)
  /\ UNCHANGED returned

Complete ==
  /\ at = IF driver = "importable" THEN "emitted" ELSE "running"
  /\ driver # "rogue"
  /\ Puts("complete", Emitted)
  /\ at' = "completed"
  /\ UNCHANGED returned

\* A rogue payload writes any frame while it is read; only the number of an output
\* or a completion means anything.
RogueFrames ==
  {Frame(what, 0, size) : what \in What, size \in FrameSizes}
  \cup {Frame(what, n, size) : what \in {"output", "complete"}, n \in Numbers,
                               size \in FrameSizes}

Rogue ==
  /\ driver = "rogue" /\ at # "ended" /\ verdict = "reading"
  /\ Len(stream) < MaxFrames
  /\ \E f \in RogueFrames : stream' = Append(stream, f)
  /\ UNCHANGED <<driver, at, exit, returned, torn, readerVars>>

\* What is left of a frame that was cut anywhere before its LF.
Cuts == {0} \cup UNION {0 .. size : size \in FrameSizes}

\* The process ends: after its last frame, by an exit of any kind or on a signal.
\* Before its completion it may be in the middle of a frame.
Ends ==
  /\ at # "ended"
  /\ at' = "ended"
  /\ exit' \in {"zero", "nonzero", "signaled"}
  /\ torn' \in IF at = "completed" THEN {0} ELSE Cuts
  /\ UNCHANGED <<driver, returned, stream, readerVars>>

-----------------------------------------------------------------------------
(* read_protocol_stream.                                                    *)

Reading == verdict = "reading"
Buffered == received - Length(taken)
HasFrame == taken < Len(stream) /\ Length(taken + 1) <= received
Fails(code) == verdict' = code

\* Faulty variant: the budgets let one byte more through.
ReadSizeLoose ==
  Max({1, Min({ChunkBytes, MaxFrame + 2 - Buffered, MaxTotal + 2 - received})})

\* _read_size: never more than one byte past either budget.
ReadSize ==
  Max({1, Min({ChunkBytes, MaxFrame + 1 - Buffered, MaxTotal + 1 - received})})

\* _fill: the reader is buffered, so a read is short only at the end of the
\* stream.  What crosses the total budget is not looked at.
Fill ==
  /\ Reading /\ ~HasFrame /\ Buffered <= MaxFrame /\ ~eof
  /\ Written - received >= ReadSize \/ at = "ended"
  /\ LET n == Min({ReadSize, Written - received})
     IN  /\ received' = received + n
         /\ eof' = (n = 0)
         /\ verdict' = IF received + n > MaxTotal THEN "oversized" ELSE verdict
  /\ UNCHANGED <<writerVars, taken, prelude, completed, outputs>>

\* No terminator yet, and already more bytes than a frame may have.
Overlong ==
  /\ Reading /\ ~HasFrame /\ Buffered > MaxFrame
  /\ Fails("oversized")
  /\ UNCHANGED <<writerVars, received, taken, eof, prelude, completed, outputs>>

\* Faulty variant: a partial frame at the end is ignored.
FinishIgnoringTorn ==
  /\ Reading /\ ~HasFrame /\ Buffered <= MaxFrame /\ eof
  /\ Fails(IF completed THEN "ok" ELSE "incomplete")
  /\ UNCHANGED <<writerVars, received, taken, eof, prelude, completed, outputs>>

Finish ==
  /\ Reading /\ ~HasFrame /\ Buffered <= MaxFrame /\ eof
  /\ Fails(IF ~completed THEN "incomplete" ELSE IF Buffered > 0 THEN "unexpected" ELSE "ok")
  /\ UNCHANGED <<writerVars, received, taken, eof, prelude, completed, outputs>>

\* What is wrong with a frame, in the order it is looked for: _check_frame_budget,
\* the completion, decode_frame, _StreamState.accept.
Violation(f) ==
  IF f.size > MaxFrame THEN "oversized"
  ELSE IF completed THEN "unexpected"
  ELSE CASE f.what = "garbage" -> "malformed"
         [] f.what = "deep" -> "oversized"
         [] f.what \in {"prelude", "alien"} ->
              IF prelude THEN "unexpected"
              ELSE IF f.what = "alien" THEN "id_mismatch" ELSE "none"
         [] f.what = "output" ->
              IF ~prelude THEN "unexpected"
              ELSE IF f.n < outputs THEN "duplicate"
              ELSE IF f.n > outputs THEN "unexpected"
              ELSE IF outputs + 1 > MaxOutputs THEN "oversized" ELSE "none"
         [] f.what = "complete" ->
              IF ~prelude THEN "unexpected"
              ELSE IF f.n # outputs THEN "incomplete" ELSE "none"

Take ==
  /\ Reading /\ HasFrame
  /\ LET f == stream[taken + 1]
         fault == Violation(f)
         good == fault = "none"
     IN  /\ taken' = taken + 1
         /\ verdict' = IF good THEN verdict ELSE fault
         /\ prelude' = (prelude \/ (good /\ f.what = "prelude"))
         /\ completed' = (completed \/ (good /\ f.what = "complete"))
         /\ outputs' = IF good /\ f.what = "output" THEN outputs + 1 ELSE outputs
  /\ UNCHANGED <<writerVars, received, eof>>

Payload == Prelude \/ Returns \/ Emit \/ Complete \/ Rogue \/ Ends
Reader == Fill \/ Overlong \/ Finish \/ Take

StreamNext == Payload \/ Reader

-----------------------------------------------------------------------------
(* Properties.                                                              *)

\* The frame that belongs at position i of a stream that is right so far.
Right(i) ==
  LET f == stream[i]
  IN  /\ f.size <= MaxFrame
      /\ \/ i = 1 /\ f.what = "prelude"
         \/ i > 1 /\ f.what = "output" /\ f.n = i - 2 /\ f.n < MaxOutputs
         \/ i > 1 /\ f.what = "complete" /\ f.n = i - 2
      /\ \A h \in 1 .. i - 1 : stream[h].what # "complete"

WellFormed ==
  /\ \A i \in 1 .. Len(stream) : Right(i)
  /\ \E i \in 1 .. Len(stream) : stream[i].what = "complete"
  /\ torn = 0
  /\ Written <= MaxTotal

\* A stream is accepted if and only if all of it is right and within its budgets,
\* wherever the reads cut it.  The outputs accepted are the right ones at its
\* start, all of them unless the total budget was crossed: what a payload emitted
\* before it died is not lost with it.  And the verdict that is not held against
\* the payload means that it crossed a budget of the executor.
ReadsAsReference ==
  /\ verdict # "reading" => (verdict = "ok" <=> WellFormed /\ at = "ended")
  /\ \A i \in 1 .. outputs : Right(i + 1) /\ stream[i + 1].what = "output"
  /\ ~Reading /\ received <= MaxTotal =>
       \A i \in outputs + 2 .. Len(stream) :
         stream[i].what = "output" => \E h \in 1 .. i : ~Right(h)
  /\ verdict = "oversized" =>
       \/ Written > MaxTotal \/ Emitted > MaxOutputs \/ torn > MaxFrame
       \/ \E i \in 1 .. Len(stream) : stream[i].size > MaxFrame \/ stream[i].what = "deep"

\* However much a payload writes, the reader holds at most one byte more than a
\* frame may have, and reads at most one byte more than a stream may have.
BufferBounded == Buffered <= MaxFrame + 1 /\ received <= MaxTotal + 1
=============================================================================
