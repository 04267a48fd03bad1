--------------------------- MODULE ImportableJson ---------------------------
(***************************************************************************)
(* The two ways to run an importable JSON entry point, and                  *)
(* parse_importable_json_result, which reads the completion of either       *)
(* (importable_json.py): in this process (InProcess), or in a child that    *)
(* answers through the protected protocol (ProtocolStream).                 *)
(***************************************************************************)
EXTENDS ProtocolStream, InProcess

VARIABLE mode   \* the target the job was built with

jsonVars == <<mode, streamVars, inVars>>

JsonInit ==
  /\ mode \in {"in_process", "process"}
  /\ mode = "in_process" => driver = "importable"
  /\ StreamInit /\ InInit

JsonNext ==
  \/ mode = "process" /\ StreamNext /\ UNCHANGED <<mode, inVars>>
  \/ mode = "in_process" /\ InNext /\ UNCHANGED <<mode, streamVars>>

\* The event loop runs.  Nothing is assumed of the thread: the entry point need
\* not return.
Loop == mode = "in_process" /\ TaskSteps /\ UNCHANGED <<mode, streamVars>>

JsonSpec == JsonInit /\ [][JsonNext]_jsonVars /\ WF_jsonVars(Loop)

-----------------------------------------------------------------------------
\* The completion of the call: its outcome, and its outputs with their envelope.
\* A call in a child that nothing stopped has the outcome of its protocol, and
\* only then that of its exit.
Completion ==
  IF mode = "in_process"
  THEN [over |-> task = "returned", exited |-> answer \in {"value", "exit_zero"},
        outputs |-> IF answer = "value" THEN 1 ELSE 0, envelope |-> answer = "value"]
  ELSE [over |-> verdict # "reading" /\ at = "ended",
        exited |-> verdict = "ok" /\ exit = "zero",
        outputs |-> outputs, envelope |-> driver = "importable"]

\* Faulty variant: a clean exit with any output will do.
ParsesLoosely(c) == c.exited

\* parse_importable_json_result: a clean exit, one output, and its envelope.
Parses(c) == c.exited /\ c.outputs = 1 /\ c.envelope

ReturnedJson == IF mode = "in_process" THEN how = "json" ELSE returned = "json"

\* A result is parsed only if the entry point returned strict JSON: no exit, no
\* crash at any byte of the stream, no stop and no interrupt looks like one.  And
\* one that returned it is parsed, unless the call was stopped or interrupted, or
\* the child ended otherwise than with zero after a stream within its budgets.
ParsesWhatReturned ==
  Completion.over /\ driver = "importable" =>
    /\ Parses(Completion) => ReturnedJson
    /\ ReturnedJson => \/ Parses(Completion)
                       \/ /\ mode = "in_process"
                          /\ answer \in {"cancelled", "wall_time", "interrupted"}
                       \/ mode = "process" /\ (exit # "zero" \/ ~WellFormed)
=============================================================================
