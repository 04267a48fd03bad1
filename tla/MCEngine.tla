------------------------------ MODULE MCEngine ------------------------------
(* One call, of a command or a protocol target, with and without budgets.   *)
EXTENDS Engine

\* stdout keeps its first and its last byte, stderr nothing.
Keep == [stdout |-> [head |-> 1, tail |-> 1], stderr |-> [head |-> 0, tail |-> 0]]
Most(out, err) == [stdout |-> out, stderr |-> err]

\* A command that must not overflow, one whose output is cut, and a target that
\* speaks the protocol.
Strict == [protocol |-> FALSE, wall |-> TRUE, output |-> TRUE, fails |-> TRUE,
           input |-> FALSE, keep |-> Keep, most |-> Most(2, 1)]
Cut == [protocol |-> FALSE, wall |-> FALSE, output |-> TRUE, fails |-> FALSE,
        input |-> TRUE, keep |-> Keep, most |-> Most(3, 0)]
Driver == [protocol |-> TRUE, wall |-> FALSE, output |-> FALSE, fails |-> FALSE,
           input |-> TRUE, keep |-> Keep, most |-> Most(0, 0)]

\* The defaults of ExecutorSelfBudgets, and all times finite.
Default == [startup |-> FALSE, grace |-> TRUE, join |-> FALSE]
Finite == [startup |-> TRUE, grace |-> TRUE, join |-> TRUE]

TheCalls == {<<Strict, Default>>, <<Cut, Finite>>, <<Driver, Default>>, <<Driver, Finite>>}
=============================================================================
