-------------------------- MODULE MCMessageChannel --------------------------
(* Small instances of MessageChannel for TLC.                                *)
EXTENDS MessageChannel

CONSTANTS c1, c2, null, chat, huge, odd, even

\* Message kinds by what the code tells apart: an id-0 message (without payload, and
\* unknown to the receiver), one with payload the receiver knows, one over the frame limit.
McPayLen == [m \in Msgs |-> CASE m = chat -> 1 [] m = huge -> 4 [] OTHER -> 0]
McSendArgs == {[max |-> 0, limit |-> 2]}
McCalls == {[timed |-> FALSE, all |-> TRUE], [timed |-> TRUE, all |-> FALSE]}
McUntimed == [timed : {FALSE}, all : BOOLEAN]
McJunkLens == {-1, 1}
=============================================================================
