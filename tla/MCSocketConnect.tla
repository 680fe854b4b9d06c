--------------------------- MODULE MCSocketConnect ---------------------------
(* Small instances of SocketConnect for TLC: a host and a proxy with up to   *)
(* two addresses each, with the code's own numbers of polls.                 *)
EXTENDS SocketConnect

CONSTANTS a1, a2

McLists == {<<>>, <<a1>>, <<a1, a2>>}
=============================================================================
