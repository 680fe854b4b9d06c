--------------------------- MODULE MCSocketHandle ---------------------------
(* Small instances of SocketHandle for TLC.  Slots, descriptors and cells    *)
(* are interchangeable.                                                      *)
EXTENDS SocketHandle, TLC

CONSTANTS h1, h2, h3, f1, f2, f3, r1, r2, r3

McSymmetry ==
  Permutations({h1, h2, h3}) \cup Permutations({f1, f2, f3}) \cup Permutations({r1, r2, r3})
=============================================================================
