------------------------------ MODULE FifoLink ------------------------------
(* What libutil's messages promise an application: on each connection the    *)
(* receiver gets the messages in the order they were sent, each at most      *)
(* once.  The promise ends, for that connection alone, when a message was    *)
(* sent in part only.                                                        *)
EXTENDS Naturals, Sequences

CONSTANTS Conns, Msgs, Junk

VARIABLES
  log,      \* log[c]: the messages sent on c
  got,      \* got[c]: those received from c
  broken    \* the connections on which one was sent in part only

vars == <<log, got, broken>>

Init ==
  /\ log = [c \in Conns |-> << >>]
  /\ got = [c \in Conns |-> << >>]
  /\ broken = {}

Send(c, m) ==
  /\ log' = [log EXCEPT ![c] = Append(@, m)]
  /\ UNCHANGED <<got, broken>>

SendInPart(c, m) ==
  /\ log' = [log EXCEPT ![c] = Append(@, m)]
  /\ broken' = broken \cup {c}
  /\ UNCHANGED got

Receive(c) ==
  /\ c \notin broken
  /\ Len(got[c]) < Len(log[c])
  /\ got' = [got EXCEPT ![c] = Append(@, log[c][Len(@) + 1])]
  /\ UNCHANGED <<log, broken>>

ReceiveAnything(c) ==
  /\ c \in broken
  /\ \E m \in Msgs \cup Junk : got' = [got EXCEPT ![c] = Append(@, m)]
  /\ UNCHANGED <<log, broken>>

Next ==
  \E c \in Conns :
    \/ \E m \in Msgs : Send(c, m) \/ SendInPart(c, m)
    \/ Receive(c)
    \/ ReceiveAnything(c)

Spec == Init /\ [][Next]_vars
=============================================================================
