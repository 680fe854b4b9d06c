---------------------------- MODULE MessageSend ----------------------------
(* The sending side: one MessageQueue per connection (MessageQueue.cpp) that *)
(* an application fills with push and empties with send or flush, and        *)
(* MessageHandler::send, which turns a message into a frame.                 *)
(*                                                                           *)
(* MessageQueue::send is a loop of system calls; each iteration is a step,   *)
(* so that the reader runs between two frames.  What the loop remembers is   *)
(* `sending'.  The queue itself is touched by one thread only.               *)
EXTENDS MessageStream

CONSTANTS
  NullMsgs,    \* the messages with id 0, which are queued but never sent
  MaxFrame,    \* the largest frame, 64 * 1024 in the code
  DirectMsgs,  \* the messages applications pass to sendMessage
  SendArgs,    \* the (max, limit) pairs applications call send with
  MaxPush      \* bound: messages pushed on one connection

ASSUME SendAssumption ==
  /\ NullMsgs \subseteq Msgs /\ DirectMsgs \subseteq Msgs
  /\ MaxFrame \in Nat
  /\ SendArgs \subseteq [max : Nat, limit : Nat]
  /\ MaxPush \in Nat

VARIABLES
  queue,       \* queue[c]: the messages of the sender's MessageQueue
  sending,     \* sending[c]: the locals of a running MessageQueue::send
  pushed       \* pushed[c]: history, every message pushed and not cleared

sendVars == <<queue, sending, pushed>>

NotSending == [busy |-> FALSE, max |-> 0, limit |-> 0, count |-> 0]

SendTypeOK ==
  /\ queue \in [Conns -> Seq(Msgs)]
  /\ pushed \in [Conns -> Seq(Msgs)]
  /\ sending \in [Conns -> [busy : BOOLEAN, max : Nat, limit : Nat, count : Nat]]

SendInit ==
  /\ queue = [c \in Conns |-> << >>]
  /\ pushed = [c \in Conns |-> << >>]
  /\ sending = [c \in Conns |-> NotSending]

Idle(c) == ~sending[c].busy

Push(c, m) ==
  /\ Idle(c)
  /\ Len(pushed[c]) < MaxPush
  /\ queue' = [queue EXCEPT ![c] = Append(@, m)]
  /\ pushed' = [pushed EXCEPT ![c] = Append(@, m)]
  /\ UNCHANGED <<sending, streamVars>>

Clear(c) ==
  /\ Idle(c)
  /\ queue[c] # << >>
  /\ queue' = [queue EXCEPT ![c] = << >>]
  /\ pushed' = [pushed EXCEPT ![c] = SubSeq(@, 1, Len(@) - Len(queue[c]))]
  /\ UNCHANGED <<sending, streamVars>>

\* The application calls send; on an invalid socket or an empty queue it does nothing.
SendCall(c, max, limit) ==
  /\ Idle(c)
  /\ ended[c] # "fin"
  /\ queue[c] # << >>
  /\ sending' = [sending EXCEPT ![c] =
                   [busy |-> TRUE, max |-> max, limit |-> limit, count |-> 0]]
  /\ UNCHANGED <<queue, pushed, streamVars>>

\* flush: send with max = size() and no size limit.
Flush(c) == SendCall(c, Len(queue[c]), MaxFrame)

\* send was called with a bound on the number of packets and their size.
SendSome(c) == \E a \in SendArgs : SendCall(c, a.max, a.limit)

\* The condition of send's loop.
Looping(c) ==
  /\ sending[c].busy
  /\ sending[c].count <= sending[c].max
  /\ queue[c] # << >>

\* Mutant of TooLarge: a frame of exactly the limit is refused.
TooLargeAtLimit(m) == FrameLen(m) >= MaxFrame

TooLarge(m) == FrameLen(m) > MaxFrame

\* pop() at the end of an iteration, and the count that bounds the loop.
PopAndCount(c) ==
  /\ queue' = [queue EXCEPT ![c] = Tail(@)]
  /\ sending' = [sending EXCEPT ![c].count = @ + 1]

\* A message with id 0 leaves the queue without being sent, and is counted.
SendSkip(c) ==
  /\ Looping(c)
  /\ Head(queue[c]) \in NullMsgs
  /\ PopAndCount(c)
  /\ UNCHANGED <<pushed, streamVars>>

\* The frame is written in one piece.  One larger than the limit ends the call.
SendFrame(c) ==
  LET m == Head(queue[c]) IN
  /\ Looping(c)
  /\ m \notin NullMsgs
  /\ ~TooLarge(m)
  /\ ended[c] = "open"
  /\ Write(c, m, FrameLen(m), FALSE)
  /\ IF FrameLen(m) > sending[c].limit
       THEN /\ queue' = [queue EXCEPT ![c] = Tail(@)]
            /\ sending' = [sending EXCEPT ![c] = NotSending]
       ELSE PopAndCount(c)
  /\ UNCHANGED pushed

\* Mutant of SendFails: the message leaves the queue before its frame is sent.
SendFailsAfterPop(c) ==
  LET m == Head(queue[c]) IN
  /\ Looping(c)
  /\ m \notin NullMsgs
  /\ TooLarge(m) \/ ended[c] = "reset"
  /\ queue' = [queue EXCEPT ![c] = Tail(@)]
  /\ sending' = [sending EXCEPT ![c] = NotSending]
  /\ UNCHANGED <<pushed, streamVars>>

\* MessageHandler::send gives up: send returns false and the message stays in front.
SendFails(c) ==
  LET m == Head(queue[c]) IN
  /\ Looping(c)
  /\ m \notin NullMsgs
  /\ TooLarge(m) \/ ended[c] = "reset"
  /\ sending' = [sending EXCEPT ![c] = NotSending]
  /\ UNCHANGED <<queue, pushed, streamVars>>

\* A signal cuts the write short: part of the frame is on the wire, yet the call fails and
\* the message stays in front, to be sent again from its first byte.
SendShort(c) ==
  LET m == Head(queue[c]) IN
  /\ Signals
  /\ Looping(c)
  /\ m \notin NullMsgs
  /\ ~TooLarge(m)
  /\ ended[c] = "open"
  /\ \E n \in 1 .. FrameLen(m) - 1 : Write(c, m, n, FALSE)
  /\ sending' = [sending EXCEPT ![c] = NotSending]
  /\ UNCHANGED <<queue, pushed>>

\* The loop is over: max exceeded or queue empty.
SendDone(c) ==
  /\ sending[c].busy
  /\ ~Looping(c)
  /\ sending' = [sending EXCEPT ![c] = NotSending]
  /\ UNCHANGED <<queue, pushed, streamVars>>

\* sendMessage: a frame past the queue, whatever its id; a signal may cut it short too.
SendMessage(c, m) ==
  /\ Idle(c)
  /\ ~TooLarge(m)
  /\ ended[c] = "open"
  /\ \E n \in 1 .. FrameLen(m) :
        /\ n = FrameLen(m) \/ Signals
        /\ Write(c, m, n, TRUE)
  /\ UNCHANGED sendVars

\* The application closes the sending socket.
CloseSender(c) ==
  /\ Idle(c)
  /\ ended[c] = "open"
  /\ ended' = [ended EXCEPT ![c] = "fin"]
  /\ UNCHANGED <<frames, written, arrived, consumed, sendVars>>

SendLoop(c) == SendSkip(c) \/ SendFrame(c) \/ SendFails(c) \/ SendShort(c) \/ SendDone(c)
=============================================================================
