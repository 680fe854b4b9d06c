--------------------------- MODULE MessageChannel ---------------------------
(* Sender and receiver composed over the byte streams: what an application   *)
(* gets from libutil's messages.  Each connection has a sender of its own;   *)
(* one thread receives from all of them.                                     *)
EXTENDS MessageSend, MessageRecv

vars == <<streamVars, sendVars, recvVars>>

Init == StreamInit /\ SendInit /\ RecvInit

\* A step of c's sender, the receiver standing by.
SenderStep(c) ==
  /\ \/ \E m \in Msgs : Push(c, m)
     \/ \E m \in DirectMsgs : SendMessage(c, m)
     \/ Clear(c)
     \/ Flush(c)
     \/ SendSome(c)
     \/ SendLoop(c)
     \/ CloseSender(c)
  /\ UNCHANGED recvVars

\* A step of the network on c.
NetworkStep(c) ==
  /\ Arrive(c) \/ PeerReset(c)
  /\ UNCHANGED <<sendVars, recvVars>>

\* A step of the receiver.
ReceiverStep ==
  /\ \/ RecvStep
     \/ \E c \in Conns :
          \/ \E kind \in CallKinds : RecvCall(c, kind)
          \/ CloseReceiver(c)
  /\ UNCHANGED sendVars

Next ==
  \/ \E c \in Conns : SenderStep(c) \/ NetworkStep(c)
  \/ ReceiverStep

Spec == Init /\ [][Next]_vars

Senders(A) == A /\ UNCHANGED recvVars
Receivers(A) == A /\ UNCHANGED sendVars

\* TCP moves the bytes it has accepted; a call that has begun goes on (with signals off it has
\* no other way); the application flushes a queue it left filled, and its main loop comes back
\* to every connection again and again.
Fairness ==
  /\ \A c \in Conns :
       /\ WF_vars(Arrive(c) /\ UNCHANGED <<sendVars, recvVars>>)
       /\ WF_vars(Senders(SendLoop(c)))
       /\ WF_vars(Senders(Flush(c)))
       /\ SF_vars(Receivers(\E kind \in CallKinds : RecvCall(c, kind)))
  /\ WF_vars(Receivers(RecvStep))

FairSpec == Spec /\ Fairness
-----------------------------------------------------------------------------
\* Positions, locals and histories have their types, and no negative length gets past the
\* check in MessageHandler::recv into the arithmetic that follows it.
TypeOK == StreamTypeOK /\ SendTypeOK /\ RecvTypeOK

\* What recv takes from a connection whose writes were never cut short is what send wrote, in
\* order, nothing lost, repeated or merged: however bytes arrive and whichever calls give up
\* half way, the header peeked and the bytes consumed belong to the same frame.
TakenInOrder ==
  \A c \in Conns : ~Torn(c) =>
    /\ Len(taken[c]) <= Len(frames[c])
    /\ \A i \in DOMAIN taken[c] : taken[c][i] = frames[c][i].msg

\* The messages whose frames, whole or torn, make up a stream.
MessagesOf(s) == [i \in DOMAIN s |-> s[i].msg]

Sent == [c \in Conns |-> MessagesOf(frames[c])]
Broken == {c \in Conns : Torn(c)}

\* The same as an abstraction: the channel implements FifoLink.
Link == INSTANCE FifoLink WITH log <- Sent, got <- taken, broken <- Broken

\* Every step of the sender's queue, the network and the receiver's calls sends one message,
\* takes the next one, or is invisible to the application.
ImplementsFifoLink == Link!Spec

\* Where the i-th frame of a stream of w bytes starts, or will start.
StartOf(s, w, i) == IF i <= Len(s) THEN s[i].start ELSE w

\* Between two frames nothing is left over: the reader of an untorn stream stands where its
\* next frame starts, so an incomplete read has taken nothing.
AtBoundary ==
  \A c \in Conns : ~Torn(c) =>
    consumed[c] = StartOf(frames[c], written[c], Len(taken[c]) + 1)

\* How many of the messages pushed have left the queue, and where those stand that had to be sent.
Gone(c) == Len(pushed[c]) - Len(queue[c])
ToBeSent(c) == {p \in 1 .. Gone(c) : pushed[c][p] \notin NullMsgs}

\* The frames of c that came through the queue.
FromQueue(c) == {i \in DOMAIN frames[c] : ~frames[c][i].direct}

\* f matches frames and messages that left the queue one to one and in order.
Matches(c, f) ==
  /\ \A p \in ToBeSent(c) : \E i \in FromQueue(c) : f[i] = p
  /\ \A i, j \in FromQueue(c) : i < j => f[i] < f[j]
  /\ \A i \in FromQueue(c) : frames[c][i].msg = pushed[c][f[i]]

\* Nothing pushed gets lost, doubled or overtaken on its way from the queue to the wire, over
\* any sequence of send, flush, clear, failed and repeated calls: the queue is what was pushed
\* last, and what was pushed before is on the wire, but for id 0, as long as no write is cut.
QueueOrdered(c) ==
  /\ Len(queue[c]) <= Len(pushed[c])
  /\ \A i \in DOMAIN queue[c] : queue[c][i] = pushed[c][Gone(c) + i]
  /\ ~Torn(c) => \E f \in [FromQueue(c) -> ToBeSent(c)] : Matches(c, f)

QueueInOrder == \A c \in Conns : QueueOrdered(c)

\* A call with no time left finds what it reads: the peek of an untimed recv has its whole
\* header waiting, so the poll of an idle connection never stops the main loop.
UntimedNeverBlocks ==
  At("peek") /\ ~call.asked => BytesWaiting(call.conn) >= HdrLen

\* The two blocking reads that take a frame out never wait for the peer and never stop short.
ReadsWholeFrame == At("read") => BytesWaiting(call.conn) >= FrameBytes(call.hdr)

\* A return of recv or recvAll on c.
Returns(c) == ~At("idle") /\ call'.pc = "idle" /\ call.conn = c

\* The incomplete reads of each connection since its last message.
IncompleteReads == {r \in Conns \X (1 .. BlockLimit) : r[2] <= waits[r[1]]}

\* A live connection is given up for incomplete data only after BlockLimit incomplete reads,
\* counted over all connections (the counter is one static for the process).
FatalNeedsPatience ==
  [][\A c \in Conns :
       (Returns(c) /\ At("wait") /\ result'[c] = "fatal")
         => Cardinality(IncompleteReads') >= BlockLimit]_vars

\* A filled queue is emptied, unless its first message is one that send never gets rid of: a
\* message over the frame limit stays in front of all others for good.
Drained ==
  \A c \in Conns :
    queue[c] # << >> ~>
      \/ queue[c] = << >>
      \/ ended[c] # "open"
      \/ FrameLen(Head(queue[c])) > MaxFrame

\* A frame that was written is taken by the receiver, unless the connection is aborted or the
\* receiver gives it up: no interleaving of polls on other connections starves it.
Delivered ==
  \A c \in Conns : \A n \in 1 .. MaxFrames :
    Len(frames[c]) >= n ~>
      Len(taken[c]) >= n \/ ended[c] = "reset" \/ ~sockOpen[c]

\* The rest of a header that will never be completed.
HeaderFragment(c) == ended[c] # "open" /\ BytesWaiting(c) \in 1 .. HdrLen - 1

\* The end of a stream is reported by a call that returns -1.  The code's exception is part of
\* the promise: a stream that ends inside a header is "incomplete" at every poll.
EndNoticed ==
  \A c \in Conns :
    ended[c] # "open" ~> result[c] = "fatal" \/ HeaderFragment(c)

\* MessageHandler.h: a recv with a timeout blocks for about that time.  A peek that finds
\* neither a byte nor the end of the stream blocks for as long as the peer is silent.
TimeoutHonoured == At("peek") => ~PeekBlocks
-----------------------------------------------------------------------------
(* The inductive invariant behind TakenInOrder, AtBoundary, UntimedNeverBlocks and            *)
(* ReadsWholeFrame, in three parts: the frames tile the stream, the reader of an untorn stream *)
(* is between two of them, and what a running call has found out still holds.                 *)
Tiles(s, w) ==
  /\ StartOf(s, w, 1) = 0
  /\ \A i \in 1 .. Len(s) : s[i].len \in 1 .. FrameLen(s[i].msg)
  /\ \A i \in 1 .. Len(s) : s[i].start + s[i].len = StartOf(s, w, i + 1)
  /\ \A i \in 1 .. Len(s) : s[i].start < w
  /\ \A i, j \in 1 .. Len(s) : i < j => s[i].start < s[j].start

FramesTile(c) ==
  /\ consumed[c] <= arrived[c] /\ arrived[c] <= written[c]
  /\ Tiles(frames[c], written[c])

\* A reader of s that took the messages t stands at p, where the frame after them starts.
StandsAfter(s, w, t, p) ==
  /\ Len(t) <= Len(s)
  /\ \A i \in DOMAIN t : t[i] = s[i].msg
  /\ p = StartOf(s, w, Len(t) + 1)

ReaderBetweenFrames(c) ==
  ~Torn(c) => StandsAfter(frames[c], written[c], taken[c], consumed[c])

\* h is the header of the frame of s after those of the messages t.
HeaderAfter(s, t, h) ==
  /\ Len(t) < Len(s)
  /\ h.msg = s[Len(t) + 1].msg
  /\ h.len = PayLen[h.msg]

\* The header a call has peeked is that of the next frame.
HeaderIsNext(c, h) == ~Torn(c) => HeaderAfter(frames[c], taken[c], h)

CallKnows ==
  /\ call.timed => call.asked
  /\ At("peek") /\ ~call.asked => BytesWaiting(call.conn) >= HdrLen
  /\ At("wait") \/ At("read") => HeaderIsNext(call.conn, call.hdr)
  /\ At("read") => BytesWaiting(call.conn) >= FrameBytes(call.hdr)

IndInv ==
  /\ TypeOK
  /\ \A c \in Conns : FramesTile(c) /\ ReaderBetweenFrames(c)
  /\ CallKnows
=============================================================================
