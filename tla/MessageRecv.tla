---------------------------- MODULE MessageRecv ----------------------------
(* The receiving side: one thread that polls its connections, in any order,  *)
(* with MessageQueue::recv and recvAll, and MessageHandler::recv, which      *)
(* looks for a whole frame and takes it out of the stream.                   *)
(*                                                                           *)
(* Every system call of MessageHandler::recv is a step, because bytes arrive *)
(* between them.  Time is abstract: the function timeoutReached answers as   *)
(* it likes while the call has time left, and a call has either some left    *)
(* (timed) or none (timeoutInMs = 0).                                        *)
EXTENDS MessageStream, FiniteSets

CONSTANTS
  Known,       \* the messages whose id the receiver's createMsg knows
  Junk,        \* what a header read off a frame's boundary may name
  JunkLens,    \* and the payload lengths it may claim, -1 among them
  BlockLimit,  \* incomplete reads before one is fatal, 120 in the code
  CallKinds    \* the [timed, all] pairs the application polls with

ASSUME RecvAssumption ==
  /\ Conns # {} /\ IsFiniteSet(Conns) /\ Msgs # {}
  /\ Known \subseteq Msgs \cup Junk
  /\ Msgs \cap Junk = {}
  /\ JunkLens \subseteq Int
  /\ BlockLimit \in Nat \ {0}
  /\ CallKinds \subseteq [timed : BOOLEAN, all : BOOLEAN]

VARIABLES
  call,          \* the running call: where it stands and its locals
  blocktimeout,  \* the static counter of MessageHandler::recv, up to BlockLimit
  taken,         \* taken[c]: history, the messages consumed from c's stream
  result,        \* result[c]: what the last finished call on c returned
  sockOpen,      \* sockOpen[c]: the receiver's socket is valid
  waits          \* waits[c]: history, c's incomplete reads since its last message

recvVars == <<call, blocktimeout, taken, result, sockOpen, waits>>

\* "nothing" is 0, "msg" is positive, "fatal" is -1; "thrown" is no return at all.
Results == {"nothing", "msg", "fatal", "thrown"}

Header == [msg : Msgs \cup Junk, len : Nat]

\* Calls: pc names the next system call, conn the socket, timed whether the timeout has time
\* left, asked (history) whether it was called with one, all a recvAll, some that this recvAll
\* has a message already, hdr the header peeked.
Calls == [pc : {"idle", "select", "avail", "peek", "wait", "read"}, conn : Conns,
          timed : BOOLEAN, asked : BOOLEAN, all : BOOLEAN, some : BOOLEAN, hdr : Header]

RecvTypeOK ==
  /\ call \in Calls
  /\ blocktimeout \in 0 .. BlockLimit
  /\ taken \in [Conns -> Seq(Msgs \cup Junk)]
  /\ result \in [Conns -> Results]
  /\ sockOpen \in [Conns -> BOOLEAN]
  /\ waits \in [Conns -> 0 .. BlockLimit]

NoHeader == [msg |-> CHOOSE m \in Msgs : TRUE, len |-> 0]

NoCall == [pc |-> "idle", conn |-> CHOOSE c \in Conns : TRUE, timed |-> FALSE, asked |-> FALSE,
           all |-> FALSE, some |-> FALSE, hdr |-> NoHeader]

RecvInit ==
  /\ call = NoCall
  /\ blocktimeout = 0
  /\ taken = [c \in Conns |-> << >>]
  /\ result = [c \in Conns |-> "nothing"]
  /\ sockOpen = [c \in Conns |-> TRUE]
  /\ waits = [c \in Conns |-> 0]

\* The headers that HdrLen bytes at the reader's position can spell: the one written there,
\* or anything when they straddle what a short write left.
FramesAt(c) == {i \in DOMAIN frames[c] :
                  frames[c][i].start = consumed[c] /\ frames[c][i].len >= HdrLen}

HeadersAt(c) ==
  IF FramesAt(c) # {}
    THEN {[msg |-> frames[c][i].msg, len |-> PayLen[frames[c][i].msg]] : i \in FramesAt(c)}
    ELSE [msg : Junk, len : JunkLens]

\* Mutant of FrameBytes: the length is taken to count the header too.
FrameBytesOfPayload(h) == h.len

FrameBytes(h) == HdrLen + h.len

\* MessageQueue::recv maps the error to its result; recvAll's later calls only end its loop.
Finish(value) ==
  /\ result' = [result EXCEPT ![call.conn] =
                  IF call.some /\ value # "thrown" THEN "msg" ELSE value]
  /\ call' = NoCall

At(pc) == call.pc = pc

\* `continue' in the first loop: another round, or the timeout is reached and the loop is left.
Continue ==
  /\ call.timed
  /\ \/ call' = [call EXCEPT !.pc = "select"]
     \/ call' = [call EXCEPT !.pc = "peek", !.timed = FALSE]
  /\ UNCHANGED result

\* Mutant of ContinueOr: out of time the loop is left instead of the function.
ContinueOrBreak(value) ==
  \/ Continue
  \/ ~call.timed /\ call' = [call EXCEPT !.pc = "peek"] /\ UNCHANGED result

\* With time left the loop goes on; without, the call returns.
ContinueOr(value) == Continue \/ (~call.timed /\ Finish(value))

RecvCall(c, kind) ==
  /\ At("idle")
  /\ call' = [NoCall EXCEPT !.pc = "select", !.conn = c,
                            !.timed = kind.timed, !.asked = kind.timed,
                            !.all = kind.all]
  /\ UNCHANGED <<blocktimeout, taken, result, sockOpen, waits, streamVars>>

\* select() on an empty set, for an invalid socket is in none, or interrupted by a signal.
SelectFails == ~sockOpen[call.conn] \/ Signals

Select ==
  /\ At("select")
  /\ \/ SelectFails /\ ContinueOr("fatal")
     \/ /\ sockOpen[call.conn] /\ Readable(call.conn)
        /\ call' = [call EXCEPT !.pc = "avail"]
        /\ UNCHANGED result
     \/ /\ sockOpen[call.conn] /\ ~Readable(call.conn)
        /\ ContinueOr("nothing")
  /\ UNCHANGED <<blocktimeout, taken, sockOpen, waits, streamVars>>

\* Mutant of ClosedByPeer: the end of the stream is taken for an incomplete header.
NeverClosed == FALSE

\* The socket is readable and has no bytes: closed by the peer.
ClosedByPeer == BytesWaiting(call.conn) = 0

\* Mutant of HeaderWaiting: any byte counts as a header.
AnyByteWaiting == BytesWaiting(call.conn) > 0

HeaderWaiting == BytesWaiting(call.conn) >= HdrLen

CheckAvailable ==
  /\ At("avail")
  /\ \/ /\ ClosedByPeer
        /\ Finish("fatal")
     \/ /\ ~ClosedByPeer /\ ~HeaderWaiting
        /\ ContinueOr("nothing")
     \/ /\ ~ClosedByPeer /\ HeaderWaiting
        /\ call' = [call EXCEPT !.pc = "peek"]
        /\ UNCHANGED result
  /\ UNCHANGED <<blocktimeout, taken, sockOpen, waits, streamVars>>

\* recv(MSG_PEEK) on a blocking socket: no step while it waits for a first byte.
PeekBlocks == sockOpen[call.conn] /\ ~Readable(call.conn)

\* Mutant of CheckHeader: no check for negative lengths.
CheckNothing(h) ==
  /\ call' = [call EXCEPT !.pc = "wait", !.hdr = h]
  /\ UNCHANGED result

\* A negative length throws.
CheckHeader(h) ==
  IF h.len < 0
    THEN Finish("thrown")
    ELSE /\ call' = [call EXCEPT !.pc = "wait", !.hdr = h]
         /\ UNCHANGED result

PeekHeader ==
  /\ At("peek")
  /\ \/ /\ sockOpen[call.conn]
        /\ BytesWaiting(call.conn) >= HdrLen
        /\ \E h \in HeadersAt(call.conn) : CheckHeader(h)
     \/ \* part of a header, or the end of the stream
        /\ sockOpen[call.conn] /\ Readable(call.conn)
        /\ BytesWaiting(call.conn) < HdrLen
        /\ Finish(IF BytesWaiting(call.conn) = 0 /\ ended[call.conn] = "reset"
                    THEN "fatal" ELSE "nothing")
     \/ \* an invalid socket, or a signal while it blocks
        /\ ~sockOpen[call.conn] \/ (Signals /\ PeekBlocks)
        /\ Finish("fatal")
  /\ UNCHANGED <<blocktimeout, taken, sockOpen, waits, streamVars>>

\* Mutants of Complete: the header's own bytes are not counted; one byte too many is asked for.
CompleteWithoutHeader == BytesWaiting(call.conn) >= call.hdr.len
CompleteAndMore == BytesWaiting(call.conn) > FrameBytes(call.hdr)

Complete == BytesWaiting(call.conn) >= FrameBytes(call.hdr)

UpToLimit(n) == IF n > BlockLimit THEN BlockLimit ELSE n

\* Mutant of PayloadComplete: the counter of incomplete reads is never reset.
PayloadCompleteKeepsCount ==
  /\ At("wait")
  /\ Complete
  /\ call' = [call EXCEPT !.pc = "read"]
  /\ waits' = [waits EXCEPT ![call.conn] = 0]
  /\ UNCHANGED <<blocktimeout, taken, result, sockOpen, streamVars>>

\* The second loop found the whole frame.
PayloadComplete ==
  /\ At("wait")
  /\ Complete
  /\ call' = [call EXCEPT !.pc = "read"]
  /\ blocktimeout' = 0
  /\ waits' = [waits EXCEPT ![call.conn] = 0]
  /\ UNCHANGED <<taken, result, sockOpen, streamVars>>

\* It did not, and there is no time left: one more incomplete read, on whatever socket.
PayloadIncomplete ==
  /\ At("wait")
  /\ ~Complete
  /\ blocktimeout' = UpToLimit(blocktimeout + 1)
  /\ waits' = [waits EXCEPT ![call.conn] = UpToLimit(@ + 1)]
  /\ Finish(IF blocktimeout' < BlockLimit THEN "nothing" ELSE "fatal")
  /\ UNCHANGED <<taken, sockOpen, streamVars>>

\* What createMsg makes of the consumed frame: a message for the queue, or nothing.
Deliver ==
  IF call.hdr.msg \in Known /\ call.all
    THEN /\ call' = [NoCall EXCEPT !.pc = "select", !.conn = call.conn,
                                   !.all = TRUE, !.some = TRUE]
         /\ UNCHANGED result
    ELSE Finish(IF call.hdr.msg \in Known THEN "msg" ELSE "fatal")

\* The two blocking reads: header, then payload.
ReadFrame ==
  LET need == FrameBytes(call.hdr)
      have == BytesWaiting(call.conn)
      n == IF have < need THEN have ELSE need
  IN
  /\ At("read")
  /\ Take(call.conn, n)
  /\ IF n = need
       THEN /\ taken' = [taken EXCEPT ![call.conn] = Append(@, call.hdr.msg)]
            /\ Deliver
       ELSE /\ Finish("fatal")
            /\ UNCHANGED taken
  /\ UNCHANGED <<blocktimeout, sockOpen, waits>>

\* The application gives up a connection that failed; the peer's writes fail from then on.
CloseReceiver(c) ==
  /\ At("idle")
  /\ sockOpen[c]
  /\ result[c] = "fatal"
  /\ sockOpen' = [sockOpen EXCEPT ![c] = FALSE]
  /\ ended' = [ended EXCEPT ![c] = IF @ = "open" THEN "reset" ELSE @]
  /\ UNCHANGED <<call, blocktimeout, taken, result, waits>>
  /\ UNCHANGED <<frames, written, arrived, consumed>>

RecvStep == \/ Select \/ CheckAvailable \/ PeekHeader
            \/ PayloadComplete \/ PayloadIncomplete \/ ReadFrame
=============================================================================
