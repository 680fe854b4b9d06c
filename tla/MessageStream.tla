--------------------------- MODULE MessageStream ---------------------------
(* The byte streams that carry libutil's messages: one per connection, from  *)
(* the socket a MessageQueue sends on to the socket a MessageQueue receives  *)
(* on.  TCP is not libutil's code; what is said of it here is what           *)
(* MessageHandler.cpp relies on: bytes arrive unharmed and in order, in any  *)
(* chunks, and the end of the stream follows its last byte.                  *)
(*                                                                           *)
(* Bytes are positions.  A frame is what one call of MessageHandler::send    *)
(* put on the wire: it starts at `start' and holds `len' bytes, fewer than   *)
(* its message needs if the write was cut short.  A reader's position is the *)
(* number of bytes it has consumed.                                          *)
EXTENDS Integers, Sequences

CONSTANTS
  Conns,       \* the connections
  Msgs,        \* the messages an application may send
  PayLen,      \* the bytes Message::Serialize writes for each
  HdrLen,      \* sizeof(MsgHeader), 6 in the code
  MaxFrames,   \* bound: frames put on one connection
  Signals      \* do signals interrupt system calls of the two processes?

ASSUME StreamAssumption ==
  /\ HdrLen \in Nat \ {0}
  /\ PayLen \in [Msgs -> Nat]
  /\ MaxFrames \in Nat
  /\ Signals \in BOOLEAN

VARIABLES
  frames,      \* frames[c]: the frames written so far, in order
  written,     \* written[c]: bytes accepted by the sender's kernel
  arrived,     \* arrived[c]: of these, the bytes the receiver's kernel has
  consumed,    \* consumed[c]: of these, the bytes recv() has taken out
  ended        \* ended[c]: "open", "fin" (sender closed) or "reset" (aborted)

streamVars == <<frames, written, arrived, consumed, ended>>

Frame == [msg : Msgs, start : Nat, len : Nat, direct : BOOLEAN]

StreamTypeOK ==
  /\ frames \in [Conns -> Seq(Frame)]
  /\ written \in [Conns -> Nat]
  /\ arrived \in [Conns -> Nat]
  /\ consumed \in [Conns -> Nat]
  /\ ended \in [Conns -> {"open", "fin", "reset"}]

StreamInit ==
  /\ frames = [c \in Conns |-> << >>]
  /\ written = [c \in Conns |-> 0]
  /\ arrived = [c \in Conns |-> 0]
  /\ consumed = [c \in Conns |-> 0]
  /\ ended = [c \in Conns |-> "open"]

\* The length of a whole frame: header and serialized message.
FrameLen(m) == HdrLen + PayLen[m]

\* A frame whose write was cut short; a stream that holds one has lost its framing.
Whole(f) == f.len = FrameLen(f.msg)
Torn(c) == \E i \in DOMAIN frames[c] : ~Whole(frames[c][i])

\* ioctl(FIONREAD): the bytes that can be read at once.
BytesWaiting(c) == arrived[c] - consumed[c]

\* The reader has had everything the stream will ever hold.
AtEnd(c) ==
  /\ BytesWaiting(c) = 0
  /\ \/ ended[c] = "reset"
     \/ ended[c] = "fin" /\ arrived[c] = written[c]

\* select() for reading reports the socket: data, or the end of the stream.
Readable(c) == BytesWaiting(c) > 0 \/ AtEnd(c)

\* The first n bytes of m's frame enter the stream.
Write(c, m, n, direct) ==
  /\ Len(frames[c]) < MaxFrames
  /\ frames' = [frames EXCEPT ![c] = Append(@,
                  [msg |-> m, start |-> written[c], len |-> n, direct |-> direct])]
  /\ written' = [written EXCEPT ![c] = @ + n]
  /\ UNCHANGED <<arrived, consumed, ended>>

\* Mutant of Take: the read asks for all that waits instead of one frame.
TakeAllWaiting(c, n) ==
  /\ consumed' = [consumed EXCEPT ![c] = arrived[c]]
  /\ UNCHANGED <<frames, written, arrived, ended>>

\* recv() without MSG_PEEK takes n bytes out of the receiver's kernel.
Take(c, n) ==
  /\ consumed' = [consumed EXCEPT ![c] = @ + n]
  /\ UNCHANGED <<frames, written, arrived, ended>>

\* Some of the bytes under way reach the receiver.
Arrive(c) ==
  /\ ended[c] # "reset"
  /\ \E n \in (arrived[c] + 1) .. written[c] :
        arrived' = [arrived EXCEPT ![c] = n]
  /\ UNCHANGED <<frames, written, consumed, ended>>

\* The connection is aborted (the sender dies, the route goes): what is under way is lost.
PeerReset(c) ==
  /\ ended[c] = "open"
  /\ ended' = [ended EXCEPT ![c] = "reset"]
  /\ UNCHANGED <<frames, written, arrived, consumed>>
=============================================================================
