----------------------- MODULE MessageChannel_proofs -----------------------
(* Proofs about MessageChannel for any set of connections and messages, any  *)
(* header size and any bounds.                                               *)
EXTENDS MessageChannel, FiniteSetTheorems, TLAPS

USE StreamAssumption, SendAssumption, RecvAssumption

LEMMA FrameLenNat == \A m \in Msgs : FrameLen(m) \in Nat /\ FrameLen(m) >= HdrLen /\ HdrLen > 0
BY DEF FrameLen

LEMMA NoCallType == NoCall \in Calls
BY DEF NoCall, Calls, Header, NoHeader

LEMMA InitType == Init => TypeOK
<1>1. StreamInit => StreamTypeOK
  BY DEF StreamInit, StreamTypeOK, Frame
<1>2. SendInit => SendTypeOK
  BY DEF SendInit, SendTypeOK, NotSending
<1>3. RecvInit => RecvTypeOK
  BY NoCallType DEF RecvInit, RecvTypeOK, Results
<1> QED
  BY <1>1, <1>2, <1>3 DEF Init, TypeOK

-----------------------------------------------------------------------------
(* Every step keeps the types. *)

LEMMA WriteType ==
  ASSUME StreamTypeOK, NEW c \in Conns, NEW m \in Msgs, NEW n \in Nat, NEW d \in BOOLEAN,
         Write(c, m, n, d)
  PROVE  StreamTypeOK'
<1> DEFINE f == [msg |-> m, start |-> written[c], len |-> n, direct |-> d]
<1>1. f \in Frame
  BY DEF StreamTypeOK, Frame
<1>2. Append(frames[c], f) \in Seq(Frame)
  BY <1>1 DEF StreamTypeOK
<1> QED
  BY <1>2, SMTT(30) DEF Write, StreamTypeOK

LEMMA PopType ==
  ASSUME SendTypeOK, NEW c \in Conns, Looping(c), PopAndCount(c)
  PROVE  queue' \in [Conns -> Seq(Msgs)]
         /\ sending' \in [Conns -> [busy : BOOLEAN, max : Nat, limit : Nat, count : Nat]]
<1>1. Tail(queue[c]) \in Seq(Msgs)
  BY DEF SendTypeOK, Looping
<1>2. sending[c].count + 1 \in Nat
  BY DEF SendTypeOK
<1>3. [sending[c] EXCEPT !.count = @ + 1]
        \in [busy : BOOLEAN, max : Nat, limit : Nat, count : Nat]
  BY <1>2 DEF SendTypeOK
<1>4. queue' \in [Conns -> Seq(Msgs)]
  BY <1>1 DEF PopAndCount, SendTypeOK
<1>5. sending' = [sending EXCEPT ![c] = [sending[c] EXCEPT !.count = @ + 1]]
  BY DEF PopAndCount
<1>6. sending' \in [Conns -> [busy : BOOLEAN, max : Nat, limit : Nat, count : Nat]]
  BY <1>3, <1>5 DEF SendTypeOK
<1> QED
  BY <1>4, <1>6

LEMMA SenderType ==
  ASSUME TypeOK, NEW c \in Conns, SenderStep(c)
  PROVE  TypeOK'
<1> USE DEF TypeOK
<1>1. RecvTypeOK'
  BY DEF SenderStep, RecvTypeOK, recvVars
<1>2. CASE \E m \in Msgs : Push(c, m)
  <2> PICK m \in Msgs : Push(c, m)
    BY <1>2
  <2>1. Append(queue[c], m) \in Seq(Msgs) /\ Append(pushed[c], m) \in Seq(Msgs)
    BY DEF SendTypeOK
  <2>2. SendTypeOK'
    BY <2>1 DEF Push, SendTypeOK
  <2> QED
    BY <1>1, <2>2 DEF Push, StreamTypeOK, streamVars
<1>3. CASE \E m \in DirectMsgs : SendMessage(c, m)
  <2> PICK m \in DirectMsgs : SendMessage(c, m)
    BY <1>3
  <2> PICK n \in 1 .. FrameLen(m) : Write(c, m, n, TRUE)
    BY DEF SendMessage
  <2>1. m \in Msgs /\ n \in Nat
    BY FrameLenNat
  <2>2. StreamTypeOK'
    BY <2>1, WriteType
  <2>3. UNCHANGED sendVars
    BY <1>3 DEF SendMessage
  <2> QED
    BY <1>1, <2>2, <2>3 DEF SendTypeOK, sendVars
<1>4. CASE Clear(c)
  <2>1. Len(pushed[c]) - Len(queue[c]) \in Int
    BY DEF SendTypeOK
  <2>2. SubSeq(pushed[c], 1, Len(pushed[c]) - Len(queue[c])) \in Seq(Msgs)
    BY <2>1 DEF SendTypeOK
  <2>3. << >> \in Seq(Msgs)
    OBVIOUS
  <2>4. SendTypeOK'
    BY <1>4, <2>2, <2>3 DEF Clear, SendTypeOK
  <2> QED
    BY <1>1, <1>4, <2>4 DEF Clear, StreamTypeOK, streamVars
<1>5. ASSUME NEW max \in Nat, NEW limit \in Nat, SendCall(c, max, limit)
      PROVE  TypeOK'
  BY <1>1, <1>5 DEF SendCall, SendTypeOK, StreamTypeOK, streamVars
<1>6. CASE Flush(c)
  <2>1. Len(queue[c]) \in Nat /\ MaxFrame \in Nat
    BY DEF SendTypeOK
  <2> QED
    BY <1>5, <1>6, <2>1 DEF Flush
<1>7. CASE SendSome(c)
  BY <1>5, <1>7 DEF SendSome
<1>8. CASE SendLoop(c)
  <2>1. queue[c] # << >> => Head(queue[c]) \in Msgs /\ Tail(queue[c]) \in Seq(Msgs)
    BY DEF SendTypeOK
  <2>2. CASE SendSkip(c)
    <3>1. SendTypeOK'
      BY <2>2, PopType DEF SendSkip, SendTypeOK
    <3> QED
      BY <1>1, <2>2, <3>1 DEF SendSkip, StreamTypeOK, streamVars
  <2>3. CASE SendFrame(c)
    <3> DEFINE m == Head(queue[c])
    <3>1. m \in Msgs /\ FrameLen(m) \in Nat
      BY <2>1, <2>3, FrameLenNat DEF SendFrame, Looping
    <3>2. StreamTypeOK'
      BY <2>3, <3>1, WriteType DEF SendFrame
    <3>3. SendTypeOK'
      <4>1. CASE PopAndCount(c)
        BY <2>3, <4>1, PopType DEF SendFrame, SendTypeOK
      <4>2. CASE /\ queue' = [queue EXCEPT ![c] = Tail(@)]
                 /\ sending' = [sending EXCEPT ![c] = NotSending]
        BY <2>1, <2>3, <4>2 DEF SendFrame, Looping, SendTypeOK, NotSending
      <4> QED
        BY <2>3, <4>1, <4>2 DEF SendFrame
    <3> QED
      BY <1>1, <3>2, <3>3
  <2>4. CASE SendFails(c)
    BY <1>1, <2>4 DEF SendFails, SendTypeOK, StreamTypeOK, streamVars, NotSending
  <2>5. CASE SendShort(c)
    <3> DEFINE m == Head(queue[c])
    <3>1. m \in Msgs /\ FrameLen(m) \in Nat
      BY <2>1, <2>5, FrameLenNat DEF SendShort, Looping
    <3>2. PICK n \in 1 .. FrameLen(m) - 1 : Write(c, m, n, FALSE)
      BY <2>5 DEF SendShort
    <3>3. StreamTypeOK'
      <4> n \in Nat
        BY <3>1
      <4> QED
        BY <3>1, <3>2, WriteType
    <3>4. SendTypeOK'
      BY <2>5 DEF SendShort, SendTypeOK, NotSending
    <3> QED
      BY <1>1, <3>3, <3>4
  <2>6. CASE SendDone(c)
    BY <1>1, <2>6 DEF SendDone, SendTypeOK, StreamTypeOK, streamVars, NotSending
  <2> QED
    BY <1>8, <2>2, <2>3, <2>4, <2>5, <2>6 DEF SendLoop
<1>9. CASE CloseSender(c)
  BY <1>1, <1>9 DEF CloseSender, SendTypeOK, StreamTypeOK, sendVars
<1> QED
  BY <1>2, <1>3, <1>4, <1>6, <1>7, <1>8, <1>9 DEF SenderStep

LEMMA NetworkType ==
  ASSUME TypeOK, NEW c \in Conns, NetworkStep(c)
  PROVE  TypeOK'
<1>1. SendTypeOK' /\ RecvTypeOK'
  BY DEF TypeOK, NetworkStep, SendTypeOK, RecvTypeOK, sendVars, recvVars
<1>2. CASE Arrive(c)
  BY <1>1, <1>2 DEF TypeOK, Arrive, StreamTypeOK
<1>3. CASE PeerReset(c)
  BY <1>1, <1>3 DEF TypeOK, PeerReset, StreamTypeOK
<1> QED
  BY <1>2, <1>3 DEF NetworkStep

\* A finished call leaves well-typed variables behind.
LEMMA FinishType ==
  ASSUME RecvTypeOK, NEW v \in Results, Finish(v)
  PROVE  call' \in Calls /\ result' \in [Conns -> Results]
BY NoCallType DEF RecvTypeOK, Finish, Results

LEMMA ContinueOrType ==
  ASSUME RecvTypeOK, NEW v \in Results, ContinueOr(v)
  PROVE  call' \in Calls /\ result' \in [Conns -> Results]
<1>1. CASE Continue
  BY <1>1 DEF Continue, RecvTypeOK, Calls
<1>2. CASE Finish(v)
  BY <1>2, FinishType
<1> QED
  BY <1>1, <1>2 DEF ContinueOr

\* A header comes from a frame, or from what Junk and JunkLens allow.
LEMMA HeaderType ==
  ASSUME StreamTypeOK, NEW c \in Conns, NEW h \in HeadersAt(c)
  PROVE  h.msg \in Msgs \cup Junk /\ h.len \in Int /\ h = [msg |-> h.msg, len |-> h.len]
<1>1. CASE FramesAt(c) # {}
  <2> PICK i \in FramesAt(c) : h = [msg |-> frames[c][i].msg, len |-> PayLen[frames[c][i].msg]]
    BY <1>1 DEF HeadersAt
  <2>1. i \in DOMAIN frames[c] /\ frames[c] \in Seq(Frame)
    BY DEF FramesAt, StreamTypeOK
  <2>2. frames[c][i].msg \in Msgs
    <3>1. frames[c][i] \in Frame
      BY <2>1
    <3> QED
      BY <3>1 DEF Frame
  <2>3. PayLen[frames[c][i].msg] \in Nat
    BY <2>2
  <2> QED
    BY <2>2, <2>3
<1>2. CASE FramesAt(c) = {}
  BY <1>2 DEF HeadersAt
<1> QED
  BY <1>1, <1>2

LEMMA ReceiverType ==
  ASSUME TypeOK, ReceiverStep
  PROVE  TypeOK'
<1> USE DEF TypeOK
<1>1. SendTypeOK'
  BY DEF ReceiverStep, SendTypeOK, sendVars
<1>2. call.conn \in Conns /\ {"nothing", "msg", "fatal", "thrown"} \subseteq Results
  BY DEF RecvTypeOK, Calls, Results
<1>3. CASE Select
  <2>1. call' \in Calls /\ result' \in [Conns -> Results]
    <3>1. CASE ContinueOr("fatal") \/ ContinueOr("nothing")
      BY <3>1, <1>2, ContinueOrType
    <3>2. CASE call' = [call EXCEPT !.pc = "avail"] /\ UNCHANGED result
      BY <3>2 DEF RecvTypeOK, Calls
    <3> QED
      BY <1>3, <3>1, <3>2 DEF Select
  <2> QED
    BY <1>1, <1>3, <2>1 DEF Select, RecvTypeOK, StreamTypeOK, streamVars
<1>4. CASE CheckAvailable
  <2>1. call' \in Calls /\ result' \in [Conns -> Results]
    <3>1. CASE Finish("fatal")
      BY <3>1, <1>2, FinishType
    <3>2. CASE ContinueOr("nothing")
      BY <3>2, <1>2, ContinueOrType
    <3>3. CASE call' = [call EXCEPT !.pc = "peek"] /\ UNCHANGED result
      BY <3>3 DEF RecvTypeOK, Calls
    <3> QED
      BY <1>4, <3>1, <3>2, <3>3 DEF CheckAvailable
  <2> QED
    BY <1>1, <1>4, <2>1 DEF CheckAvailable, RecvTypeOK, StreamTypeOK, streamVars
<1>5. CASE PeekHeader
  <2>1. ASSUME NEW h \in HeadersAt(call.conn), CheckHeader(h)
        PROVE  call' \in Calls /\ result' \in [Conns -> Results]
    <3>1. CASE h.len < 0
      BY <2>1, <3>1, <1>2, FinishType DEF CheckHeader
    <3>2. CASE ~(h.len < 0)
      <4>1. h \in Header
        BY <1>2, <3>2, HeaderType DEF Header
      <4> QED
        BY <2>1, <3>2, <4>1, ZenonT(30) DEF CheckHeader, RecvTypeOK, Calls
    <3> QED
      BY <3>1, <3>2
  <2>2. call' \in Calls /\ result' \in [Conns -> Results]
    <3>1. CASE \E v \in {"nothing", "fatal"} : Finish(v)
      BY <3>1, <1>2, FinishType
    <3>2. CASE \E h \in HeadersAt(call.conn) : CheckHeader(h)
      BY <2>1, <3>2
    <3> QED
      BY <1>5, <3>1, <3>2 DEF PeekHeader
  <2> QED
    BY <1>1, <1>5, <2>2 DEF PeekHeader, RecvTypeOK, StreamTypeOK, streamVars
<1>6. CASE PayloadComplete
  <2>1. call' \in Calls
    BY <1>6 DEF PayloadComplete, RecvTypeOK, Calls
  <2>2. 0 \in 0 .. BlockLimit
    OBVIOUS
  <2> QED
    BY <1>1, <1>2, <1>6, <2>1, <2>2
    DEF PayloadComplete, RecvTypeOK, StreamTypeOK, streamVars
<1>7. CASE PayloadIncomplete
  <2>1. \A n \in 0 .. BlockLimit : UpToLimit(n + 1) \in 0 .. BlockLimit
    BY DEF UpToLimit
  <2>2. call' \in Calls /\ result' \in [Conns -> Results]
    BY <1>2, <1>7, FinishType DEF PayloadIncomplete
  <2> QED
    BY <1>1, <1>2, <1>7, <2>1, <2>2
    DEF PayloadIncomplete, RecvTypeOK, StreamTypeOK, streamVars
<1>8. CASE ReadFrame
  <2> DEFINE need == FrameBytes(call.hdr)
             have == BytesWaiting(call.conn)
             n == IF have < need THEN have ELSE need
  <2>1. need \in Nat /\ have \in Int /\ call.hdr.msg \in Msgs \cup Junk
    <3>1. call.hdr \in Header /\ call.conn \in Conns
      BY <1>2 DEF RecvTypeOK, Calls
    <3>2. call.hdr.len \in Nat /\ call.hdr.msg \in Msgs \cup Junk
      BY <3>1 DEF Header
    <3> QED
      BY <1>2, <3>1, <3>2, SMTT(30) DEF FrameBytes, BytesWaiting, StreamTypeOK
  <2>2. consumed[call.conn] + n \in Nat
    BY <1>2, <2>1, SMTT(30) DEF BytesWaiting, StreamTypeOK
  <2>3. StreamTypeOK'
    BY <1>8, <2>2 DEF ReadFrame, Take, StreamTypeOK
  <2>4. taken' \in [Conns -> Seq(Msgs \cup Junk)]
    <3>1. Append(taken[call.conn], call.hdr.msg) \in Seq(Msgs \cup Junk)
      BY <1>2, <2>1 DEF RecvTypeOK
    <3> QED
      BY <1>2, <1>8, <3>1 DEF ReadFrame, RecvTypeOK
  <2>5. call' \in Calls /\ result' \in [Conns -> Results]
    <3>1. CASE \E v \in {"msg", "fatal"} : Finish(v)
      BY <3>1, <1>2, FinishType
    <3>2. CASE /\ call' = [NoCall EXCEPT !.pc = "select", !.conn = call.conn,
                                        !.all = TRUE, !.some = TRUE]
               /\ UNCHANGED result
      BY <1>2, <3>2, NoCallType DEF RecvTypeOK, Calls
    <3> QED
      BY <1>8, <3>1, <3>2 DEF ReadFrame, Deliver
  <2> QED
    BY <1>1, <1>8, <2>3, <2>4, <2>5 DEF ReadFrame, RecvTypeOK
<1>9. CASE \E c \in Conns, kind \in CallKinds : RecvCall(c, kind)
  <2> PICK c \in Conns, kind \in CallKinds : RecvCall(c, kind)
    BY <1>9
  <2>1. call' \in Calls
    BY NoCallType DEF RecvCall, Calls
  <2> QED
    BY <1>1, <2>1 DEF RecvCall, RecvTypeOK, StreamTypeOK, streamVars
<1>10. CASE \E c \in Conns : CloseReceiver(c)
  BY <1>1, <1>10 DEF CloseReceiver, RecvTypeOK, StreamTypeOK
<1> QED
  BY <1>3, <1>4, <1>5, <1>6, <1>7, <1>8, <1>9, <1>10 DEF ReceiverStep, RecvStep

LEMMA NextType == TypeOK /\ [Next]_vars => TypeOK'
<1> SUFFICES ASSUME TypeOK, [Next]_vars PROVE TypeOK'
  OBVIOUS
<1>1. CASE UNCHANGED vars
  BY <1>1 DEF vars, streamVars, sendVars, recvVars, TypeOK, StreamTypeOK, SendTypeOK, RecvTypeOK
<1> QED
  BY <1>1, SenderType, NetworkType, ReceiverType DEF Next

\* Whatever the connections, messages and bounds, every reachable state is well typed: in
\* particular a header with a negative length never reaches the code after the check.
THEOREM TypeCorrect == Spec => []TypeOK
<1> QED
  BY InitType, NextType, PTL DEF Spec

-----------------------------------------------------------------------------
(* The stream invariants: what a write, an arrival and a read do to the      *)
(* connection they happen on, and that they leave the others alone.          *)

SameStream(d) ==
  /\ frames'[d] = frames[d] /\ written'[d] = written[d]
  /\ consumed'[d] = consumed[d] /\ taken'[d] = taken[d]

LEMMA OtherConnection ==
  ASSUME NEW d \in Conns, SameStream(d), arrived'[d] = arrived[d],
         FramesTile(d), ReaderBetweenFrames(d)
  PROVE  FramesTile(d)' /\ ReaderBetweenFrames(d)'
BY DEF SameStream, FramesTile, ReaderBetweenFrames, StandsAfter, Tiles, StartOf, Torn, Whole, FrameLen

LEMMA FrameType ==
  ASSUME TypeOK, NEW c \in Conns, NEW i \in DOMAIN frames[c]
  PROVE  /\ frames[c][i].msg \in Msgs
         /\ frames[c][i].start \in Nat
         /\ frames[c][i].len \in Nat
<1>1. frames[c] \in Seq(Frame)
  BY DEF TypeOK, StreamTypeOK
<1>2. frames[c][i] \in Frame
  BY <1>1
<1> QED
  BY <1>2 DEF Frame

\* Frames that tile a stream of w bytes tile the longer one with a frame behind them.
LEMMA AppendTiles ==
  ASSUME NEW s \in Seq(Frame), NEW w \in Nat, NEW f \in Frame,
         Tiles(s, w), f.start = w, f.len \in 1 .. FrameLen(f.msg)
  PROVE  Tiles(Append(s, f), w + f.len)
<1> DEFINE t == Append(s, f)
<1>1. Len(s) \in Nat /\ f.len \in Nat /\ f.len > 0 /\ f.start = w
  BY DEF Frame
<1>2. t \in Seq(Frame) /\ Len(t) = Len(s) + 1 /\ t[Len(s) + 1] = f
  OBVIOUS
<1>3. \A i \in 1 .. Len(s) : t[i] = s[i]
  OBVIOUS
<1>4. \A i \in 1 .. Len(s) : s[i].start \in Nat /\ s[i].len \in Nat
  <2> TAKE i \in 1 .. Len(s)
  <2>1. s[i] \in Frame
    OBVIOUS
  <2> QED
    BY <2>1 DEF Frame
<1> HIDE DEF t
<1>5. \A i \in 1 .. Len(t) : i \in 1 .. Len(s) \/ i = Len(s) + 1
  BY <1>1, <1>2
<1>6. StartOf(t, w + f.len, 1) = 0
  <2>1. CASE Len(s) = 0
    BY <1>1, <1>2, <2>1 DEF Tiles, StartOf
  <2>2. CASE Len(s) > 0
    BY <1>1, <1>2, <1>3, <2>2 DEF Tiles, StartOf
  <2> QED
    BY <1>1, <2>1, <2>2
<1>7. \A i \in 1 .. Len(t) : t[i].len \in 1 .. FrameLen(t[i].msg)
  BY <1>2, <1>3, <1>5 DEF Tiles
<1>8. \A i \in 1 .. Len(t) : t[i].start + t[i].len = StartOf(t, w + f.len, i + 1)
  <2> TAKE i \in 1 .. Len(t)
  <2>1. CASE i = Len(s) + 1
    BY <1>1, <1>2, <2>1 DEF StartOf
  <2>2. CASE i = Len(s) /\ i \in 1 .. Len(s)
    <3>1. s[i].start + s[i].len = w
      BY <1>1, <2>2 DEF Tiles, StartOf
    <3>2. StartOf(t, w + f.len, i + 1) = w
      BY <1>1, <1>2, <2>2 DEF StartOf
    <3> QED
      BY <1>3, <2>2, <3>1, <3>2
  <2>3. CASE i < Len(s) /\ i \in 1 .. Len(s)
    <3>1. s[i].start + s[i].len = s[i + 1].start
      BY <1>1, <2>3 DEF Tiles, StartOf
    <3>2. i + 1 \in 1 .. Len(s)
      BY <1>1, <2>3
    <3>3. StartOf(t, w + f.len, i + 1) = s[i + 1].start
      BY <1>1, <1>2, <1>3, <3>2 DEF StartOf
    <3> QED
      BY <1>3, <2>3, <3>1, <3>3
  <2> QED
    BY <1>1, <1>5, <2>1, <2>2, <2>3
<1>9. \A i \in 1 .. Len(t) : t[i].start < w + f.len
  <2> TAKE i \in 1 .. Len(t)
  <2>1. CASE i = Len(s) + 1
    BY <1>1, <1>2, <2>1
  <2>2. CASE i \in 1 .. Len(s)
    BY <1>1, <1>3, <1>4, <2>2 DEF Tiles
  <2> QED
    BY <1>5, <2>1, <2>2
<1>10. \A i, j \in 1 .. Len(t) : i < j => t[i].start < t[j].start
  <2> TAKE i, j \in 1 .. Len(t)
  <2> HAVE i < j
  <2>1. i \in 1 .. Len(s)
    BY <1>1, <1>2
  <2>2. CASE j = Len(s) + 1
    BY <1>1, <1>2, <1>3, <2>1, <2>2 DEF Tiles
  <2>3. CASE j \in 1 .. Len(s)
    BY <1>3, <2>1, <2>3 DEF Tiles
  <2> QED
    BY <1>5, <2>2, <2>3
<1> QED
  BY <1>6, <1>7, <1>8, <1>9, <1>10 DEF Tiles, t

\* Writing n bytes of m's frame keeps the frames tiled and the reader where it was.
LEMMA WriteKeeps ==
  ASSUME TypeOK, NEW c \in Conns, NEW m \in Msgs, NEW n \in 1 .. FrameLen(m),
         NEW b \in BOOLEAN, Write(c, m, n, b), UNCHANGED taken,
         FramesTile(c), ReaderBetweenFrames(c)
  PROVE  FramesTile(c)' /\ ReaderBetweenFrames(c)'
<1> DEFINE f == [msg |-> m, start |-> written[c], len |-> n, direct |-> b]
           k == Len(frames[c])
<1>1. /\ written[c] \in Nat /\ arrived[c] \in Nat /\ consumed[c] \in Nat
      /\ frames[c] \in Seq(Frame) /\ taken[c] \in Seq(Msgs \cup Junk)
      /\ n \in Nat /\ n > 0
  BY FrameLenNat, SMTT(30) DEF TypeOK, StreamTypeOK, RecvTypeOK
<1>2. f \in Frame /\ f.start = written[c] /\ f.len = n /\ f.msg = m
  BY <1>1 DEF Frame
<1>3. /\ frames'[c] = Append(frames[c], f)
      /\ written'[c] = written[c] + n
      /\ arrived'[c] = arrived[c] /\ consumed'[c] = consumed[c] /\ taken'[c] = taken[c]
  BY DEF Write, TypeOK, StreamTypeOK
<1> HIDE DEF f
<1>4. FramesTile(c)'
  <2>1. Tiles(Append(frames[c], f), written[c] + n)
    BY <1>1, <1>2, AppendTiles DEF FramesTile
  <2>2. Tiles(frames'[c], written'[c])
    BY <1>3, <2>1
  <2>3. consumed'[c] <= arrived'[c] /\ arrived'[c] <= written'[c]
    BY <1>1, <1>3 DEF FramesTile
  <2> QED
    BY <2>2, <2>3 DEF FramesTile, Tiles, StartOf, FrameLen
<1>5. ASSUME ~Torn(c)' PROVE ~Torn(c)
  <2> SUFFICES ASSUME NEW i \in 1 .. k PROVE frames[c][i].len = FrameLen(frames[c][i].msg)
    BY <1>1, SMTT(30) DEF Torn, Whole
  <2>1. i \in DOMAIN frames'[c] /\ frames'[c][i] = frames[c][i]
    BY <1>1, <1>3
  <2> QED
    BY <1>5, <2>1 DEF Torn, Whole, FrameLen
<1>6. ASSUME ~Torn(c)'
      PROVE  StandsAfter(Append(frames[c], f), written[c] + n, taken[c], consumed[c])
  <2>1. /\ Len(taken[c]) <= k
        /\ \A i \in DOMAIN taken[c] : taken[c][i] = frames[c][i].msg
        /\ consumed[c] = StartOf(frames[c], written[c], Len(taken[c]) + 1)
    BY <1>5, <1>6 DEF ReaderBetweenFrames, StandsAfter
  <2>2. CASE Len(taken[c]) = k
    BY <1>1, <1>2, <2>1, <2>2 DEF StartOf, StandsAfter
  <2>3. CASE Len(taken[c]) < k
    BY <1>1, <1>2, <2>1, <2>3, SMTT(30) DEF StartOf, StandsAfter
  <2> QED
    BY <1>1, <2>1, <2>2, <2>3
<1>7. ReaderBetweenFrames(c)'
  <2> SUFFICES ASSUME ~Torn(c)' PROVE StandsAfter(frames'[c], written'[c], taken'[c], consumed'[c])
    BY DEF ReaderBetweenFrames, StandsAfter, StartOf
  <2> QED
    BY <1>3, <1>6
<1> QED
  BY <1>4, <1>7

\* In an untorn stream with a whole header waiting, the frame after those taken is the only one
\* that starts at the reader's position: no other header can be peeked.
LEMMA NextHeader ==
  ASSUME TypeOK, NEW c \in Conns, FramesTile(c), ReaderBetweenFrames(c), ~Torn(c),
         BytesWaiting(c) >= HdrLen, NEW h \in HeadersAt(c)
  PROVE  HeaderIsNext(c, h)
<1> DEFINE k == Len(taken[c]) + 1
<1>1. /\ written[c] \in Nat /\ arrived[c] \in Nat /\ consumed[c] \in Nat
      /\ Len(frames[c]) \in Nat /\ DOMAIN frames[c] = 1 .. Len(frames[c])
      /\ Len(taken[c]) \in Nat /\ HdrLen \in Nat /\ HdrLen > 0
  BY DEF TypeOK, StreamTypeOK, RecvTypeOK
<1>2. consumed[c] < written[c]
  BY <1>1 DEF BytesWaiting, FramesTile
<1>3. k \in DOMAIN frames[c] /\ frames[c][k].start = consumed[c]
  <2>1. consumed[c] = StartOf(frames[c], written[c], k) /\ Len(taken[c]) <= Len(frames[c])
    BY DEF ReaderBetweenFrames, StandsAfter
  <2> QED
    BY <1>1, <1>2, <2>1 DEF StartOf
<1>4. \A i \in DOMAIN frames[c] :
        frames[c][i].start \in Nat /\ frames[c][i].len \in Nat /\ frames[c][i].msg \in Msgs
  BY FrameType
<1>5. frames[c][k].len >= HdrLen
  BY <1>3, <1>4, FrameLenNat DEF Torn, Whole
<1>6. FramesAt(c) = {k}
  <2>1. k \in FramesAt(c)
    BY <1>3, <1>5 DEF FramesAt
  <2>2. ASSUME NEW i \in FramesAt(c) PROVE i = k
    <3>1. i \in DOMAIN frames[c] /\ frames[c][i].start = consumed[c]
      BY DEF FramesAt
    <3>2. \A a, b \in 1 .. Len(frames[c]) : a < b => frames[c][a].start < frames[c][b].start
      BY DEF FramesTile, Tiles
    <3> HIDE DEF k
    <3>3. ~(i < k)
      <4>1. i < k => frames[c][i].start < frames[c][k].start
        BY <1>1, <1>3, <3>1, <3>2
      <4> QED
        BY <1>1, <1>3, <3>1, <4>1
    <3>4. ~(k < i)
      <4>1. k < i => frames[c][k].start < frames[c][i].start
        BY <1>1, <1>3, <3>1, <3>2
      <4> QED
        BY <1>1, <1>3, <3>1, <4>1
    <3> QED
      BY <1>1, <1>3, <3>1, <3>3, <3>4
  <2> QED
    BY <2>1, <2>2
<1>7. h = [msg |-> frames[c][k].msg, len |-> PayLen[frames[c][k].msg]]
  BY <1>6 DEF HeadersAt
<1> QED
  BY <1>1, <1>3, <1>7 DEF HeaderIsNext, HeaderAfter

-----------------------------------------------------------------------------
(* The inductive invariant.                                                  *)

\* What holds of every connection.
Streams == \A c \in Conns : FramesTile(c) /\ ReaderBetweenFrames(c)

LEMMA InitInv == Init => IndInv
<1> SUFFICES ASSUME Init PROVE IndInv
  OBVIOUS
<1>1. TypeOK
  BY InitType
<1>2. ASSUME NEW c \in Conns PROVE FramesTile(c) /\ ReaderBetweenFrames(c)
  <2>1. /\ frames[c] = << >> /\ taken[c] = << >>
        /\ written[c] = 0 /\ arrived[c] = 0 /\ consumed[c] = 0
    BY DEF Init, StreamInit, RecvInit
  <2>2. Tiles(<< >>, 0) /\ StandsAfter(<< >>, 0, << >>, 0)
    BY DEF Tiles, StandsAfter, StartOf
  <2> QED
    BY <2>1, <2>2 DEF FramesTile, ReaderBetweenFrames
<1>3. CallKnows
  BY DEF Init, RecvInit, NoCall, CallKnows, At
<1> QED
  BY <1>1, <1>2, <1>3 DEF IndInv

\* A call that is over knows nothing.
LEMMA IdleKnows == ASSUME call' = NoCall PROVE CallKnows'
BY DEF NoCall, CallKnows, At

\* Steps that move no byte and take no message leave the streams as they are.
LEMMA StillStreams ==
  ASSUME IndInv, UNCHANGED <<frames, written, arrived, consumed, taken>>
  PROVE  Streams'
<1> SUFFICES ASSUME NEW c \in Conns PROVE FramesTile(c)' /\ ReaderBetweenFrames(c)'
  BY DEF Streams
<1> QED
  BY OtherConnection DEF IndInv, SameStream

LEMMA StillKnows ==
  ASSUME IndInv, UNCHANGED <<frames, written, arrived, consumed, taken, call>>
  PROVE  CallKnows'
BY DEF IndInv, CallKnows, At, BytesWaiting, FrameBytes, HeaderIsNext, HeaderAfter, Torn, Whole,
       FrameLen

\* More bytes may have arrived and more frames may stand behind those a call knows of: what it
\* has found out stays true.
LEMMA GrowthKnows ==
  ASSUME IndInv, TypeOK', UNCHANGED <<call, taken, consumed>>,
         \A d \in Conns : arrived[d] <= arrived'[d],
         \A d \in Conns : Len(frames[d]) <= Len(frames'[d]),
         \A d \in Conns : \A i \in DOMAIN frames[d] : frames'[d][i] = frames[d][i]
  PROVE  CallKnows'
<1> DEFINE c == call.conn
<1>1. c \in Conns /\ FrameBytes(call.hdr) \in Nat
  BY DEF IndInv, TypeOK, RecvTypeOK, Calls, Header, FrameBytes
<1>2. /\ arrived[c] \in Nat /\ arrived'[c] \in Nat /\ consumed[c] \in Nat
      /\ Len(frames[c]) \in Nat /\ DOMAIN frames[c] = 1 .. Len(frames[c])
      /\ Len(frames'[c]) \in Nat /\ DOMAIN frames'[c] = 1 .. Len(frames'[c])
      /\ Len(taken[c]) \in Nat
  <2>1. frames[c] \in Seq(Frame) /\ frames'[c] \in Seq(Frame)
    BY <1>1 DEF IndInv, TypeOK, StreamTypeOK
  <2>2. taken[c] \in Seq(Msgs \cup Junk)
    BY <1>1 DEF IndInv, TypeOK, RecvTypeOK
  <2>3. arrived[c] \in Nat /\ arrived'[c] \in Nat /\ consumed[c] \in Nat
    BY <1>1 DEF IndInv, TypeOK, StreamTypeOK
  <2> QED
    BY <2>1, <2>2, <2>3
<1>3. \A n \in Nat : BytesWaiting(c) >= n => BytesWaiting(c)' >= n
  BY <1>1, <1>2 DEF BytesWaiting
<1>4. HeaderIsNext(c, call.hdr) => HeaderIsNext(c, call.hdr)'
  <2> SUFFICES ASSUME HeaderIsNext(c, call.hdr), ~Torn(c)'
               PROVE  HeaderAfter(frames'[c], taken[c], call.hdr)
    BY DEF HeaderIsNext, HeaderAfter
  <2>1. ~Torn(c)
    BY <1>1, <1>2, SMTT(30) DEF Torn, Whole, FrameLen
  <2>2. HeaderAfter(frames[c], taken[c], call.hdr)
    BY <2>1 DEF HeaderIsNext
  <2>3. Len(taken[c]) + 1 \in DOMAIN frames[c]
    BY <1>2, <2>2 DEF HeaderAfter
  <2>4. frames'[c][Len(taken[c]) + 1] = frames[c][Len(taken[c]) + 1]
    BY <1>1, <2>3
  <2>5. Len(frames[c]) <= Len(frames'[c])
    BY <1>1
  <2>6. Len(taken[c]) < Len(frames'[c])
    BY <1>2, <2>2, <2>5 DEF HeaderAfter
  <2> QED
    BY <2>2, <2>4, <2>6 DEF HeaderAfter
<1> QED
  BY <1>1, <1>3, <1>4 DEF IndInv, CallKnows, At, FrameBytes

LEMMA WriteInv ==
  ASSUME IndInv, TypeOK', NEW c \in Conns, NEW m \in Msgs, NEW n \in 1 .. FrameLen(m),
         NEW b \in BOOLEAN, Write(c, m, n, b), UNCHANGED recvVars
  PROVE  IndInv'
<1>1. UNCHANGED <<call, taken, arrived, consumed>>
  BY DEF Write, recvVars
<1>2. ASSUME NEW d \in Conns PROVE FramesTile(d)' /\ ReaderBetweenFrames(d)'
  <2>1. CASE d = c
    BY <1>1, <2>1, WriteKeeps DEF IndInv
  <2>2. CASE d # c
    <3>1. SameStream(d) /\ arrived'[d] = arrived[d]
      BY <1>1, <2>2 DEF Write, SameStream, IndInv, TypeOK, StreamTypeOK
    <3> QED
      BY <3>1, OtherConnection DEF IndInv
  <2> QED
    BY <2>1, <2>2
<1>3. CallKnows'
  <2> DEFINE f == [msg |-> m, start |-> written[c], len |-> n, direct |-> b]
  <2>1. \A d \in Conns : frames'[d] = IF d = c THEN Append(frames[c], f) ELSE frames[d]
    BY DEF Write, IndInv, TypeOK, StreamTypeOK
  <2>2. \A d \in Conns : frames[d] \in Seq(Frame)
    BY DEF IndInv, TypeOK, StreamTypeOK
  <2>3. f \in Frame
    BY FrameLenNat DEF IndInv, TypeOK, StreamTypeOK, Frame
  <2> HIDE DEF f
  <2>4. ASSUME NEW d \in Conns
        PROVE  /\ Len(frames[d]) <= Len(frames'[d])
               /\ \A i \in DOMAIN frames[d] : frames'[d][i] = frames[d][i]
    <3>1. CASE d = c
      <4>1. frames[c] \in Seq(Frame)
        BY <2>2
      <4>2. /\ Len(frames[c]) <= Len(Append(frames[c], f))
            /\ \A i \in DOMAIN frames[c] : Append(frames[c], f)[i] = frames[c][i]
        BY <2>3, <4>1
      <4> QED
        BY <2>1, <3>1, <4>2
    <3>2. CASE d # c
      <4>1. frames'[d] = frames[d] /\ Len(frames[d]) \in Nat
        BY <2>1, <2>2, <3>2
      <4> QED
        BY <4>1
    <3> QED
      BY <3>1, <3>2
  <2>5. \A d \in Conns : arrived[d] <= arrived'[d]
    BY <1>1 DEF IndInv, TypeOK, StreamTypeOK
  <2> QED
    BY <1>1, <2>4, <2>5, GrowthKnows
<1> QED
  BY <1>2, <1>3 DEF IndInv

\* The sender's steps either write the beginning of one frame or touch no stream.
LEMMA SenderWrites ==
  ASSUME TypeOK, NEW c \in Conns, SenderStep(c)
  PROVE  \/ UNCHANGED <<frames, written, arrived, consumed>>
         \/ \E m \in Msgs, b \in BOOLEAN : \E n \in 1 .. FrameLen(m) : Write(c, m, n, b)
<1>1. queue[c] # << >> => Head(queue[c]) \in Msgs
  BY DEF TypeOK, SendTypeOK
<1>2. CASE \E m \in DirectMsgs : SendMessage(c, m)
  BY <1>2 DEF SendMessage
<1>3. CASE SendFrame(c)
  <2>1. Head(queue[c]) \in Msgs
    BY <1>1, <1>3 DEF SendFrame, Looping
  <2>2. FrameLen(Head(queue[c])) \in 1 .. FrameLen(Head(queue[c]))
    BY <2>1, FrameLenNat
  <2>3. Write(c, Head(queue[c]), FrameLen(Head(queue[c])), FALSE)
    BY <1>3 DEF SendFrame
  <2> QED
    BY <2>1, <2>2, <2>3
<1>4. CASE SendShort(c)
  <2>1. Head(queue[c]) \in Msgs
    BY <1>1, <1>4 DEF SendShort, Looping
  <2>2. PICK n \in 1 .. FrameLen(Head(queue[c])) - 1 : Write(c, Head(queue[c]), n, FALSE)
    BY <1>4 DEF SendShort
  <2>3. n \in 1 .. FrameLen(Head(queue[c]))
    BY <2>1, FrameLenNat
  <2> QED
    BY <2>1, <2>2, <2>3
<1>5. CASE \/ \E m \in Msgs : Push(c, m)
           \/ Clear(c) \/ Flush(c) \/ SendSome(c) \/ CloseSender(c)
           \/ SendSkip(c) \/ SendFails(c) \/ SendDone(c)
  BY <1>5 DEF Push, Clear, Flush, SendSome, SendCall, CloseSender, SendSkip, SendFails,
              SendDone, streamVars
<1> QED
  BY <1>2, <1>3, <1>4, <1>5 DEF SenderStep, SendLoop

LEMMA SenderInv ==
  ASSUME IndInv, NEW c \in Conns, SenderStep(c)
  PROVE  IndInv'
<1>1. TypeOK /\ TypeOK'
  BY SenderType DEF IndInv
<1>2. UNCHANGED recvVars
  BY DEF SenderStep
<1>3. CASE UNCHANGED <<frames, written, arrived, consumed>>
  BY <1>1, <1>2, <1>3, StillStreams, StillKnows DEF IndInv, Streams, recvVars
<1>4. CASE \E m \in Msgs, b \in BOOLEAN : \E n \in 1 .. FrameLen(m) : Write(c, m, n, b)
  BY <1>1, <1>2, <1>4, WriteInv
<1> QED
  BY <1>1, <1>3, <1>4, SenderWrites

LEMMA NetworkInv ==
  ASSUME IndInv, NEW c \in Conns, NetworkStep(c)
  PROVE  IndInv'
<1>1. TypeOK /\ TypeOK'
  BY NetworkType DEF IndInv
<1>2. UNCHANGED <<call, taken, frames, written, consumed>>
  BY DEF NetworkStep, Arrive, PeerReset, recvVars
<1>3. \A d \in Conns : arrived[d] <= arrived'[d] /\ arrived'[d] <= written[d]
  <2>1. \A d \in Conns : arrived[d] \in Nat /\ written[d] \in Nat /\ arrived[d] <= written[d]
    BY <1>1 DEF IndInv, TypeOK, StreamTypeOK, FramesTile
  <2>2. CASE Arrive(c)
    BY <1>1, <2>1, <2>2 DEF Arrive, TypeOK, StreamTypeOK
  <2>3. CASE PeerReset(c)
    BY <2>1, <2>3 DEF PeerReset
  <2> QED
    BY <2>2, <2>3 DEF NetworkStep
<1>4. ASSUME NEW d \in Conns PROVE FramesTile(d)' /\ ReaderBetweenFrames(d)'
  <2>1. FramesTile(d) /\ ReaderBetweenFrames(d)
    BY DEF IndInv
  <2>2. consumed[d] \in Nat /\ arrived[d] \in Nat /\ arrived'[d] \in Nat
    BY <1>1 DEF TypeOK, StreamTypeOK
  <2>3. consumed'[d] <= arrived'[d] /\ arrived'[d] <= written'[d]
    BY <1>2, <1>3, <2>1, <2>2 DEF FramesTile
  <2>4. Tiles(frames'[d], written'[d])
    BY <1>2, <2>1 DEF FramesTile
  <2>5. ReaderBetweenFrames(d)'
    BY <1>2, <2>1 DEF ReaderBetweenFrames, StandsAfter, StartOf, Torn, Whole, FrameLen
  <2> QED
    BY <2>3, <2>4, <2>5 DEF FramesTile, Tiles, StartOf, FrameLen
<1>5. CallKnows'
  <2>1. \A d \in Conns : Len(frames[d]) <= Len(frames'[d])
    BY <1>1, <1>2 DEF TypeOK, StreamTypeOK
  <2> QED
    BY <1>1, <1>2, <1>3, <2>1, GrowthKnows
<1> QED
  BY <1>1, <1>4, <1>5 DEF IndInv

\* The steps of recv before the frame is read: each hands the next what it has found out.
LEMMA LookingKnows ==
  ASSUME IndInv, Select \/ CheckAvailable \/ PeekHeader \/ PayloadComplete \/ PayloadIncomplete
  PROVE  CallKnows'
<1>1. call \in Calls /\ call.conn \in Conns /\ (call.timed => call.asked)
  BY DEF IndInv, TypeOK, RecvTypeOK, Calls, CallKnows
<1>2. UNCHANGED <<frames, written, arrived, consumed, taken>>
  BY DEF Select, CheckAvailable, PeekHeader, PayloadComplete, PayloadIncomplete, streamVars
<1>3. CASE \E v \in Results : Finish(v)
  BY <1>3, IdleKnows DEF Finish
<1>4. CASE Continue
  <2>1. CASE call' = [call EXCEPT !.pc = "select"]
    BY <1>1, <2>1 DEF Calls, CallKnows, At
  <2>2. CASE call' = [call EXCEPT !.pc = "peek", !.timed = FALSE]
    <3>1. call.asked
      BY <1>1, <1>4 DEF Continue
    <3> QED
      BY <1>1, <2>2, <3>1 DEF Calls, CallKnows, At
  <2> QED
    BY <1>4, <2>1, <2>2 DEF Continue
<1>5. CASE Select
  <2>1. CASE call' = [call EXCEPT !.pc = "avail"]
    BY <1>1, <2>1 DEF Calls, CallKnows, At
  <2> QED
    BY <1>3, <1>4, <1>5, <2>1 DEF Select, ContinueOr, Results
<1>6. CASE CheckAvailable
  <2>1. CASE HeaderWaiting /\ call' = [call EXCEPT !.pc = "peek"]
    BY <1>1, <1>2, <2>1 DEF HeaderWaiting, Calls, CallKnows, At, BytesWaiting
  <2> QED
    BY <1>3, <1>4, <1>6, <2>1 DEF CheckAvailable, ContinueOr, Results
<1>7. CASE PeekHeader
  <2>1. ASSUME BytesWaiting(call.conn) >= HdrLen, NEW h \in HeadersAt(call.conn), CheckHeader(h)
        PROVE  CallKnows'
    <3>1. CASE Finish("thrown")
      BY <1>3, <3>1 DEF Results
    <3>2. CASE call' = [call EXCEPT !.pc = "wait", !.hdr = h]
      <4>1. HeaderIsNext(call.conn, h)
        <5>1. CASE Torn(call.conn)
          BY <5>1 DEF HeaderIsNext
        <5>2. CASE ~Torn(call.conn)
          BY <1>1, <2>1, <5>2, NextHeader DEF IndInv
        <5> QED
          BY <5>1, <5>2
      <4>2. HeaderIsNext(call.conn, h)'
        BY <1>2, <4>1, <3>2, <1>1
        DEF HeaderIsNext, HeaderAfter, Torn, Whole, FrameLen, Calls
      <4>3. call'.pc = "wait" /\ call'.hdr = h /\ call'.conn = call.conn
            /\ (call'.timed => call'.asked)
        BY <1>1, <3>2 DEF Calls
      <4> QED
        BY <1>2, <4>1, <4>3
        DEF CallKnows, At, HeaderIsNext, HeaderAfter, Torn, Whole, FrameLen
    <3> QED
      BY <2>1, <3>1, <3>2 DEF CheckHeader
  <2> QED
    BY <1>3, <1>7, <2>1 DEF PeekHeader, Results
<1>8. CASE PayloadComplete
  <2>1. call' = [call EXCEPT !.pc = "read"] /\ Complete /\ At("wait")
    BY <1>8 DEF PayloadComplete
  <2>2. HeaderIsNext(call.conn, call.hdr)
    BY <2>1 DEF IndInv, CallKnows
  <2>3. call'.pc = "read" /\ call'.hdr = call.hdr /\ call'.conn = call.conn
        /\ (call'.timed => call'.asked)
    BY <1>1, <2>1 DEF Calls
  <2> QED
    BY <1>2, <2>1, <2>2, <2>3
    DEF CallKnows, At, Complete, BytesWaiting, FrameBytes, HeaderIsNext, HeaderAfter,
        Torn, Whole, FrameLen
<1>9. CASE PayloadIncomplete
  BY <1>9, IdleKnows DEF PayloadIncomplete, Finish
<1> QED
  BY <1>5, <1>6, <1>7, <1>8, <1>9

\* Reading a frame moves the reader of an untorn stream to the next frame.
LEMMA ReadInv ==
  ASSUME IndInv, TypeOK', ReadFrame
  PROVE  IndInv'
<1> PICK c \in Conns : c = call.conn
  BY DEF IndInv, TypeOK, RecvTypeOK, Calls
<1> DEFINE k == Len(taken[c]) + 1
           need == FrameBytes(call.hdr)
<1>1. /\ need \in Nat
      /\ consumed[c] \in Nat /\ arrived[c] \in Nat /\ written[c] \in Nat
      /\ frames[c] \in Seq(Frame) /\ taken[c] \in Seq(Msgs \cup Junk)
      /\ call.hdr.msg \in Msgs \cup Junk
  <2>1. call \in Calls /\ taken[c] \in Seq(Msgs \cup Junk)
    BY DEF IndInv, TypeOK, RecvTypeOK
  <2>2. need \in Nat /\ call.hdr.msg \in Msgs \cup Junk
    BY <2>1 DEF Calls, Header, FrameBytes
  <2> QED
    BY <2>1, <2>2 DEF IndInv, TypeOK, StreamTypeOK
<1>2. BytesWaiting(c) >= need /\ HeaderIsNext(c, call.hdr)
  BY DEF IndInv, CallKnows, ReadFrame, At
<1>3. ~(BytesWaiting(c) < need)
  BY <1>1, <1>2 DEF BytesWaiting
<1>4. /\ consumed' = [consumed EXCEPT ![c] = @ + need]
      /\ taken' = [taken EXCEPT ![c] = Append(@, call.hdr.msg)]
      /\ UNCHANGED <<frames, written, arrived>>
      /\ Deliver
  BY <1>3 DEF ReadFrame, Take
<1>5. consumed'[c] = consumed[c] + need /\ taken'[c] = Append(taken[c], call.hdr.msg)
  BY <1>1, <1>4 DEF IndInv, TypeOK, StreamTypeOK, RecvTypeOK
<1>6. CallKnows'
  <2>1. CASE call' = NoCall
    BY <2>1, IdleKnows
  <2>2. CASE call' = [NoCall EXCEPT !.pc = "select", !.conn = c, !.all = TRUE, !.some = TRUE]
    BY <2>2 DEF NoCall, CallKnows, At
  <2> QED
    BY <1>4, <2>1, <2>2 DEF Deliver, Finish
<1>7. FramesTile(c)'
  <2>1. consumed'[c] <= arrived'[c] /\ arrived'[c] <= written'[c]
    BY <1>1, <1>2, <1>4, <1>5 DEF BytesWaiting, IndInv, FramesTile
  <2>2. Tiles(frames'[c], written'[c])
    BY <1>1, <1>4 DEF IndInv, FramesTile
  <2> QED
    BY <2>1, <2>2, <1>4 DEF FramesTile, Tiles, StartOf, FrameLen
<1>8. ASSUME ~Torn(c)
      PROVE  StandsAfter(frames[c], written[c], Append(taken[c], call.hdr.msg),
                         consumed[c] + need)
  <2>1. HeaderAfter(frames[c], taken[c], call.hdr)
    BY <1>2, <1>8 DEF HeaderIsNext
  <2>2. StandsAfter(frames[c], written[c], taken[c], consumed[c])
    BY <1>1, <1>8 DEF IndInv, ReaderBetweenFrames
  <2>3. /\ k \in 1 .. Len(frames[c]) /\ k \in DOMAIN frames[c]
        /\ Len(taken[c]) \in Nat /\ Len(frames[c]) \in Nat
    BY <1>1, <2>1, SMTT(30) DEF HeaderAfter
  <2>4. need = frames[c][k].len
    <3>1. frames[c][k].len = FrameLen(frames[c][k].msg)
      BY <1>8, <2>3 DEF Torn, Whole
    <3> QED
      BY <2>1, <3>1 DEF HeaderAfter, FrameBytes, FrameLen
  <2>5. consumed[c] + need = StartOf(frames[c], written[c], k + 1)
    <3>1. consumed[c] = frames[c][k].start
      BY <2>2, <2>3 DEF StandsAfter, StartOf
    <3>2. frames[c][k].start + frames[c][k].len = StartOf(frames[c], written[c], k + 1)
      BY <1>1, <2>3 DEF IndInv, FramesTile, Tiles
    <3> QED
      BY <2>4, <3>1, <3>2
  <2>6. \A i \in DOMAIN Append(taken[c], call.hdr.msg) :
          Append(taken[c], call.hdr.msg)[i] = frames[c][i].msg
    <3>1. \A i \in DOMAIN taken[c] : taken[c][i] = frames[c][i].msg
      BY <2>2 DEF StandsAfter
    <3>2. call.hdr.msg = frames[c][k].msg
      BY <2>1 DEF HeaderAfter
    <3> QED
      BY <1>1, <3>1, <3>2, SMTT(30)
  <2>7. Len(Append(taken[c], call.hdr.msg)) = k
    BY <1>1
  <2> QED
    BY <2>3, <2>5, <2>6, <2>7 DEF StandsAfter
<1>9. ReaderBetweenFrames(c)'
  <2>1. Torn(c)' <=> Torn(c)
    BY <1>1, <1>4 DEF Torn, Whole, FrameLen
  <2>2. ~Torn(c) => StandsAfter(frames'[c], written'[c], taken'[c], consumed'[c])
    BY <1>4, <1>5, <1>8
  <2> QED
    BY <2>1, <2>2 DEF ReaderBetweenFrames, StandsAfter, StartOf
<1>10. ASSUME NEW d \in Conns, d # c PROVE FramesTile(d)' /\ ReaderBetweenFrames(d)'
  <2>1. SameStream(d) /\ arrived'[d] = arrived[d]
    BY <1>1, <1>4, <1>10 DEF SameStream, IndInv, TypeOK, StreamTypeOK, RecvTypeOK
  <2> QED
    BY <2>1, OtherConnection DEF IndInv
<1> QED
  BY <1>6, <1>7, <1>9, <1>10 DEF IndInv

LEMMA ReceiverInv ==
  ASSUME IndInv, ReceiverStep
  PROVE  IndInv'
<1>1. TypeOK'
  BY ReceiverType DEF IndInv
<1>2. CASE Select \/ CheckAvailable \/ PeekHeader \/ PayloadComplete \/ PayloadIncomplete
  <2>1. UNCHANGED <<frames, written, arrived, consumed, taken>>
    BY <1>2 DEF Select, CheckAvailable, PeekHeader, PayloadComplete, PayloadIncomplete,
                streamVars
  <2> QED
    BY <1>1, <1>2, <2>1, StillStreams, LookingKnows DEF IndInv, Streams
<1>3. CASE ReadFrame
  BY <1>1, <1>3, ReadInv
<1>4. CASE \E c \in Conns, kind \in CallKinds : RecvCall(c, kind)
  <2> PICK c \in Conns, kind \in CallKinds : RecvCall(c, kind)
    BY <1>4
  <2>1. UNCHANGED <<frames, written, arrived, consumed, taken>>
    BY DEF RecvCall, streamVars
  <2>2. CallKnows'
    BY DEF RecvCall, NoCall, CallKnows, At
  <2> QED
    BY <1>1, <2>1, <2>2, StillStreams DEF IndInv, Streams
<1>5. CASE \E c \in Conns : CloseReceiver(c)
  <2>1. UNCHANGED <<frames, written, arrived, consumed, taken, call>>
    BY <1>5 DEF CloseReceiver
  <2> QED
    BY <1>1, <2>1, StillStreams, StillKnows DEF IndInv, Streams
<1> QED
  BY <1>2, <1>3, <1>4, <1>5 DEF ReceiverStep, RecvStep

LEMMA NextInv == IndInv /\ [Next]_vars => IndInv'
<1> SUFFICES ASSUME IndInv, [Next]_vars PROVE IndInv'
  OBVIOUS
<1>1. CASE UNCHANGED vars
  <2>1. TypeOK'
    BY <1>1, NextType DEF IndInv
  <2> QED
    BY <1>1, <2>1, StillStreams, StillKnows
    DEF IndInv, Streams, vars, streamVars, recvVars
<1> QED
  BY <1>1, SenderInv, NetworkInv, ReceiverInv DEF Next

\* The frames tile the stream, the reader of an untorn stream stands between two of them, and
\* what a running MessageHandler::recv has seen still holds when it acts on it.
THEOREM Inductive == Spec => []IndInv
<1> QED
  BY InitInv, NextInv, PTL DEF Spec

\* recv takes the messages that send wrote in order, none lost, repeated or merged.
THEOREM InOrder == Spec => []TakenInOrder
<1>1. IndInv => TakenInOrder
  BY DEF IndInv, ReaderBetweenFrames, StandsAfter, TakenInOrder
<1> QED
  BY <1>1, Inductive, PTL

\* An incomplete read leaves nothing half consumed: the next recv starts at a frame.
THEOREM Boundary == Spec => []AtBoundary
<1>1. IndInv => AtBoundary
  BY DEF IndInv, ReaderBetweenFrames, StandsAfter, AtBoundary
<1> QED
  BY <1>1, Inductive, PTL

\* A recv without timeout finds the header it peeks at: the poll of a silent peer returns.
THEOREM PollReturns == Spec => []UntimedNeverBlocks
<1>1. IndInv => UntimedNeverBlocks
  BY DEF IndInv, CallKnows, UntimedNeverBlocks
<1> QED
  BY <1>1, Inductive, PTL

\* The reads that take a frame out of the stream have all its bytes waiting.
THEOREM ReadsComplete == Spec => []ReadsWholeFrame
<1>1. IndInv => ReadsWholeFrame
  BY DEF IndInv, CallKnows, ReadsWholeFrame
<1> QED
  BY <1>1, Inductive, PTL
-----------------------------------------------------------------------------
(* The order of the queue.  QueueOrdered is inductive by itself; each step of *)
(* the sender is followed through the matching of frames and messages.        *)

LEMMA GoneType == ASSUME TypeOK, NEW c \in Conns, QueueOrdered(c) PROVE Gone(c) \in Nat
BY DEF TypeOK, SendTypeOK, QueueOrdered, Gone

\* Where the message in front of the queue was pushed.
LEMMA FrontOfQueue ==
  ASSUME TypeOK, NEW c \in Conns, QueueOrdered(c), queue[c] # << >>
  PROVE  /\ Head(queue[c]) = pushed[c][Gone(c) + 1]
         /\ Gone(c) + 1 \in DOMAIN pushed[c]
<1>1. queue[c] \in Seq(Msgs) /\ pushed[c] \in Seq(Msgs)
  BY DEF TypeOK, SendTypeOK
<1>2. Len(queue[c]) \in Nat /\ Len(queue[c]) >= 1 /\ 1 \in DOMAIN queue[c]
  BY <1>1
<1>3. Head(queue[c]) = pushed[c][Gone(c) + 1]
  BY <1>1, <1>2 DEF QueueOrdered
<1>4. Gone(c) \in Nat /\ Gone(c) + 1 <= Len(pushed[c])
  BY <1>1, <1>2 DEF QueueOrdered, Gone
<1>5. DOMAIN pushed[c] = 1 .. Len(pushed[c]) /\ Len(pushed[c]) \in Nat
  BY <1>1
<1> QED
  BY <1>3, <1>4, <1>5

\* A step after which the same frames stand for the same messages needs no new matching.
LEMMA SameMatching ==
  ASSUME NEW c \in Conns, QueueOrdered(c),
         FromQueue(c)' = FromQueue(c), ToBeSent(c)' = ToBeSent(c),
         \A i \in FromQueue(c) : frames'[c][i].msg = frames[c][i].msg,
         \A p \in ToBeSent(c) : pushed'[c][p] = pushed[c][p],
         Torn(c) => Torn(c)'
  PROVE  (~Torn(c) => \E f \in [FromQueue(c) -> ToBeSent(c)] : Matches(c, f))'
<1> SUFFICES ASSUME ~Torn(c)' PROVE \E f \in [FromQueue(c) -> ToBeSent(c)]' : Matches(c, f)'
  OBVIOUS
<1> PICK f \in [FromQueue(c) -> ToBeSent(c)] : Matches(c, f)
  BY DEF QueueOrdered
<1>1. Matches(c, f)'
  BY DEF Matches
<1> QED
  BY <1>1

LEMMA QueueUndisturbed ==
  ASSUME NEW c \in Conns, QueueOrdered(c),
         queue'[c] = queue[c], pushed'[c] = pushed[c], frames'[c] = frames[c]
  PROVE  QueueOrdered(c)'
<1>1. Gone(c)' = Gone(c)
  BY DEF Gone
<1>2. FromQueue(c)' = FromQueue(c) /\ ToBeSent(c)' = ToBeSent(c)
  BY <1>1 DEF FromQueue, ToBeSent
<1>3. Torn(c) => Torn(c)'
  BY DEF Torn, Whole, FrameLen
<1>4. (~Torn(c) => \E f \in [FromQueue(c) -> ToBeSent(c)] : Matches(c, f))'
  BY <1>2, <1>3, SameMatching
<1>5. /\ Len(queue'[c]) <= Len(pushed'[c])
      /\ \A i \in DOMAIN queue'[c] : queue'[c][i] = pushed'[c][Gone(c)' + i]
  BY <1>1 DEF QueueOrdered
<1> QED
  BY <1>4, <1>5 DEF QueueOrdered

\* What a write adds to the frames: one from the queue matches the message after the last.
LEMMA WriteInQueue ==
  ASSUME TypeOK, NEW c \in Conns, NEW m \in Msgs, NEW n \in Nat, NEW d \in BOOLEAN,
         Write(c, m, n, d)
  PROVE  /\ FromQueue(c)' = IF d THEN FromQueue(c) ELSE FromQueue(c) \cup {Len(frames[c]) + 1}
         /\ \A i \in FromQueue(c) : i \in 1 .. Len(frames[c]) /\ frames'[c][i] = frames[c][i]
         /\ frames'[c][Len(frames[c]) + 1].msg = m
         /\ Torn(c)' <=> Torn(c) \/ n # FrameLen(m)
         /\ \A o \in Conns \ {c} : frames'[o] = frames[o]
<1> DEFINE f == [msg |-> m, start |-> written[c], len |-> n, direct |-> d]
           s == frames[c]
<1>1. s \in Seq(Frame) /\ frames' = [frames EXCEPT ![c] = Append(s, f)] /\ f \in Frame
  BY DEF TypeOK, StreamTypeOK, Write, Frame
<1>2. frames'[c] = Append(s, f) /\ \A o \in Conns \ {c} : frames'[o] = frames[o]
  BY <1>1 DEF TypeOK, StreamTypeOK
<1>3. /\ DOMAIN s = 1 .. Len(s) /\ Len(s) \in Nat
      /\ DOMAIN Append(s, f) = 1 .. Len(s) + 1
      /\ \A i \in 1 .. Len(s) : Append(s, f)[i] = s[i]
      /\ Append(s, f)[Len(s) + 1] = f
  BY <1>1
<1>4. f.msg = m /\ f.direct = d /\ f.len = n
  OBVIOUS
<1> HIDE DEF f, s
<1>5. FromQueue(c)' = {i \in 1 .. Len(s) + 1 : ~Append(s, f)[i].direct}
  BY <1>2, <1>3 DEF FromQueue
<1>6. FromQueue(c) = {i \in 1 .. Len(s) : ~s[i].direct}
  BY <1>3 DEF FromQueue, s
<1>7. FromQueue(c)' = IF d THEN FromQueue(c) ELSE FromQueue(c) \cup {Len(s) + 1}
  BY <1>3, <1>4, <1>5, <1>6
<1>8. Torn(c)' <=> Torn(c) \/ n # FrameLen(m)
  <2>1. Torn(c)' <=> \E i \in 1 .. Len(s) + 1 : ~Whole(Append(s, f)[i])
    BY <1>2, <1>3 DEF Torn, Whole, FrameLen
  <2>2. Torn(c) <=> \E i \in 1 .. Len(s) : ~Whole(s[i])
    BY <1>3 DEF Torn, s
  <2>3. Whole(f) <=> n = FrameLen(m)
    BY <1>4 DEF Whole
  <2> QED
    BY <1>3, <2>1, <2>2, <2>3
<1> QED
  BY <1>2, <1>3, <1>4, <1>6, <1>7, <1>8 DEF s

LEMMA InitOrdered == ASSUME Init, NEW c \in Conns PROVE QueueOrdered(c)
<1> USE DEF Init, StreamInit, SendInit
<1>1. Gone(c) = 0 /\ FromQueue(c) = {}
  BY DEF Gone, FromQueue
<1>2. ToBeSent(c) = {}
  BY <1>1 DEF ToBeSent
<1>3. [i \in {} |-> 0] \in [FromQueue(c) -> ToBeSent(c)] /\ Matches(c, [i \in {} |-> 0])
  BY <1>1, <1>2 DEF Matches
<1>4. Len(queue[c]) <= Len(pushed[c]) /\ DOMAIN queue[c] = {}
  OBVIOUS
<1> QED
  BY <1>3, <1>4 DEF QueueOrdered

LEMMA PushOrdered ==
  ASSUME TypeOK, NEW c \in Conns, NEW m \in Msgs, QueueOrdered(c), Push(c, m)
  PROVE  QueueOrdered(c)'
<1> DEFINE q == queue[c]  p == pushed[c]
<1>1. q \in Seq(Msgs) /\ p \in Seq(Msgs)
  BY DEF TypeOK, SendTypeOK
<1>2. queue'[c] = Append(q, m) /\ pushed'[c] = Append(p, m) /\ frames' = frames
  BY DEF Push, TypeOK, SendTypeOK, streamVars
<1>3. /\ Len(Append(q, m)) = Len(q) + 1 /\ Len(Append(p, m)) = Len(p) + 1
      /\ Len(q) \in Nat /\ Len(p) \in Nat
      /\ DOMAIN q = 1 .. Len(q) /\ DOMAIN Append(q, m) = 1 .. Len(q) + 1
      /\ \A i \in 1 .. Len(q) : Append(q, m)[i] = q[i]
      /\ \A i \in 1 .. Len(p) : Append(p, m)[i] = p[i]
      /\ Append(q, m)[Len(q) + 1] = m /\ Append(p, m)[Len(p) + 1] = m
  BY <1>1
<1>4. Gone(c)' = Gone(c) /\ Gone(c) = Len(p) - Len(q)
  BY <1>2, <1>3 DEF Gone
<1>5. Len(q) <= Len(p) /\ \A i \in 1 .. Len(q) : q[i] = p[Gone(c) + i]
  BY <1>3 DEF QueueOrdered
<1>6. \A i \in 1 .. Gone(c) : pushed'[c][i] = pushed[c][i]
  BY <1>2, <1>3, <1>4, <1>5
<1>7. FromQueue(c)' = FromQueue(c) /\ ToBeSent(c)' = ToBeSent(c)
  BY <1>2, <1>4, <1>6 DEF FromQueue, ToBeSent
<1>8. Torn(c) => Torn(c)'
  BY <1>2 DEF Torn, Whole, FrameLen
<1>9. (~Torn(c) => \E f \in [FromQueue(c) -> ToBeSent(c)] : Matches(c, f))'
  BY <1>2, <1>6, <1>7, <1>8, SameMatching DEF ToBeSent
<1>10. \A i \in 1 .. Len(q) + 1 : Append(q, m)[i] = Append(p, m)[Gone(c) + i]
  <2> HIDE DEF q, p
  <2>1. Len(p) = Gone(c) + Len(q) /\ Gone(c) \in Nat
    BY <1>3, <1>4, <1>5
  <2>2. \A i \in 1 .. Len(q) : Gone(c) + i \in 1 .. Len(p)
    BY <1>3, <2>1
  <2>3. ASSUME NEW i \in 1 .. Len(q) PROVE Append(q, m)[i] = Append(p, m)[Gone(c) + i]
    BY <1>3, <1>5, <2>2
  <2>4. Append(q, m)[Len(q) + 1] = Append(p, m)[Gone(c) + (Len(q) + 1)]
    BY <1>3, <2>1
  <2>5. \A i \in 1 .. Len(q) + 1 : i \in 1 .. Len(q) \/ i = Len(q) + 1
    BY <1>3
  <2> QED
    BY <2>3, <2>4, <2>5
<1>11. Len(queue'[c]) <= Len(pushed'[c])
  BY <1>2, <1>3, <1>5
<1>12. \A i \in DOMAIN queue'[c] : queue'[c][i] = pushed'[c][Gone(c)' + i]
  BY <1>2, <1>3, <1>4, <1>10
<1> QED
  BY <1>9, <1>11, <1>12 DEF QueueOrdered

LEMMA ClearOrdered ==
  ASSUME TypeOK, NEW c \in Conns, QueueOrdered(c), Clear(c)
  PROVE  QueueOrdered(c)'
<1> DEFINE p == pushed[c]
<1>1. Gone(c) \in Nat /\ Gone(c) <= Len(p) /\ p \in Seq(Msgs)
  BY GoneType DEF TypeOK, SendTypeOK, Gone, QueueOrdered
<1>2. queue'[c] = << >> /\ pushed'[c] = SubSeq(p, 1, Gone(c)) /\ frames' = frames
  BY DEF Clear, TypeOK, SendTypeOK, streamVars, Gone
<1>3. /\ Len(SubSeq(p, 1, Gone(c))) = Gone(c)
      /\ \A i \in 1 .. Gone(c) : SubSeq(p, 1, Gone(c))[i] = p[i]
  BY <1>1
<1>4. Gone(c)' = Gone(c)
  <2>1. Gone(c)' = Len(pushed'[c]) - Len(queue'[c])
    BY DEF Gone
  <2>2. Len(pushed'[c]) = Gone(c) /\ Len(queue'[c]) = 0
    BY <1>2, <1>3
  <2> QED
    BY <1>1, <2>1, <2>2
<1>5. FromQueue(c)' = FromQueue(c) /\ ToBeSent(c)' = ToBeSent(c)
  BY <1>2, <1>3, <1>4 DEF FromQueue, ToBeSent
<1>6. Torn(c) => Torn(c)'
  BY <1>2 DEF Torn, Whole, FrameLen
<1>7. (~Torn(c) => \E f \in [FromQueue(c) -> ToBeSent(c)] : Matches(c, f))'
  BY <1>2, <1>3, <1>5, <1>6, SameMatching DEF ToBeSent
<1>8. /\ Len(queue'[c]) <= Len(pushed'[c])
      /\ \A i \in DOMAIN queue'[c] : queue'[c][i] = pushed'[c][Gone(c)' + i]
  <2>1. Len(queue'[c]) = 0 /\ Len(pushed'[c]) = Gone(c)
    BY <1>2, <1>3
  <2>2. DOMAIN queue'[c] = {}
    BY <1>2
  <2> QED
    BY <1>1, <2>1, <2>2
<1> QED
  BY <1>7, <1>8 DEF QueueOrdered

\* What is left of the queue after its first message is still what was pushed last.
LEMMA PopQueue ==
  ASSUME TypeOK, NEW c \in Conns, QueueOrdered(c), queue[c] # << >>,
         queue'[c] = Tail(queue[c]), pushed' = pushed
  PROVE  /\ Gone(c)' = Gone(c) + 1
         /\ Len(queue'[c]) <= Len(pushed'[c])
         /\ \A i \in DOMAIN queue'[c] : queue'[c][i] = pushed'[c][Gone(c)' + i]
         /\ ToBeSent(c)' = IF Head(queue[c]) \in NullMsgs
                             THEN ToBeSent(c) ELSE ToBeSent(c) \cup {Gone(c) + 1}
<1> DEFINE q == queue[c]
<1>1. q \in Seq(Msgs) /\ pushed[c] \in Seq(Msgs)
  BY DEF TypeOK, SendTypeOK
<1>2. /\ Len(q) \in Nat /\ Len(q) >= 1 /\ Len(Tail(q)) = Len(q) - 1
      /\ DOMAIN q = 1 .. Len(q) /\ DOMAIN Tail(q) = 1 .. Len(q) - 1
      /\ \A i \in 1 .. Len(q) - 1 : Tail(q)[i] = q[i + 1]
  BY <1>1
<1>3. Gone(c) \in Nat /\ Head(q) = pushed[c][Gone(c) + 1] /\ Len(pushed[c]) \in Nat
  BY <1>1, GoneType, FrontOfQueue
<1>4. Gone(c)' = Gone(c) + 1
  <2>1. Gone(c) = Len(pushed[c]) - Len(q)
    BY DEF Gone
  <2>2. Gone(c)' = Len(pushed[c]) - (Len(q) - 1)
    BY <1>2 DEF Gone
  <2> HIDE DEF q
  <2> QED
    BY <1>2, <1>3, <2>1, <2>2
<1>5. Len(queue'[c]) <= Len(pushed'[c])
  BY <1>2, <1>3 DEF QueueOrdered
<1>6. ASSUME NEW i \in DOMAIN queue'[c] PROVE queue'[c][i] = pushed'[c][Gone(c)' + i]
  <2>1. i \in 1 .. Len(q) - 1 /\ i + 1 \in DOMAIN q
    BY <1>2
  <2>2. queue'[c][i] = q[i + 1]
    BY <1>2, <2>1
  <2>3. q[i + 1] = pushed[c][Gone(c) + (i + 1)]
    BY <2>1 DEF QueueOrdered
  <2>4. Gone(c) + (i + 1) = Gone(c)' + i
    BY <1>3, <1>4, <2>1
  <2> QED
    BY <2>2, <2>3, <2>4
<1>7. ToBeSent(c)' = {p \in 1 .. Gone(c) + 1 : pushed[c][p] \notin NullMsgs}
  BY <1>4 DEF ToBeSent
<1>8. 1 .. Gone(c) + 1 = (1 .. Gone(c)) \cup {Gone(c) + 1}
  BY <1>3
<1> QED
  BY <1>3, <1>4, <1>5, <1>6, <1>7, <1>8 DEF ToBeSent

LEMMA SkipOrdered ==
  ASSUME TypeOK, NEW c \in Conns, QueueOrdered(c), SendSkip(c)
  PROVE  QueueOrdered(c)'
<1>1. /\ queue[c] # << >> /\ Head(queue[c]) \in NullMsgs
      /\ queue'[c] = Tail(queue[c]) /\ pushed' = pushed /\ frames' = frames
  BY DEF SendSkip, Looping, PopAndCount, TypeOK, SendTypeOK, streamVars
<1>2. FromQueue(c)' = FromQueue(c) /\ (Torn(c) => Torn(c)')
  BY <1>1 DEF FromQueue, Torn, Whole, FrameLen
<1>3. ToBeSent(c)' = ToBeSent(c)
  BY <1>1, PopQueue
<1>4. (~Torn(c) => \E f \in [FromQueue(c) -> ToBeSent(c)] : Matches(c, f))'
  BY <1>1, <1>2, <1>3, SameMatching
<1> QED
  BY <1>1, <1>4, PopQueue DEF QueueOrdered

LEMMA FrameOrdered ==
  ASSUME TypeOK, NEW c \in Conns, QueueOrdered(c), SendFrame(c)
  PROVE  QueueOrdered(c)'
<1> DEFINE m == Head(queue[c])
           k == Len(frames[c]) + 1
           g == Gone(c) + 1
<1>1. /\ queue[c] # << >> /\ m \notin NullMsgs /\ m \in Msgs
      /\ Write(c, m, FrameLen(m), FALSE)
      /\ queue'[c] = Tail(queue[c]) /\ pushed' = pushed
  <2>1. /\ queue[c] # << >> /\ m \notin NullMsgs
        /\ Write(c, m, FrameLen(m), FALSE) /\ pushed' = pushed
    BY DEF SendFrame, Looping
  <2>2. queue' = [queue EXCEPT ![c] = Tail(@)]
    BY DEF SendFrame, PopAndCount
  <2>3. queue \in [Conns -> Seq(Msgs)]
    BY DEF TypeOK, SendTypeOK
  <2>4. m \in Msgs
    BY <2>1, <2>3
  <2> QED
    BY <2>1, <2>2, <2>3, <2>4
<1>2. FrameLen(m) \in Nat
  BY <1>1, FrameLenNat
<1>3. /\ FromQueue(c)' = FromQueue(c) \cup {k}
      /\ \A i \in FromQueue(c) : i \in 1 .. Len(frames[c]) /\ frames'[c][i] = frames[c][i]
      /\ frames'[c][k].msg = m
      /\ Torn(c)' <=> Torn(c)
  BY <1>1, <1>2, WriteInQueue
<1>4. ToBeSent(c)' = ToBeSent(c) \cup {g} /\ m = pushed[c][g]
  BY <1>1, PopQueue, FrontOfQueue
<1>5. Gone(c) \in Nat /\ Len(frames[c]) \in Nat
  BY GoneType DEF TypeOK, StreamTypeOK
<1>6. ASSUME ~Torn(c)' PROVE \E f \in [FromQueue(c) -> ToBeSent(c)]' : Matches(c, f)'
  <2> PICK f \in [FromQueue(c) -> ToBeSent(c)] : Matches(c, f)
    BY <1>3, <1>6 DEF QueueOrdered
  <2> PICK e : e = [i \in FromQueue(c) \cup {k} |-> IF i = k THEN g ELSE f[i]]
    OBVIOUS
  <2>1. \A i \in FromQueue(c) : i \in Nat /\ i < k
    BY <1>3, <1>5
  <2>2. \A i \in FromQueue(c) : f[i] \in ToBeSent(c) /\ f[i] \in Nat /\ f[i] < g
    BY <1>5 DEF ToBeSent
  <2>3. e[k] = g /\ \A i \in FromQueue(c) : e[i] = f[i]
    BY <2>1, <1>5
  <2>4. e \in [FromQueue(c) -> ToBeSent(c)]'
    BY <1>3, <1>4, <2>2
  <2>5. \A p \in ToBeSent(c)' : \E i \in FromQueue(c)' : e[i] = p
    <3>1. \A p \in ToBeSent(c) : \E i \in FromQueue(c) : e[i] = p
      BY <2>3 DEF Matches
    <3> QED
      BY <1>3, <1>4, <2>3, <3>1
  <2>6. \A i, j \in FromQueue(c)' : i < j => e[i] < e[j]
    <3>1. \A i, j \in FromQueue(c) : i < j => e[i] < e[j]
      BY <2>3 DEF Matches
    <3>2. \A i \in FromQueue(c) : e[i] < e[k] /\ ~(k < i)
      BY <1>5, <2>1, <2>2, <2>3
    <3>3. ~(k < k)
      BY <1>5
    <3> QED
      BY <1>3, <3>1, <3>2, <3>3
  <2>7. \A i \in FromQueue(c)' : frames'[c][i].msg = pushed'[c][e[i]]
    <3>1. \A i \in FromQueue(c) : frames'[c][i].msg = pushed[c][e[i]]
      BY <1>3, <2>3 DEF Matches
    <3> QED
      BY <1>1, <1>3, <1>4, <2>3, <3>1
  <2>8. Matches(c, e)'
    BY <2>5, <2>6, <2>7 DEF Matches
  <2> QED
    BY <2>4, <2>8
<1> QED
  BY <1>1, <1>6, PopQueue DEF QueueOrdered

\* A write past the queue, or one that is cut short, after which nothing more is promised.
LEMMA OtherWriteOrdered ==
  ASSUME TypeOK, NEW c \in Conns, NEW m \in Msgs, NEW n \in Nat, NEW d \in BOOLEAN,
         QueueOrdered(c), Write(c, m, n, d), d \/ n # FrameLen(m),
         queue' = queue, pushed' = pushed
  PROVE  QueueOrdered(c)'
<1>1. Gone(c)' = Gone(c)
  BY DEF Gone
<1>2. ToBeSent(c)' = ToBeSent(c)
  BY <1>1 DEF ToBeSent
<1>3. CASE d
  <2>1. /\ FromQueue(c)' = FromQueue(c)
        /\ \A i \in FromQueue(c) : frames'[c][i].msg = frames[c][i].msg
        /\ Torn(c) => Torn(c)'
    BY <1>3, WriteInQueue
  <2>2. (~Torn(c) => \E f \in [FromQueue(c) -> ToBeSent(c)] : Matches(c, f))'
    BY <1>2, <2>1, SameMatching
  <2> QED
    BY <1>1, <2>2 DEF QueueOrdered
<1>4. CASE n # FrameLen(m)
  <2>1. Torn(c)'
    BY <1>4, WriteInQueue
  <2> QED
    BY <1>1, <2>1 DEF QueueOrdered
<1> QED
  BY <1>3, <1>4

LEMMA SenderOrdered ==
  ASSUME TypeOK, NEW c \in Conns, QueueOrdered(c), SenderStep(c)
  PROVE  QueueOrdered(c)'
<1>1. CASE \E m \in Msgs : Push(c, m)
  BY <1>1, PushOrdered
<1>2. CASE \E m \in DirectMsgs : SendMessage(c, m)
  <2> PICK m \in DirectMsgs : SendMessage(c, m)
    BY <1>2
  <2> PICK n \in 1 .. FrameLen(m) : Write(c, m, n, TRUE)
    BY DEF SendMessage
  <2>1. m \in Msgs /\ n \in Nat /\ queue' = queue /\ pushed' = pushed
    BY FrameLenNat DEF SendMessage, sendVars
  <2> QED
    BY <2>1, OtherWriteOrdered
<1>3. CASE Clear(c)
  BY <1>3, ClearOrdered
<1>4. CASE SendSkip(c)
  BY <1>4, SkipOrdered
<1>5. CASE SendFrame(c)
  BY <1>5, FrameOrdered
<1>6. CASE SendShort(c)
  <2> DEFINE m == Head(queue[c])
  <2>1. m \in Msgs /\ FrameLen(m) \in Nat /\ queue' = queue /\ pushed' = pushed
    BY <1>6, FrameLenNat, SMTT(30) DEF SendShort, Looping, TypeOK, SendTypeOK
  <2>2. PICK n \in 1 .. FrameLen(m) - 1 : Write(c, m, n, FALSE)
    BY <1>6 DEF SendShort
  <2>3. n \in Nat /\ n # FrameLen(m)
    BY <2>1
  <2> QED
    BY <2>1, <2>2, <2>3, OtherWriteOrdered
<1>7. CASE Flush(c) \/ SendSome(c) \/ SendFails(c) \/ SendDone(c) \/ CloseSender(c)
  <2>1. queue' = queue /\ pushed' = pushed /\ frames' = frames
    BY <1>7 DEF Flush, SendSome, SendCall, SendFails, SendDone, CloseSender, streamVars, sendVars
  <2> QED
    BY <2>1, QueueUndisturbed
<1> QED
  BY <1>1, <1>2, <1>3, <1>4, <1>5, <1>6, <1>7 DEF SenderStep, SendLoop

\* A sender works on its own connection only.
LEMMA SenderElsewhere ==
  ASSUME TypeOK, NEW c \in Conns, SenderStep(c), NEW o \in Conns \ {c}
  PROVE  queue'[o] = queue[o] /\ pushed'[o] = pushed[o] /\ frames'[o] = frames[o]
BY DEF SenderStep, Push, SendMessage, Clear, Flush, SendSome, SendCall, SendLoop, SendSkip,
       SendFrame, SendFails, SendShort, SendDone, CloseSender, PopAndCount, Write, streamVars,
       sendVars, TypeOK, SendTypeOK, StreamTypeOK

LEMMA NextOrdered == TypeOK /\ QueueInOrder /\ [Next]_vars => QueueInOrder'
<1> SUFFICES ASSUME TypeOK, QueueInOrder, [Next]_vars, NEW o \in Conns PROVE QueueOrdered(o)'
  BY DEF QueueInOrder
<1>1. QueueOrdered(o)
  BY DEF QueueInOrder
<1>2. ASSUME UNCHANGED <<queue, pushed, frames>> PROVE QueueOrdered(o)'
  BY <1>1, <1>2, QueueUndisturbed
<1>3. CASE UNCHANGED vars
  BY <1>2, <1>3 DEF vars, streamVars, sendVars
<1>4. CASE \E c \in Conns : NetworkStep(c)
  BY <1>2, <1>4 DEF NetworkStep, Arrive, PeerReset, sendVars
<1>5. CASE ReceiverStep
  <2>1. UNCHANGED <<queue, pushed>>
    BY <1>5 DEF ReceiverStep, sendVars
  <2>2. UNCHANGED frames
    BY <1>5 DEF ReceiverStep, RecvStep, Select, CheckAvailable, PeekHeader, PayloadComplete,
                PayloadIncomplete, ReadFrame, Take, RecvCall, CloseReceiver, streamVars
  <2> QED
    BY <1>2, <2>1, <2>2
<1>6. ASSUME NEW c \in Conns, SenderStep(c) PROVE QueueOrdered(o)'
  <2>1. CASE o = c
    BY <1>1, <1>6, <2>1, SenderOrdered
  <2>2. CASE o # c
    BY <1>1, <1>6, <2>2, SenderElsewhere, QueueUndisturbed
  <2> QED
    BY <2>1, <2>2
<1> QED
  BY <1>3, <1>4, <1>5, <1>6 DEF Next

\* What is pushed reaches the wire in order, once each, over any calls of send, flush, clear and
\* sendMessage that succeed or fail, until a write is cut short.
THEOREM QueueKeepsOrder == Spec => []QueueInOrder
<1>1. Init => QueueInOrder
  BY InitOrdered DEF QueueInOrder
<1> QED
  BY <1>1, TypeCorrect, NextOrdered, PTL DEF Spec

-----------------------------------------------------------------------------
(* The counter of incomplete reads.                                          *)

\* The one counter never runs ahead of what was read in vain since each connection's last message.
CountedReads == blocktimeout <= Cardinality(IncompleteReads)

LEMMA ReadsFinite == IsFiniteSet(IncompleteReads) /\ Cardinality(IncompleteReads) \in Nat
<1>1. IsFiniteSet(1 .. BlockLimit)
  BY FS_Interval
<1>2. IsFiniteSet(Conns \X (1 .. BlockLimit))
  BY <1>1, FS_Product
<1>3. IsFiniteSet(IncompleteReads)
  BY <1>2, FS_Subset DEF IncompleteReads
<1> QED
  BY <1>3, FS_CardinalityType

LEMMA ReadsFiniteNext == Cardinality(IncompleteReads') \in Nat
<1>1. (Cardinality(IncompleteReads) \in Nat)'
  BY ReadsFinite, PTL
<1> QED
  BY <1>1

\* As long as waits[c] counts, one more incomplete read of c is one more of all.
LEMMA OneMoreRead ==
  ASSUME TypeOK, NEW c \in Conns, waits' = [waits EXCEPT ![c] = UpToLimit(@ + 1)]
  PROVE  Cardinality(IncompleteReads') >= UpToLimit(Cardinality(IncompleteReads) + 1)
<1>1. waits \in [Conns -> 0 .. BlockLimit] /\ waits[c] \in 0 .. BlockLimit
  BY DEF TypeOK, RecvTypeOK
<1>2. IsFiniteSet(IncompleteReads) /\ Cardinality(IncompleteReads) \in Nat
  BY ReadsFinite
<1>3. CASE waits[c] < BlockLimit
  <2> DEFINE r == <<c, waits[c] + 1>>
  <2>1. waits'[c] = waits[c] + 1 /\ \A d \in Conns \ {c} : waits'[d] = waits[d]
    BY <1>1, <1>3 DEF UpToLimit
  <2>2. r \in Conns \X (1 .. BlockLimit) /\ r \notin IncompleteReads /\ r[1] = c /\ r[2] = waits[c] + 1
    BY <1>1, <1>3 DEF IncompleteReads
  <2>3. IncompleteReads' = IncompleteReads \cup {r}
    <3>1. ASSUME NEW q \in Conns \X (1 .. BlockLimit)
          PROVE  q[2] <= waits'[q[1]] <=> q[2] <= waits[q[1]] \/ q = r
      <4> PICK d \in Conns, n \in 1 .. BlockLimit : q = <<d, n>>
        BY <3>1
      <4>1. CASE d = c
        BY <1>1, <2>1, <4>1
      <4>2. CASE d # c
        BY <1>1, <2>1, <4>2
      <4> QED
        BY <4>1, <4>2
    <3> QED
      BY <2>2, <3>1 DEF IncompleteReads
  <2>4. Cardinality(IncompleteReads') = Cardinality(IncompleteReads) + 1
    BY <1>2, <2>2, <2>3, FS_AddElement
  <2> QED
    BY <1>2, <2>4 DEF UpToLimit
<1>4. CASE waits[c] = BlockLimit
  <2> DEFINE own == {c} \X (1 .. BlockLimit)
  <2>1. waits' = waits /\ IncompleteReads' = IncompleteReads
    BY <1>1, <1>4 DEF UpToLimit, IncompleteReads
  <2>2. own \subseteq IncompleteReads
    BY <1>4 DEF IncompleteReads
  <2>3. Cardinality(own) = BlockLimit
    <3>1. IsFiniteSet({c}) /\ Cardinality({c}) = 1
      BY FS_Singleton
    <3>2. IsFiniteSet(1 .. BlockLimit) /\ Cardinality(1 .. BlockLimit) = BlockLimit
      BY FS_Interval
    <3>3. Cardinality(own) = Cardinality({c}) * Cardinality(1 .. BlockLimit)
      BY <3>1, <3>2, FS_Product
    <3> QED
      BY <3>1, <3>2, <3>3
  <2>4. Cardinality(IncompleteReads) >= BlockLimit
    <3> HIDE DEF own
    <3> QED
      BY <1>2, <2>2, <2>3, FS_Subset
  <2> QED
    BY <1>2, <2>1, <2>4 DEF UpToLimit
<1> QED
  BY <1>1, <1>3, <1>4

LEMMA CountReceived ==
  ASSUME TypeOK, CountedReads, ReceiverStep PROVE CountedReads'
<1>1. CASE PayloadComplete
  <2>1. blocktimeout' = 0
    BY <1>1 DEF PayloadComplete
  <2> QED
    BY <2>1, ReadsFiniteNext DEF CountedReads
<1>2. CASE PayloadIncomplete
  <2>1. blocktimeout' = UpToLimit(blocktimeout + 1) /\ call.conn \in Conns
    BY <1>2 DEF PayloadIncomplete, TypeOK, RecvTypeOK, Calls
  <2>2. Cardinality(IncompleteReads') >= UpToLimit(Cardinality(IncompleteReads) + 1)
    BY <1>2, <2>1, OneMoreRead DEF PayloadIncomplete
  <2>3. Cardinality(IncompleteReads') \in Nat
    BY ReadsFiniteNext
  <2>4. blocktimeout \in 0 .. BlockLimit /\ blocktimeout <= Cardinality(IncompleteReads)
    BY DEF CountedReads, TypeOK, RecvTypeOK
  <2> QED
    BY <2>1, <2>2, <2>3, <2>4, ReadsFinite DEF CountedReads, UpToLimit
<1>3. CASE UNCHANGED <<blocktimeout, waits>>
  BY <1>3 DEF CountedReads, IncompleteReads
<1> QED
  BY <1>1, <1>2, <1>3 DEF ReceiverStep, RecvStep, Select, CheckAvailable, PeekHeader, ReadFrame,
     RecvCall, CloseReceiver

LEMMA NextCounted == TypeOK /\ CountedReads /\ [Next]_vars => CountedReads'
<1> SUFFICES ASSUME TypeOK, CountedReads, [Next]_vars PROVE CountedReads'
  OBVIOUS
<1>1. CASE UNCHANGED recvVars
  BY <1>1 DEF recvVars, CountedReads, IncompleteReads
<1> QED
  BY <1>1, CountReceived DEF Next, SenderStep, NetworkStep, vars

LEMMA Counted == Spec => []CountedReads
<1>1. Init => CountedReads
  <2> SUFFICES ASSUME Init PROVE CountedReads
    OBVIOUS
  <2>1. blocktimeout = 0
    BY DEF Init, RecvInit
  <2> QED
    BY <2>1, ReadsFinite DEF CountedReads
<1> QED
  BY <1>1, TypeCorrect, NextCounted, PTL DEF Spec

\* A connection is given up for incomplete data only after BlockLimit incomplete reads, of this
\* and all others, since the last message of each.
THEOREM FatalAfterReads == Spec => FatalNeedsPatience
<1>1. ASSUME TypeOK, CountedReads, [Next]_vars, NEW c \in Conns,
             Returns(c), At("wait"), result'[c] = "fatal"
      PROVE  Cardinality(IncompleteReads') >= BlockLimit
  <2>1. PayloadIncomplete
    <3>1. call # call' /\ call.pc = "wait" /\ call'.pc = "idle"
      BY <1>1 DEF Returns, At
    <3>2. ReceiverStep
      BY <1>1, <3>1 DEF Next, SenderStep, NetworkStep, vars, recvVars
    <3>3. ~PayloadComplete
      <4>1. call \in Calls
        BY <1>1 DEF TypeOK, RecvTypeOK
      <4>2. [call EXCEPT !.pc = "read"].pc = "read"
        BY <4>1 DEF Calls
      <4> QED
        BY <3>1, <4>2 DEF PayloadComplete
    <3> QED
      BY <3>1, <3>2, <3>3 DEF ReceiverStep, RecvStep, Select, CheckAvailable, PeekHeader, ReadFrame,
         RecvCall, CloseReceiver, At
  <2>2. blocktimeout' >= BlockLimit
    <3>1. result \in [Conns -> Results] /\ call.conn = c
      BY <1>1 DEF Returns, TypeOK, RecvTypeOK
    <3>2. ~Finish("nothing")
      BY <1>1, <3>1 DEF Finish
    <3>3. ~(blocktimeout' < BlockLimit)
      BY <2>1, <3>2 DEF PayloadIncomplete
    <3>4. blocktimeout' \in 0 .. BlockLimit
      BY <1>1, NextType DEF TypeOK, RecvTypeOK
    <3> QED
      BY <3>3, <3>4
  <2>3. blocktimeout' \in Nat /\ CountedReads'
    BY <1>1, NextType, NextCounted DEF TypeOK, RecvTypeOK
  <2> QED
    BY <2>2, <2>3, ReadsFiniteNext DEF CountedReads
<1>2. TypeOK /\ CountedReads /\ [Next]_vars
        => [\A c \in Conns :
              (Returns(c) /\ At("wait") /\ result'[c] = "fatal")
                => Cardinality(IncompleteReads') >= BlockLimit]_vars
  BY <1>1
<1> QED
  BY <1>2, TypeCorrect, Counted, PTL DEF Spec, FatalNeedsPatience
-----------------------------------------------------------------------------
(* The message channel implements FifoLink: the refinement mapping that TLC  *)
(* checks on small instances, proved for all of them.                        *)

LEMMA MessagesOfType ==
  ASSUME NEW s \in Seq(Frame)
  PROVE  MessagesOf(s) \in Seq(Msgs) /\ Len(MessagesOf(s)) = Len(s)
<1>1. Len(s) \in Nat /\ DOMAIN s = 1 .. Len(s)
  OBVIOUS
<1>2. ASSUME NEW i \in 1 .. Len(s) PROVE s[i].msg \in Msgs
  <2>1. s[i] \in Frame
    BY <1>1
  <2> QED
    BY <2>1 DEF Frame
<1>3. MessagesOf(s) \in [1 .. Len(s) -> Msgs]
  BY <1>1, <1>2 DEF MessagesOf
<1> HIDE DEF MessagesOf
<1> QED
  BY <1>1, <1>3

LEMMA MessagesOfAppend ==
  ASSUME NEW s \in Seq(Frame), NEW f \in Frame
  PROVE  MessagesOf(Append(s, f)) = Append(MessagesOf(s), f.msg)
<1>1. MessagesOf(s) \in Seq(Msgs) /\ Len(MessagesOf(s)) = Len(s)
  BY MessagesOfType
<1>2. DOMAIN MessagesOf(Append(s, f)) = DOMAIN Append(MessagesOf(s), f.msg)
  BY <1>1 DEF MessagesOf, Frame
<1>3. \A i \in 1 .. Len(s) + 1 :
        MessagesOf(Append(s, f))[i] = Append(MessagesOf(s), f.msg)[i]
  BY <1>1 DEF MessagesOf, Frame
<1> QED
  BY <1>1, <1>2, <1>3 DEF MessagesOf, Frame

\* A frame that enters c's stream tears it if it is cut short, and leaves it torn if it was.
LEMMA WriteTears ==
  ASSUME TypeOK, NEW c \in Conns, NEW m \in Msgs, NEW n \in Nat, NEW b \in BOOLEAN,
         Write(c, m, n, b)
  PROVE  /\ Torn(c)' <=> Torn(c) \/ n # FrameLen(m)
         /\ \A d \in Conns \ {c} : Torn(d)' <=> Torn(d)
<1>1. frames \in [Conns -> Seq(Frame)] /\ written[c] \in Nat
  BY DEF TypeOK, StreamTypeOK
<1> DEFINE f == [msg |-> m, start |-> written[c], len |-> n, direct |-> b]
<1>2. f \in Frame /\ (Whole(f) <=> n = FrameLen(m))
  BY <1>1 DEF Frame, Whole
<1>3. frames' = [frames EXCEPT ![c] = Append(@, f)]
  BY DEF Write
<1> HIDE DEF f
<1>4. \A d \in Conns \ {c} : frames'[d] = frames[d]
  BY <1>1, <1>3
<1>5. frames'[c] = Append(frames[c], f)
  BY <1>1, <1>3
<1>6. \A i \in 1 .. Len(frames[c]) : frames'[c][i] = frames[c][i]
  BY <1>1, <1>2, <1>5
<1>7. frames'[c][Len(frames[c]) + 1] = f /\ DOMAIN frames'[c] = 1 .. Len(frames[c]) + 1
  BY <1>1, <1>2, <1>5
<1>8. Len(frames[c]) \in Nat /\ DOMAIN frames[c] = 1 .. Len(frames[c])
  BY <1>1
<1>9. Torn(c)' <=> \E i \in 1 .. Len(frames[c]) + 1 : ~Whole(frames'[c][i])
  BY <1>7 DEF Torn, Whole, FrameLen
<1>10. Torn(c)' <=> Torn(c) \/ ~Whole(f)
  BY <1>6, <1>7, <1>8, <1>9 DEF Torn
<1>11. \A d \in Conns \ {c} : Torn(d)' <=> Torn(d)
  BY <1>4 DEF Torn, Whole, FrameLen
<1> QED
  BY <1>2, <1>10, <1>11

LEMMA WriteRefines ==
  ASSUME TypeOK, NEW c \in Conns, NEW m \in Msgs, NEW n \in Nat, NEW b \in BOOLEAN,
         Write(c, m, n, b), UNCHANGED taken
  PROVE  Link!Next
<1>1. frames \in [Conns -> Seq(Frame)] /\ written[c] \in Nat
  BY DEF TypeOK, StreamTypeOK
<1> DEFINE f == [msg |-> m, start |-> written[c], len |-> n, direct |-> b]
<1>2. f \in Frame /\ f.msg = m
  BY <1>1 DEF Frame
<1>3. frames' = [frames EXCEPT ![c] = Append(@, f)]
  BY DEF Write
<1> HIDE DEF f
<1>4. MessagesOf(frames'[c]) = Append(MessagesOf(frames[c]), m)
  BY <1>1, <1>2, <1>3, MessagesOfAppend
<1>5. \A d \in Conns \ {c} : frames'[d] = frames[d]
  BY <1>1, <1>3
<1>6. Sent' = [Sent EXCEPT ![c] = Append(@, m)]
  BY <1>4, <1>5 DEF Sent
<1>7. CASE n = FrameLen(m)
  <2>1. \A d \in Conns : Torn(d)' <=> Torn(d)
    BY <1>7, WriteTears
  <2>2. Broken' = Broken
    BY <2>1 DEF Broken
  <2>3. Link!Send(c, m)
    BY <1>6, <2>2 DEF Link!Send
  <2> QED
    BY <2>3 DEF Link!Next
<1>8. CASE n # FrameLen(m)
  <2>1. Torn(c)' /\ \A d \in Conns \ {c} : Torn(d)' <=> Torn(d)
    BY <1>8, WriteTears
  <2>2. Broken' = Broken \cup {c}
    BY <2>1 DEF Broken
  <2>3. Link!SendInPart(c, m)
    BY <1>6, <2>2 DEF Link!SendInPart
  <2> QED
    BY <2>3 DEF Link!Next
<1> QED
  BY <1>7, <1>8

\* A step that leaves the frames and what was taken of them is invisible.
LEMMA InvisibleSteps ==
  ASSUME UNCHANGED <<frames, taken>>
  PROVE  UNCHANGED Link!vars
BY DEF Link!vars, Sent, Broken, Torn, Whole, FrameLen, MessagesOf

LEMMA ReadRefines ==
  ASSUME IndInv, ReadFrame
  PROVE  Link!Next \/ UNCHANGED Link!vars
<1>1. call \in Calls /\ call.conn \in Conns /\ call.hdr \in Header /\ call.hdr.msg \in Msgs \cup Junk
  BY DEF IndInv, TypeOK, RecvTypeOK, Calls, Header
<1>2. taken \in [Conns -> Seq(Msgs \cup Junk)]
  BY DEF IndInv, TypeOK, RecvTypeOK
<1>3. UNCHANGED frames
  BY DEF ReadFrame, Take
<1>4. CASE UNCHANGED taken
  BY <1>3, <1>4, InvisibleSteps
<1>5. CASE taken' = [taken EXCEPT ![call.conn] = Append(@, call.hdr.msg)]
  <2>1. UNCHANGED Sent /\ UNCHANGED Broken
    BY <1>3 DEF Sent, Broken, Torn, Whole, FrameLen, MessagesOf
  <2>2. CASE Torn(call.conn)
    <3>1. call.conn \in Broken
      BY <1>1, <2>2 DEF Broken
    <3>2. Link!ReceiveAnything(call.conn)
      BY <1>1, <1>5, <2>1, <3>1 DEF Link!ReceiveAnything
    <3> QED
      BY <1>1, <3>2 DEF Link!Next
  <2>3. CASE ~Torn(call.conn)
    <3>1. HeaderAfter(frames[call.conn], taken[call.conn], call.hdr)
      BY <2>3 DEF ReadFrame, IndInv, CallKnows, HeaderIsNext
    <3>2. frames[call.conn] \in Seq(Frame) /\ taken[call.conn] \in Seq(Msgs \cup Junk)
      BY <1>1, <1>2 DEF IndInv, TypeOK, StreamTypeOK
    <3>3. /\ Len(Sent[call.conn]) = Len(frames[call.conn])
          /\ \A i \in 1 .. Len(frames[call.conn]) : Sent[call.conn][i] = frames[call.conn][i].msg
      <4>1. Sent[call.conn] = MessagesOf(frames[call.conn])
        BY <1>1 DEF Sent
      <4>2. Len(MessagesOf(frames[call.conn])) = Len(frames[call.conn])
        BY <3>2, MessagesOfType
      <4>3. \A i \in 1 .. Len(frames[call.conn]) :
              MessagesOf(frames[call.conn])[i] = frames[call.conn][i].msg
        BY <3>2 DEF MessagesOf
      <4> QED
        BY <4>1, <4>2, <4>3
    <3>4. /\ Len(taken[call.conn]) < Len(Sent[call.conn])
          /\ Sent[call.conn][Len(taken[call.conn]) + 1] = call.hdr.msg
      <4>1. /\ Len(taken[call.conn]) < Len(frames[call.conn])
            /\ frames[call.conn][Len(taken[call.conn]) + 1].msg = call.hdr.msg
        BY ONLY <3>1 DEF HeaderAfter
      <4>2. Len(taken[call.conn]) + 1 \in 1 .. Len(frames[call.conn])
        BY ONLY <3>2, <4>1
      <4> QED
        BY ONLY <3>3, <4>1, <4>2
    <3>5. call.conn \notin Broken
      BY <1>1, <2>3 DEF Broken
    <3>6. Link!Receive(call.conn)
      BY <1>1, <1>2, <1>5, <2>1, <3>4, <3>5 DEF Link!Receive
    <3> QED
      BY <1>1, <3>6 DEF Link!Next
  <2> QED
    BY <2>2, <2>3
<1> QED
  BY <1>4, <1>5 DEF ReadFrame

LEMMA StepRefines == IndInv /\ [Next]_vars => [Link!Next]_Link!vars
<1> SUFFICES ASSUME IndInv, [Next]_vars PROVE Link!Next \/ UNCHANGED Link!vars
  OBVIOUS
<1>1. CASE UNCHANGED vars
  BY <1>1, InvisibleSteps DEF vars, streamVars, recvVars
<1>2. ASSUME NEW c \in Conns, SenderStep(c) PROVE Link!Next \/ UNCHANGED Link!vars
  <2>1. UNCHANGED taken
    BY <1>2 DEF SenderStep, recvVars
  <2>2. CASE UNCHANGED <<frames, written, arrived, consumed>>
    BY <2>1, <2>2, InvisibleSteps
  <2>3. CASE \E m \in Msgs, b \in BOOLEAN : \E n \in 1 .. FrameLen(m) : Write(c, m, n, b)
    <3> PICK m \in Msgs, b \in BOOLEAN : \E n \in 1 .. FrameLen(m) : Write(c, m, n, b)
      BY <2>3
    <3> PICK n \in 1 .. FrameLen(m) : Write(c, m, n, b)
      OBVIOUS
    <3> QED
      BY <2>1, FrameLenNat, WriteRefines DEF IndInv
  <2> QED
    BY <1>2, <2>2, <2>3, SenderWrites DEF IndInv
<1>3. ASSUME NEW c \in Conns, NetworkStep(c) PROVE UNCHANGED Link!vars
  BY <1>3, InvisibleSteps DEF NetworkStep, Arrive, PeerReset, recvVars
<1>4. CASE ReceiverStep
  <2>1. CASE ReadFrame
    BY <2>1, ReadRefines
  <2>2. CASE Select \/ CheckAvailable \/ PeekHeader \/ PayloadComplete \/ PayloadIncomplete
    BY <2>2, InvisibleSteps
    DEF Select, CheckAvailable, PeekHeader, PayloadComplete, PayloadIncomplete, streamVars
  <2>3. CASE \E c \in Conns : CloseReceiver(c) \/ \E kind \in CallKinds : RecvCall(c, kind)
    <3>1. ASSUME NEW c \in Conns, CloseReceiver(c) PROVE UNCHANGED <<frames, taken>>
      BY <3>1 DEF CloseReceiver, streamVars
    <3>2. ASSUME NEW c \in Conns, NEW kind \in CallKinds, RecvCall(c, kind)
          PROVE  UNCHANGED <<frames, taken>>
      BY <3>2 DEF RecvCall, streamVars
    <3> QED
      BY <2>3, <3>1, <3>2, InvisibleSteps
  <2> QED
    BY <1>4, <2>1, <2>2, <2>3 DEF ReceiverStep, RecvStep
<1> QED
  BY <1>1, <1>2, <1>3, <1>4 DEF Next

LEMMA InitRefines == Init => Link!Init
<1> SUFFICES ASSUME Init PROVE Link!Init
  OBVIOUS
<1>1. \A c \in Conns : frames[c] = << >>
  <2>1. StreamInit
    BY DEF Init
  <2>2. frames = [c \in Conns |-> << >>]
    BY <2>1 DEF StreamInit
  <2> QED
    BY <2>2, Zenon
<1>2. Sent = [c \in Conns |-> << >>]
  BY <1>1 DEF Sent, MessagesOf
<1>3. Broken = {}
  BY <1>1 DEF Broken, Torn
<1>4. taken = [c \in Conns |-> << >>]
  BY DEF Init, RecvInit
<1> QED
  BY <1>2, <1>3, <1>4 DEF Link!Init

\* What an application sees of MessageQueue::send, recv and recvAll on each connection is a
\* FIFO link that breaks, for that connection alone, with a write that was cut short.
THEOREM Refinement == Spec => ImplementsFifoLink
<1> QED
  BY InitRefines, StepRefines, Inductive, PTL DEF Spec, ImplementsFifoLink, Link!Spec
=============================================================================
