------------------------------- MODULE Md5Pieces -------------------------------
(* md5 of data that comes in pieces: whole blocks are worked into the        *)
(* context, the bytes left over are kept in a second context for the next    *)
(* piece, and after every piece the digest of all data so far is made from   *)
(* a padded copy of them.                                                    *)
(*                                                                           *)
(* A byte of data is its number in the message.  The chaining value is the   *)
(* sequence of the blocks that were worked in: what the rounds compute from  *)
(* it is left out.  Bounds: MaxBytes.                                        *)
EXTENDS Integers, Sequences, FiniteSetsExt

CONSTANTS
  BlockSize,     \* 64: bytes of a block
  LengthSize,    \* 8: bytes of the length at the end of the last block
  MaxBytes       \* bounds the data

ASSUME Md5Assumption ==
  BlockSize \in Nat /\ LengthSize \in 1 .. BlockSize - 1 /\ MaxBytes \in Nat

VARIABLES
  ctx, ctxBackup,   \* ctx_ and ctx_backup_
  digest,           \* msg_digest_, <<>> until the constructor has made it
  message,          \* history: the data the digest should be of
  piece             \* history: bytes in the last piece

md5Vars == <<ctx, ctxBackup, digest, message, piece>>

Zero == 0
Mark == -1                                        \* 0x80
LengthBytes(n) == [i \in 1 .. LengthSize |-> -2 - n]
Zeros(n) == [i \in 1 .. n |-> Zero]

NewContext == [state |-> <<>>, bytes |-> 0, buffer |-> Zeros(BlockSize)]

Md5TypeOK ==
  LET Contexts == [state : Seq([1 .. BlockSize -> Int]), bytes : Nat, buffer : [1 .. BlockSize -> Int]] IN
  /\ ctx \in Contexts /\ ctxBackup \in Contexts
  /\ digest \in Seq([1 .. BlockSize -> Int])
  /\ message \in Seq(Nat) /\ piece \in 0 .. MaxBytes

Md5Init == ctx = NewContext /\ ctxBackup = NewContext /\ digest = <<>> /\ message = <<>> /\ piece = 0

\* process(msg) for each of the blocks: they are worked into the state.
Worked(state, blocks) == state \o blocks

\* Overwrites the bytes of a buffer from position n on.
CopiedTo(buffer, n, bytes) ==
  [i \in DOMAIN buffer |-> IF i - n \in DOMAIN bytes THEN bytes[i - n] ELSE buffer[i]]

\* The blocks of a sequence of bytes, and what they leave over.
Chunks(bytes) ==
  [j \in 1 .. Len(bytes) \div BlockSize |-> SubSeq(bytes, (j - 1) * BlockSize + 1, j * BlockSize)]
LeftOver(bytes) == SubSeq(bytes, Len(bytes) - (Len(bytes) % BlockSize) + 1, Len(bytes))

\* A piece is taken in: it fills up the buffer first, then whole blocks are worked in.  Afterwards the
\* buffer holds bytes, or the piece has some remaining, but not both.
Absorbed(start, data) ==
  LET inBuf == start.bytes % BlockSize
      copied == IF inBuf = 0 THEN <<>> ELSE SubSeq(data, 1, Min({Len(data), BlockSize - inBuf}))
      filled == CopiedTo(start.buffer, inBuf, copied)
      rest == SubSeq(data, Len(copied) + 1, Len(data))
      first == IF inBuf + Len(copied) = BlockSize THEN Worked(start.state, <<filled>>) ELSE start.state
  IN
  [context |-> [state |-> Worked(first, Chunks(rest)), bytes |-> start.bytes + Len(data),
                buffer |-> filled],
   held |-> (inBuf + Len(copied)) % BlockSize,
   remaining |-> LeftOver(rest)]

WithLength(block, n) == SubSeq(block, 1, BlockSize - LengthSize) \o LengthBytes(n)

\* The blocks at the end: only the bytes remaining from the piece decide whether there are two.
LastBlocks(a) ==
  LET bytes == SubSeq(a.context.buffer, 1, a.held) \o a.remaining
      padded == bytes \o <<Mark>> \o Zeros(BlockSize - Len(bytes) - 1)
      n == a.context.bytes
  IN
  IF Len(a.remaining) >= BlockSize - LengthSize
    THEN <<padded, WithLength(Zeros(BlockSize), n)>>
    ELSE <<WithLength(padded, n)>>

\* Mutant of Kept: the bytes that remain are not put into the buffer.
KeptWithoutRest(a) == a.context

\* The context to go on from, with the bytes that remain at the start of its buffer.
Kept(a) == [a.context EXCEPT !.buffer = CopiedTo(@, 0, a.remaining)]

\* process(data, add), and the constructor, which does not add.
Process(n, add) ==
  LET data == [i \in 1 .. n |-> (IF add THEN Len(message) ELSE 0) + i]
      a == Absorbed(IF add THEN ctxBackup ELSE ctx, data)
  IN
  /\ message' = (IF add THEN message ELSE <<>>) \o data
  /\ piece' = n
  /\ ctxBackup' = Kept(a)
  /\ digest' = Worked(a.context.state, LastBlocks(a))
  /\ ctx' = NewContext

Md5Next ==
  \/ \E n \in 0 .. MaxBytes : Process(n, FALSE)
  \/ digest # <<>> /\ \E n \in 0 .. MaxBytes - Len(message) : Process(n, TRUE)

Md5Spec == Md5Init /\ [][Md5Next]_md5Vars
-----------------------------------------------------------------------------
\* The blocks of RFC 1321: the data, a mark, the fewest zeros that leave room for the length in a
\* whole number of blocks, and the length.
Md5Blocks(data) ==
  LET zeros == CHOOSE k \in 0 .. BlockSize - 1 : (Len(data) + 1 + k + LengthSize) % BlockSize = 0 IN
  Chunks(data \o <<Mark>> \o Zeros(zeros) \o LengthBytes(Len(data)))

\* The last piece ended inside the block it began in, and too late for the length to fit in.
NoRoomInBuffer ==
  LET inBlock == Len(message) % BlockSize IN inBlock >= BlockSize - LengthSize /\ piece < inBlock

\* The digest is that of all data together however it was cut into pieces, wherever the pieces end in
\* a block, unless the last one leaves no room in a buffer that an earlier piece began; a digest that
\* was wrong does not spoil the ones after it.
PiecesAddUp == digest # <<>> /\ ~NoRoomInBuffer => digest = Md5Blocks(message)

\* What the tests say of process(data, true): the digest is that of all data together.
DigestOfWhole == digest # <<>> => digest = Md5Blocks(message)
=============================================================================
