------------------------------ MODULE Serializer ------------------------------
(* Serializer and VersionedDeserializer: a growing buffer with a length and  *)
(* a read position, objects that are copied and moved, views of the unread   *)
(* part of another object that advance it when they are destroyed, and       *)
(* strings and lists behind a length, of variable or of fixed size.          *)
(*                                                                           *)
(* A byte is a number below 2 * ChunkValues or Junk, memory nobody wrote.    *)
(* The data pointer of an object is a block and an offset.  Blocks are not   *)
(* given out again, and what uses a freed one ends the behaviour.  Bytes     *)
(* beyond the length are forgotten when an object shrinks.                   *)
(* Assignment is left out (it is destruction and construction), and views of *)
(* views are.                                                                *)
EXTENDS Integers, Sequences, FiniteSetsExt

CONSTANTS
  Objects,       \* the places that may hold a Serializer
  Origins,       \* those in which one is constructed; the others receive copies, moves, views
  Blocks,        \* the blocks the heap may give out, in total
  FirstSize,     \* 8: the smallest size of a buffer
  ChunkValues,   \* 2^7: the values of a chunk of a number of variable size
  MaxChunks,     \* 5: the most chunks of such a number
  WordBytes,     \* 4: the bytes of an unsigned int
  MaxLength,     \* bounds the length of an object
  MaxText,       \* bounds the length of a string
  Counts,        \* the lengths of long strings and lists
  RawBytes,      \* the single bytes that are pushed
  Amounts,       \* the lengths that are set and the numbers of bytes that are popped
  Operations,    \* bounds the operations of a behaviour
  Null, Junk

\* Numbers: the powers of b, the number with certain digits and the digits of a number, lowest first.
Power(b) == LET p[k \in Nat] == IF k = 0 THEN 1 ELSE b * p[k - 1] IN p
Number(b) == LET v[s \in Seq(Nat)] == IF s = <<>> THEN 0 ELSE Head(s) + b * v[Tail(s)] IN v
Digits(b) == LET d[k \in Nat] == IF k = 0 THEN [n \in Nat |-> <<>>]
                                 ELSE [n \in Nat |-> <<n % b>> \o d[k - 1][n \div b]] IN d

Byte == 0 .. 2 * ChunkValues - 1
WordValues == Power(2 * ChunkValues)[WordBytes]

ASSUME SerializerAssumption ==
  /\ FirstSize \in Nat \ {0} /\ ChunkValues \in Nat \ {0, 1} /\ WordBytes \in Nat \ {0}
  /\ MaxChunks \in Nat \ {0} /\ MaxLength \in Nat /\ MaxText \in 0 .. WordValues - 1
  /\ WordValues <= Power(ChunkValues)[MaxChunks] /\ Counts \subseteq 0 .. WordValues - 1 /\ Operations \in Nat
  /\ RawBytes \subseteq Byte /\ Amounts \subseteq Nat
  /\ Blocks \subseteq Nat /\ Origins \subseteq Objects
  /\ Null \notin Blocks \cup Objects /\ Junk \notin 0 .. 2 * ChunkValues

VARIABLES
  obj,        \* obj[o]: the object in place o
  memory,     \* memory[b]: the bytes of block b, <<>> before it is allocated
  freed,      \* the blocks that have been freed
  failure,    \* Null, or freed memory used by an object, or an exception from its destructor
  content,    \* history: content[o]: the bytes o should hold
  texts,      \* history: texts[o]: where a string or a list has been put: kind, first and end
  suspect,    \* history: the objects whose data a copy, a move or their base has put at risk
  doomed,     \* history: the views that were moved, or whose base was read or changed
  operations  \* counts the operations

serVars == <<obj, memory, freed, failure, content, texts, suspect, doomed, operations>>

NoObject == [alive |-> FALSE, owns |-> FALSE, store |-> Null, size |-> 0, data |-> Null,
             offset |-> 0, length |-> 0, readPos |-> 0, base |-> Null]
NewObject == [NoObject EXCEPT !.alive = TRUE, !.owns = TRUE]

Memory == Seq(Byte \cup {Junk})
Object == [alive : BOOLEAN, owns : BOOLEAN, store : Blocks \cup {Null}, size : Nat, data : Blocks \cup {Null},
           offset : Nat, length : Nat, readPos : Nat, base : Objects \cup {Null}]

SerTypeOK ==
  /\ obj \in [Objects -> Object] /\ memory \in [Blocks -> Memory] /\ content \in [Objects -> Memory]
  /\ texts \in [Objects -> SUBSET [kind : {"string", "counted"}, first : Nat, end : Nat]]
  /\ freed \subseteq Blocks /\ suspect \subseteq Objects /\ doomed \subseteq Objects
  /\ failure \in Objects \cup {Null} /\ operations \in 0 .. Operations

SerInit ==
  /\ obj = [o \in Objects |-> NoObject]
  /\ memory = [b \in Blocks |-> <<>>]
  /\ freed = {} /\ suspect = {} /\ doomed = {} /\ failure = Null /\ operations = 0
  /\ content = [o \in Objects |-> <<>>] /\ texts = [o \in Objects |-> {}]

Live(o) == failure = Null /\ obj[o].alive
BytesLeft(o) == obj[o].length - obj[o].readPos
Bytes(m, s) == [i \in 1 .. s.length |-> m[s.data][s.offset + i]]
ViewsOf(o) == {v \in Objects : obj[v].alive /\ obj[v].base = o}

-----------------------------------------------------------------------------
(* Numbers of variable size: chunks of 7 bits, lowest first, all but the     *)
(* last with the highest bit set.                                            *)

\* Mutant of PushVarSize: the bit is not set.
WithoutBits[n \in Nat] ==
  IF n < ChunkValues THEN <<n>> ELSE <<n % ChunkValues>> \o WithoutBits[n \div ChunkValues]
VarSizeWithoutBits(n) == WithoutBits[n]

VarSize[n \in Nat] ==
  IF n < ChunkValues THEN <<n>> ELSE <<(n % ChunkValues) + ChunkValues>> \o VarSize[n \div ChunkValues]
PushVarSize(n) == VarSize[n]

\* How many bytes PopVarSize takes, 0 if no number ends there.
VarSizeEnd(bytes) ==
  LET last == {j \in 1 .. Len(bytes) : j <= MaxChunks /\ bytes[j] < ChunkValues} IN
  IF last = {} THEN 0 ELSE Min(last)

\* Bits beyond the word are shifted out.
VarSizeValue(bytes) ==
  Number(ChunkValues)[[j \in DOMAIN bytes |-> bytes[j] % ChunkValues]] % WordValues

\* An unsigned int, and back.
Word(n) == Digits(2 * ChunkValues)[WordBytes][n]
WordValue(bytes) == Number(2 * ChunkValues)[SubSeq(bytes, 1, WordBytes)]

-----------------------------------------------------------------------------
(* Writing.                                                                  *)

\* The first of 8, 16, 32 ... that is large enough.
SizeFor(n) == Min({k \in {FirstSize * Power(2)[e] : e \in 0 .. n} : k >= n})

\* EnsureSize(n): a vector that was cleared grows within its block if that is large enough.
Fits(s, n) == s.size >= n
InBlock(s, n) == s.store # Null /\ Len(memory[s.store]) >= SizeFor(n)
Fresh == {b \in Blocks : memory[b] = <<>>}
CanEnsure(s, n) == s.owns /\ (Fits(s, n) \/ InBlock(s, n) \/ Fresh # {})
NextBlock(s, n) == IF InBlock(s, n) THEN s.store ELSE Min(Fresh)

\* Mutant of Ensured: the data pointer is not set anew.
EnsuredKeepsData(s, n) ==
  IF Fits(s, n) THEN s
  ELSE [s EXCEPT !.size = SizeFor(n), !.store = NextBlock(s, n),
                 !.data = IF s.data = Null THEN NextBlock(s, n) ELSE s.data]

\* The object afterwards.
Ensured(s, n) ==
  IF Fits(s, n) THEN s
  ELSE [s EXCEPT !.size = SizeFor(n), !.store = NextBlock(s, n), !.data = NextBlock(s, n), !.offset = 0]

Moves(s, n) == ~Fits(s, n) /\ ~InBlock(s, n)

\* The heap afterwards: a new block starts with the bytes of the vector's old one.
MemoryEnsured(s, n) ==
  IF Moves(s, n)
    THEN LET old == IF s.store = Null THEN <<>> ELSE SubSeq(memory[s.store], 1, s.size) IN
         [memory EXCEPT ![NextBlock(s, n)] =
           [i \in 1 .. SizeFor(n) |-> IF i <= Len(old) THEN old[i] ELSE Junk]]
    ELSE memory
FreedEnsured(s, n) == IF Moves(s, n) /\ s.store # Null THEN freed \cup {s.store} ELSE freed

\* memcpy to the end of object s.
Appended(m, s, bytes) ==
  IF bytes = <<>> THEN m
  ELSE [m EXCEPT ![s.data] = [i \in DOMAIN @ |->
          LET k == i - s.offset - s.length IN IF k \in DOMAIN bytes THEN bytes[k] ELSE @[i]]]

\* PushRawData, and with it every Push: the bytes are appended, those of a string in one growth of
\* the buffer instead of one for each.  An object without storage throws and is left alone.  Views
\* of an object whose block moves are left with the old one.
PushBytes(o, bytes) ==
  LET n == obj[o].length + Len(bytes)
      s == Ensured(obj[o], n)
  IN
  /\ Live(o) /\ CanEnsure(obj[o], n) /\ n <= MaxLength
  /\ freed' = FreedEnsured(obj[o], n)
  /\ IF s.data \in freed'
       THEN failure' = o /\ UNCHANGED <<obj, memory, content>>
       ELSE /\ obj' = [obj EXCEPT ![o] = [s EXCEPT !.length = n]]
            /\ memory' = Appended(MemoryEnsured(obj[o], n), s, bytes)
            /\ content' = [content EXCEPT ![o] = @ \o bytes]
            /\ UNCHANGED failure
  /\ suspect' = IF Moves(obj[o], n) THEN suspect \cup ViewsOf(o) ELSE suspect
  /\ UNCHANGED doomed

PushUnsignedChar(o, byte) == PushBytes(o, <<byte>>) /\ UNCHANGED texts

\* A length and n bytes behind it, whose values do not matter.
PushText(o, kind, length, n) ==
  LET bytes == length \o [i \in 1 .. n |-> 0] IN
  /\ PushBytes(o, bytes)
  /\ texts' = [texts EXCEPT ![o] =
       @ \cup {[kind |-> kind, first |-> obj[o].length, end |-> obj[o].length + Len(bytes)]}]

PushString(o, n) == PushText(o, "string", PushVarSize(n), n)

\* Also a SerializableArray whose elements take one byte each.
PushLongString(o, n) == PushText(o, "counted", Word(n), n)

\* Nothing is known of the bytes behind those of s.
Forget(m, s) ==
  IF s.store = Null THEN m
  ELSE [m EXCEPT ![s.store] = [i \in DOMAIN @ |-> IF i > s.length THEN Junk ELSE @[i]]]

Resized(s, n) == [s EXCEPT !.length = n, !.readPos = Min({@, n})]

\* SetLength, which is also GetDataWritable.
SetLength(o, n) ==
  /\ Live(o) /\ CanEnsure(obj[o], n) /\ n <= MaxLength
  /\ obj' = [obj EXCEPT ![o] = Resized(Ensured(obj[o], n), n)]
  /\ memory' = Forget(MemoryEnsured(obj[o], n), obj'[o])
  /\ freed' = FreedEnsured(obj[o], n)
  /\ IF obj'[o].data \in freed' \/ n = 0
       THEN content' = [content EXCEPT ![o] = <<>>]
       ELSE content' = [content EXCEPT ![o] =
              SubSeq(@, 1, Min({n, Len(@)})) \o SubSeq(Bytes(memory', obj'[o]), Len(@) + 1, n)]
  /\ texts' = [texts EXCEPT ![o] = {t \in @ : t.end <= n}]
  /\ suspect' = suspect \cup ViewsOf(o) /\ doomed' = doomed \cup ViewsOf(o)
  /\ UNCHANGED failure

Cleared(s) == [s EXCEPT !.size = 0, !.data = Null, !.length = 0, !.readPos = 0, !.offset = 0]

\* The storage keeps its block.
Clear(o) ==
  /\ Live(o)
  /\ obj' = [obj EXCEPT ![o] = Cleared(@)]
  /\ memory' = Forget(memory, obj'[o])
  /\ content' = [content EXCEPT ![o] = <<>>] /\ texts' = [texts EXCEPT ![o] = {}]
  /\ suspect' = suspect \cup ViewsOf(o) /\ doomed' = doomed \cup ViewsOf(o)
  /\ UNCHANGED <<freed, failure>>

\* After Clear the file gives a length n and then k bytes, all of the same value.  With k < n it
\* ends too early: the exception leaves an object of length n with bytes nobody wrote.
ReadFromFile(o, n, k, byte) ==
  LET s == Cleared(obj[o]) IN
  /\ Live(o) /\ CanEnsure(s, n) /\ k \in 0 .. n /\ n <= MaxLength
  /\ obj' = [obj EXCEPT ![o] = Resized(Ensured(s, n), n)]
  /\ memory' = LET m == Forget(MemoryEnsured(s, n), [obj'[o] EXCEPT !.length = 0]) IN
       IF n = 0 THEN m
       ELSE [m EXCEPT ![obj'[o].data] = [i \in DOMAIN @ |-> IF i <= k THEN byte ELSE @[i]]]
  /\ freed' = FreedEnsured(s, n)
  /\ content' = [content EXCEPT ![o] = [i \in 1 .. n |-> IF i <= k THEN byte ELSE Junk]]
  /\ texts' = [texts EXCEPT ![o] = {}]
  /\ suspect' = suspect \cup ViewsOf(o) /\ doomed' = doomed \cup ViewsOf(o)
  /\ UNCHANGED failure

-----------------------------------------------------------------------------
(* Reading.                                                                  *)

\* The read position of o moves on by n, also when what follows throws.
Advance(o, n) ==
  /\ IF obj[o].data \in freed /\ n > 0
       THEN failure' = o /\ UNCHANGED obj
       ELSE obj' = [obj EXCEPT ![o].readPos = @ + n] /\ UNCHANGED failure
  /\ doomed' = IF n > 0 THEN doomed \cup ViewsOf(o) ELSE doomed
  /\ UNCHANGED <<memory, freed, content, texts, suspect>>

\* PopRawData, every Pop, and PopAndDiscard; with too few bytes left they throw and change nothing.
PopRawData(o, n) ==
  /\ Live(o) /\ n > 0 /\ BytesLeft(o) >= n
  /\ Advance(o, n)

Unread(o) == SubSeq(Bytes(memory, obj[o]), obj[o].readPos + 1, obj[o].length)

\* How far PopString gets in the unread bytes: through all bytes or five of them when no number
\* ends there, to the end of the number when the text is too short, else to the end of the text.
TextEnd(bytes) ==
  LET k == VarSizeEnd(bytes)
      end == k + VarSizeValue(SubSeq(bytes, 1, k))
  IN
  IF k = 0 THEN Min({Len(bytes), MaxChunks}) ELSE IF end > Len(bytes) THEN k ELSE end

\* How far PopLongString gets, and how far SerializableArray::deserialize may get: the number is
\* read or nothing is; elements are read until one is missing, if there is memory for them all.
LongTextEnds(bytes) ==
  LET end == WordBytes + WordValue(bytes) IN
  IF Len(bytes) < WordBytes THEN {} ELSE IF end > Len(bytes) THEN {WordBytes} ELSE {end}
ListEnds(bytes) == IF Len(bytes) < WordBytes THEN {} ELSE LongTextEnds(bytes) \cup {
  Min({WordBytes + WordValue(bytes), Len(bytes)})}

\* The position moves to one of the ends, or anything may happen in freed memory.  Not where the
\* first k bytes, those of the number, were never written.
PopText(o, k, ends) ==
  /\ Live(o) /\ BytesLeft(o) > 0
  /\ IF obj[o].data \in freed
       THEN Advance(o, 1)
       ELSE /\ \A i \in DOMAIN Unread(o) : i <= k => Unread(o)[i] # Junk
            /\ \E end \in ends : Advance(o, end)

PopString(o) == PopText(o, MaxChunks, {TextEnd(Unread(o))})
PopLongString(o) == PopText(o, WordBytes, LongTextEnds(Unread(o)))
PopList(o) == PopText(o, WordBytes, ListEnds(Unread(o)))

-----------------------------------------------------------------------------
(* Construction and destruction.                                             *)

Construct(o) ==
  /\ failure = Null /\ o \in Origins /\ ~obj[o].alive
  /\ obj' = [obj EXCEPT ![o] = NewObject]
  /\ content' = [content EXCEPT ![o] = <<>>] /\ texts' = [texts EXCEPT ![o] = {}]
  /\ UNCHANGED <<memory, freed, failure, suspect, doomed>>

\* VersionedDeserializer(base): a view of what is left to read.
View(v, o) ==
  /\ Live(o) /\ ~obj[v].alive /\ obj[o].base = Null
  /\ obj' = [obj EXCEPT ![v] =
       [NoObject EXCEPT !.alive = TRUE, !.data = obj[o].data, !.offset = obj[o].offset + obj[o].readPos,
                        !.length = BytesLeft(o), !.base = o]]
  /\ content' = [content EXCEPT ![v] = SubSeq(content[o], obj[o].readPos + 1, Len(content[o]))]
  /\ texts' = [texts EXCEPT ![v] = {}]
  /\ suspect' = IF o \in suspect THEN suspect \cup {v} ELSE suspect
  /\ UNCHANGED <<memory, freed, failure, doomed>>

\* The implicit copy: storage of its own, but the data pointer of the original.
Copy(d, o) ==
  /\ Live(o) /\ ~obj[d].alive /\ obj[o].base = Null
  /\ obj[o].size > 0 => Fresh # {}
  /\ LET b == IF obj[o].size = 0 THEN Null ELSE Min(Fresh) IN
     /\ obj' = [obj EXCEPT ![d] = [obj[o] EXCEPT !.store = b]]
     /\ memory' = IF b = Null THEN memory
                  ELSE [memory EXCEPT ![b] = SubSeq(memory[obj[o].store], 1, obj[o].size)]
  /\ content' = [content EXCEPT ![d] = content[o]] /\ texts' = [texts EXCEPT ![d] = texts[o]]
  /\ suspect' = suspect \cup {d, o} \cup ViewsOf(o)
  /\ UNCHANGED <<freed, failure, doomed>>

\* The implicit move: the source loses its storage and keeps everything else, a base as well.
MoveTo(d, o) ==
  /\ Live(o) /\ ~obj[d].alive
  /\ obj' = [obj EXCEPT ![d] = obj[o], ![o] = [@ EXCEPT !.store = Null, !.size = 0]]
  /\ content' = [content EXCEPT ![d] = content[o]] /\ texts' = [texts EXCEPT ![d] = texts[o]]
  /\ suspect' = suspect \cup {o} \cup ViewsOf(o) \cup (IF o \in suspect THEN {d} ELSE {})
  /\ doomed' = doomed \cup ViewsOf(o) \cup (IF obj[o].base # Null THEN {o, d} ELSE {})
  /\ UNCHANGED <<memory, freed, failure>>

\* What is left when o is gone.  Views of o are left without their base.
Gone(o) ==
  /\ freed' = freed \cup ({obj[o].store} \ {Null})
  /\ content' = [content EXCEPT ![o] = <<>>] /\ texts' = [texts EXCEPT ![o] = {}]
  /\ suspect' = (suspect \cup ViewsOf(o)) \ {o}
  /\ doomed' = (doomed \cup ViewsOf(o) \cup (ViewsOf(obj[o].base) \cap
                  {v \in Objects : obj[o].readPos > 0})) \ {o}
  /\ UNCHANGED memory

Destroy(o) ==
  /\ Live(o) /\ obj[o].base = Null
  /\ obj' = [obj EXCEPT ![o] = NoObject]
  /\ Gone(o)
  /\ UNCHANGED failure

\* Mutant of DestroyView: the base is set to where the view ends.
DestroyViewAtEnd(v) ==
  LET o == obj[v].base IN
  /\ Live(v) /\ o # Null
  /\ IF ~obj[o].alive
       THEN failure' = v /\ UNCHANGED obj
       ELSE obj' = [obj EXCEPT ![o].readPos = @ + obj[v].length, ![v] = NoObject] /\ UNCHANGED failure
  /\ Gone(v)

\* ~VersionedDeserializer: the base discards what the view has read, or throws.
DestroyView(v) ==
  LET o == obj[v].base IN
  /\ Live(v) /\ o # Null
  /\ IF ~obj[o].alive \/ BytesLeft(o) < obj[v].readPos
       THEN failure' = v /\ UNCHANGED <<obj, freed, content, texts, suspect, doomed, memory>>
       ELSE /\ obj' = [obj EXCEPT ![o].readPos = @ + obj[v].readPos, ![v] = NoObject]
            /\ UNCHANGED failure
            /\ Gone(v)

SerNext ==
  /\ operations < Operations /\ operations' = operations + 1
  /\ \E o \in Objects :
       \/ Construct(o) \/ Destroy(o) \/ DestroyView(o) \/ Clear(o)
       \/ PopString(o) \/ PopLongString(o) \/ PopList(o)
       \/ \E b \in RawBytes : PushUnsignedChar(o, b)
       \/ \E n \in 0 .. MaxText : PushString(o, n)
       \/ \E n \in Counts : PushLongString(o, n)
       \/ \E n \in Amounts, b \in RawBytes : \E k \in {n - 1, n} : ReadFromFile(o, n, k, b)
       \/ \E n \in Amounts : SetLength(o, n) \/ PopRawData(o, n)
       \/ \E d \in Objects : View(d, o) \/ Copy(d, o) \/ MoveTo(d, o)

SerSpec == SerInit /\ [][SerNext]_serVars
-----------------------------------------------------------------------------
\* An object holds what was pushed, and its read position stays within it (the assertion in
\* GetBytesLeft), through growth, truncation and exceptions half way through a Pop.  Only a copy or
\* a move of the object, or a change of the object it views, can break this.
Intact ==
  \A o \in Objects :
    obj[o].alive /\ o \notin suspect =>
      /\ obj[o].readPos <= obj[o].length /\ obj[o].length = Len(content[o])
      /\ obj[o].length > 0 => obj[o].data \notin freed /\ Bytes(memory, obj[o]) = content[o]

\* Freed memory is used, and a destructor throws, only by an object left behind by a copy or a move,
\* or by a view whose base was read or changed beside it.
FailuresExplained == failure # Null => failure \in suspect \cup doomed

\* A string or a list that is read from where one was pushed is read to its end, whatever is around
\* it: the number in front says the same to both sides.
StringsAligned ==
  [][\A o \in Objects :
       \A t \in texts[o] :
         /\ o \notin suspect /\ obj[o].readPos = t.first /\ failure' = Null
         /\ IF t.kind = "string" THEN PopString(o) ELSE PopLongString(o) \/ PopList(o)
         => obj'[o].readPos = t.end]_serVars
=============================================================================
