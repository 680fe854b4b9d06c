-------------------------- MODULE Serializer_proofs --------------------------
(* What a Serializer holds and what is read back from it, for any number of  *)
(* objects and blocks, and for lengths, bytes and chunks of any size.        *)
(*                                                                           *)
(* SerInv describes the storage of every live object and ties that of the    *)
(* objects that no copy or move has put at risk to what they should hold;    *)
(* TextsHold says where the texts are.  An action either changes one object  *)
(* (Changed, Resize), or creates one, or removes one.  That both sides take  *)
(* a length for the same is induction over numbers and over sequences of     *)
(* digits, with the theorems of SetInduction.                                *)
EXTENDS Serializer, SetInduction, SequenceTheorems, TLAPS

-----------------------------------------------------------------------------
(* Numbers: the recursive functions exist, and what they return.             *)

\* Power is a function.
LEMMA PowerExists ==
  ASSUME NEW b \in Nat
  PROVE  \E p \in [Nat -> Nat] : p = [k \in Nat |-> IF k = 0 THEN 1 ELSE b * p[k - 1]]
<1> PICK h : h = [k \in Nat |-> [f \in [Nat -> Nat] |-> IF k = 0 THEN 1 ELSE b * f[k - 1]]]
  OBVIOUS
<1> PICK size : size = [k \in Nat |-> k]
  OBVIOUS
<1>1. size \in [Nat -> Nat] /\ \A k \in Nat : size[k] = k
  OBVIOUS
<1>2. \A k \in Nat, f \in [Nat -> Nat] : h[k][f] = IF k = 0 THEN 1 ELSE b * f[k - 1]
  OBVIOUS
<1>3. ASSUME NEW k \in Nat, NEW f \in [Nat -> Nat] PROVE h[k][f] \in Nat
  <2>1. k # 0 => k - 1 \in Nat /\ f[k - 1] \in Nat
    OBVIOUS
  <2> QED
    BY ONLY <1>2, <2>1, k \in Nat, f \in [Nat -> Nat], b \in Nat
<1>4. ASSUME NEW k \in Nat, NEW f \in [Nat -> Nat], NEW g \in [Nat -> Nat],
             \A y \in Nat : size[y] < size[k] => f[y] = g[y]
      PROVE  h[k][f] = h[k][g]
  <2>1. k # 0 => k - 1 \in Nat /\ f[k - 1] = g[k - 1]
    BY ONLY <1>1, <1>4, k \in Nat
  <2> QED
    BY ONLY <1>2, <2>1, k \in Nat, f \in [Nat -> Nat], g \in [Nat -> Nat]
<1>5. Recursive(h, Nat, Nat, size)
  BY ONLY <1>3, <1>4 DEF Recursive
<1>6. Solved(h, Nat, Nat)
  BY <1>1, <1>5, Recursion
<1>7. PICK p \in [Nat -> Nat] : \A k \in Nat : p[k] = h[k][p]
  BY <1>6 DEF Solved
<1>8. \A k \in Nat : p[k] = IF k = 0 THEN 1 ELSE b * p[k - 1]
  BY ONLY <1>2, <1>7
<1> QED
  BY <1>8

\* Its equations.
LEMMA PowerIs ==
  ASSUME NEW b \in Nat
  PROVE  Power(b)[0] = 1 /\ \A k \in Nat : Power(b)[k] \in Nat /\ Power(b)[k + 1] = b * Power(b)[k]
<1>1. Power(b) = [k \in Nat |-> IF k = 0 THEN 1 ELSE b * Power(b)[k - 1]]
  BY PowerExists DEF Power
<1>2. Power(b)[0] = 1 /\ \A k \in Nat : Power(b)[k + 1] = b * Power(b)[k]
  <2> PICK f : f = Power(b)
    OBVIOUS
  <2> QED
    BY <1>1
<1> PICK T : T = {k \in Nat : Power(b)[k] \in Nat}
  OBVIOUS
<1>3. 0 \in T
  BY <1>2
<1>4. ASSUME NEW k \in Nat, k \in T PROVE k + 1 \in T
  <2>1. Power(b)[k] \in Nat /\ Power(b)[k + 1] = b * Power(b)[k]
    BY <1>2, <1>4
  <2> QED
    BY <2>1
<1>5. Nat \subseteq T
  BY ONLY <1>3, <1>4, Induction
<1> QED
  BY <1>2, <1>5
\* Quotient and remainder of a division: the quotient is smaller than what is divided.
LEMMA Division ==
  ASSUME NEW n \in Nat, NEW b \in Nat, b > 1
  PROVE  n % b \in Nat /\ n % b < b /\ n \div b \in Nat /\ n = b * (n \div b) + (n % b) /\ (n > 0 => n \div b < n)
<1>1. n % b \in Nat /\ n % b < b
  OBVIOUS
<1>2. n \div b \in Nat
  OBVIOUS
<1>3. n = b * (n \div b) + (n % b)
  OBVIOUS
<1>4. n > 0 => n \div b < n
  <2> PICK q \in Nat, r \in Nat : q = n \div b /\ r = n % b
    BY <1>1, <1>2
  <2>1. n = b * q + r
    BY <1>3
  <2>2. b * q >= 2 * q
    BY b > 1
  <2> QED
    BY <2>1, <2>2
<1> QED
  BY <1>1, <1>2, <1>3, <1>4

\* Number is a function: the number a sequence of digits stands for, the lowest digit first.
LEMMA NumberExists ==
  ASSUME NEW b \in Nat
  PROVE  \E v \in [Seq(Nat) -> Nat] : v = [s \in Seq(Nat) |-> IF s = <<>> THEN 0 ELSE Head(s) + b * v[Tail(s)]]
<1> PICK S : S = Seq(Nat)
  OBVIOUS
<1> PICK h : h = [s \in S |-> [f \in [S -> Nat] |-> IF s = <<>> THEN 0 ELSE Head(s) + b * f[Tail(s)]]]
  OBVIOUS
<1> PICK size : size = [s \in S |-> Len(s)]
  OBVIOUS
<1>1. size \in [S -> Nat] /\ \A s \in S : size[s] = Len(s)
  OBVIOUS
<1>2. \A s \in S, f \in [S -> Nat] : h[s][f] = IF s = <<>> THEN 0 ELSE Head(s) + b * f[Tail(s)]
  OBVIOUS
<1>3. ASSUME NEW s \in S, s # <<>> PROVE Tail(s) \in S /\ Head(s) \in Nat /\ Len(Tail(s)) < Len(s)
  <2>1. s \in Seq(Nat) /\ Len(s) > 0
    BY <1>3, EmptySeq
  <2> QED
    BY <2>1
<1>4. ASSUME NEW s \in S, NEW f \in [S -> Nat] PROVE h[s][f] \in Nat
  <2>1. CASE s = <<>>
    BY <1>2, <2>1
  <2>2. CASE s # <<>>
    <3>1. f[Tail(s)] \in Nat /\ Head(s) \in Nat
      BY <1>3, <2>2
    <3>2. h[s][f] = Head(s) + b * f[Tail(s)]
      BY <1>2, <2>2
    <3> QED
      BY <3>1, <3>2
  <2> QED
    BY <2>1, <2>2
<1>5. ASSUME NEW s \in S, NEW f \in [S -> Nat], NEW g \in [S -> Nat],
             \A y \in S : size[y] < size[s] => f[y] = g[y]
      PROVE  h[s][f] = h[s][g]
  <2>1. s # <<>> => f[Tail(s)] = g[Tail(s)]
    BY <1>1, <1>3, <1>5
  <2> QED
    BY ONLY <1>2, <2>1, s \in S, f \in [S -> Nat], g \in [S -> Nat]
<1>6. Recursive(h, S, Nat, size)
  BY ONLY <1>4, <1>5 DEF Recursive
<1>7. Solved(h, S, Nat)
  BY <1>1, <1>6, Recursion
<1>8. PICK v \in [S -> Nat] : \A s \in S : v[s] = h[s][v]
  BY <1>7 DEF Solved
<1>9. \A s \in S : v[s] = IF s = <<>> THEN 0 ELSE Head(s) + b * v[Tail(s)]
  BY ONLY <1>2, <1>8
<1> QED
  BY <1>9

\* Its equations.
LEMMA NumberIs ==
  ASSUME NEW b \in Nat
  PROVE  /\ \A s \in Seq(Nat) : Number(b)[s] \in Nat
         /\ Number(b)[<<>>] = 0
         /\ \A s \in Seq(Nat) : s # <<>> => Number(b)[s] = Head(s) + b * Number(b)[Tail(s)]
<1>1. Number(b) = [s \in Seq(Nat) |-> IF s = <<>> THEN 0 ELSE Head(s) + b * Number(b)[Tail(s)]]
  BY NumberExists DEF Number
<1> PICK v : v = Number(b)
  OBVIOUS
<1>2. \A s \in Seq(Nat) : v[s] = IF s = <<>> THEN 0 ELSE Head(s) + b * v[Tail(s)]
  BY <1>1
<1> PICK T : T = {k \in Nat : \A s \in Seq(Nat) : Len(s) = k => v[s] \in Nat}
  OBVIOUS
<1>3. 0 \in T
  <2>1. ASSUME NEW s \in Seq(Nat), Len(s) = 0 PROVE v[s] \in Nat
    <3>1. s = <<>>
      BY <2>1, EmptySeq
    <3>2. v[s] = 0
      BY ONLY <1>2, <3>1, s \in Seq(Nat)
    <3> QED
      BY <3>2
  <2> QED
    BY <2>1
<1>4. ASSUME NEW k \in Nat, k \in T PROVE k + 1 \in T
  <2>1. ASSUME NEW s \in Seq(Nat), Len(s) = k + 1 PROVE v[s] \in Nat
    <3>1. s # <<>> /\ Tail(s) \in Seq(Nat) /\ Len(Tail(s)) = k /\ Head(s) \in Nat
      BY <2>1, EmptySeq
    <3>2. v[Tail(s)] \in Nat
      BY <1>4, <3>1
    <3>3. v[s] = Head(s) + b * v[Tail(s)]
      BY <1>2, <3>1
    <3> PICK w \in Nat, d \in Nat : w = v[Tail(s)] /\ d = Head(s)
      BY <3>1, <3>2
    <3>4. d + b * w \in Nat
      BY ONLY b \in Nat, d \in Nat, w \in Nat
    <3> QED
      BY <3>3, <3>4
  <2> QED
    BY <2>1
<1>5. Nat \subseteq T
  BY ONLY <1>3, <1>4, Induction
<1>6. \A s \in Seq(Nat) : v[s] \in Nat
  <2>1. ASSUME NEW s \in Seq(Nat) PROVE v[s] \in Nat
    <3>1. Len(s) \in T
      BY <1>5
    <3> QED
      BY <3>1
  <2> QED
    BY <2>1
<1>7. <<>> \in Seq(Nat)
  OBVIOUS
<1> QED
  BY <1>2, <1>6, <1>7

\* Digits is a function: a number has k digits, those of its quotient behind its remainder.
LEMMA DigitsExist ==
  ASSUME NEW b \in Nat, b > 1
  PROVE  \E d \in [Nat -> [Nat -> Seq(Nat)]] :
           d = [k \in Nat |-> IF k = 0 THEN [n \in Nat |-> <<>>]
                              ELSE [n \in Nat |-> <<n % b>> \o d[k - 1][n \div b]]]
<1> PICK V : V = [Nat -> Seq(Nat)]
  OBVIOUS
<1> PICK none : none = [n \in Nat |-> <<>>]
  OBVIOUS
<1> PICK more : more = [f \in V |-> [n \in Nat |-> <<n % b>> \o f[n \div b]]]
  OBVIOUS
<1>1. none \in V /\ V # {}
  <2>1. <<>> \in Seq(Nat)
    OBVIOUS
  <2>2. none \in [Nat -> Seq(Nat)]
    BY <2>1
  <2> QED
    BY <2>2
<1>2. ASSUME NEW f \in V PROVE more[f] \in V /\ more[f] = [n \in Nat |-> <<n % b>> \o f[n \div b]]
  <2>1. ASSUME NEW n \in Nat PROVE <<n % b>> \o f[n \div b] \in Seq(Nat)
    <3>1. n % b \in Nat /\ f[n \div b] \in Seq(Nat)
      BY Division
    <3> QED
      BY <3>1
  <2>2. more[f] = [n \in Nat |-> <<n % b>> \o f[n \div b]]
    OBVIOUS
  <2> QED
    BY <2>1, <2>2
<1> PICK h : h = [k \in Nat |-> [f \in [Nat -> V] |-> IF k = 0 THEN none ELSE more[f[k - 1]]]]
  OBVIOUS
<1> PICK size : size = [k \in Nat |-> k]
  OBVIOUS
<1>3. size \in [Nat -> Nat] /\ \A k \in Nat : size[k] = k
  OBVIOUS
<1>4. \A k \in Nat, f \in [Nat -> V] : h[k][f] = IF k = 0 THEN none ELSE more[f[k - 1]]
  OBVIOUS
<1>5. ASSUME NEW k \in Nat, NEW f \in [Nat -> V] PROVE h[k][f] \in V
  <2>1. k # 0 => k - 1 \in Nat /\ f[k - 1] \in V
    OBVIOUS
  <2> QED
    BY ONLY <1>1, <1>2, <1>4, <2>1, k \in Nat, f \in [Nat -> V]
<1>6. ASSUME NEW k \in Nat, NEW f \in [Nat -> V], NEW g \in [Nat -> V],
             \A y \in Nat : size[y] < size[k] => f[y] = g[y]
      PROVE  h[k][f] = h[k][g]
  <2>1. k # 0 => k - 1 \in Nat /\ f[k - 1] = g[k - 1]
    BY ONLY <1>3, <1>6, k \in Nat
  <2> QED
    BY ONLY <1>4, <2>1, k \in Nat, f \in [Nat -> V], g \in [Nat -> V]
<1>7. Recursive(h, Nat, V, size)
  BY ONLY <1>5, <1>6 DEF Recursive
<1>8. Solved(h, Nat, V)
  BY <1>1, <1>3, <1>7, Recursion
<1>9. PICK d \in [Nat -> V] : \A k \in Nat : d[k] = h[k][d]
  BY <1>8 DEF Solved
<1>10. ASSUME NEW k \in Nat PROVE d[k] = IF k = 0 THEN none ELSE more[d[k - 1]]
  BY ONLY <1>4, <1>9, k \in Nat
<1>11. ASSUME NEW k \in Nat
       PROVE  d[k] = IF k = 0 THEN [n \in Nat |-> <<>>] ELSE [n \in Nat |-> <<n % b>> \o d[k - 1][n \div b]]
  <2>1. k # 0 => k - 1 \in Nat /\ d[k - 1] \in V
    BY <1>9
  <2> QED
    BY ONLY <1>2, <1>10, <2>1, k \in Nat, none = [n \in Nat |-> <<>>]
<1>12. d = [k \in Nat |-> IF k = 0 THEN [n \in Nat |-> <<>>]
                          ELSE [n \in Nat |-> <<n % b>> \o d[k - 1][n \div b]]]
  BY <1>9, <1>11
<1> QED
  BY <1>9, <1>12

\* Its equations.
LEMMA DigitsAre ==
  ASSUME NEW b \in Nat, b > 1
  PROVE  /\ \A n \in Nat : Digits(b)[0][n] = <<>>
         /\ \A k, n \in Nat : Digits(b)[k + 1][n] = <<n % b>> \o Digits(b)[k][n \div b]
<1>1. Digits(b) = [k \in Nat |-> IF k = 0 THEN [n \in Nat |-> <<>>]
                                 ELSE [n \in Nat |-> <<n % b>> \o Digits(b)[k - 1][n \div b]]]
  <2>1. \E d : d = [k \in Nat |-> IF k = 0 THEN [n \in Nat |-> <<>>]
                                 ELSE [n \in Nat |-> <<n % b>> \o d[k - 1][n \div b]]]
    BY DigitsExist
  <2> QED
    BY ONLY <2>1 DEF Digits
<1> PICK d : d = Digits(b)
  OBVIOUS
<1>2. \A k \in Nat : d[k] = IF k = 0 THEN [n \in Nat |-> <<>>]
                            ELSE [n \in Nat |-> <<n % b>> \o d[k - 1][n \div b]]
  BY <1>1
<1>3. \A n \in Nat : d[0][n] = <<>>
  BY <1>2
<1>4. ASSUME NEW k \in Nat, NEW n \in Nat PROVE d[k + 1][n] = <<n % b>> \o d[k][n \div b]
  <2>1. k + 1 \in Nat /\ k + 1 # 0 /\ (k + 1) - 1 = k
    OBVIOUS
  <2>2. d[k + 1] = [m \in Nat |-> <<m % b>> \o d[k][m \div b]]
    BY <1>2, <2>1
  <2> QED
    BY <2>2
<1> QED
  BY <1>3, <1>4

\* VarSize is a function.
LEMMA VarSizeExists ==
  \E v \in [Nat -> Seq(Nat)] :
    v = [n \in Nat |-> IF n < ChunkValues THEN <<n>> ELSE <<(n % ChunkValues) + ChunkValues>> \o v[n \div ChunkValues]]
<1> PICK V : V = Seq(Nat)
  OBVIOUS
<1> PICK c : c = ChunkValues
  OBVIOUS
<1>0. c \in Nat /\ c > 1 /\ V # {}
  <2>1. c \in Nat /\ c # 0 /\ c # 1
    BY SerializerAssumption
  <2>2. <<>> \in V
    OBVIOUS
  <2>3. c > 1
    BY ONLY <2>1
  <2> QED
    BY ONLY <2>1, <2>2, <2>3
<1> PICK h : h = [n \in Nat |-> [f \in [Nat -> V] |-> IF n < c THEN <<n>> ELSE <<(n % c) + c>> \o f[n \div c]]]
  OBVIOUS
<1> PICK size : size = [n \in Nat |-> n]
  OBVIOUS
<1>1. size \in [Nat -> Nat] /\ \A n \in Nat : size[n] = n
  OBVIOUS
<1>2. \A n \in Nat, f \in [Nat -> V] : h[n][f] = IF n < c THEN <<n>> ELSE <<(n % c) + c>> \o f[n \div c]
  OBVIOUS
<1>3. ASSUME NEW n \in Nat, NEW f \in [Nat -> V] PROVE h[n][f] \in V
  <2>1. n % c \in Nat /\ n \div c \in Nat /\ f[n \div c] \in Seq(Nat)
    BY <1>0, Division
  <2>2. <<n>> \in Seq(Nat) /\ <<(n % c) + c>> \o f[n \div c] \in Seq(Nat)
    BY <1>0, <2>1
  <2> QED
    BY <1>2, <2>2
<1>4. ASSUME NEW n \in Nat, NEW f \in [Nat -> V], NEW g \in [Nat -> V],
             \A y \in Nat : size[y] < size[n] => f[y] = g[y]
      PROVE  h[n][f] = h[n][g]
  <2>1. ~(n < c) => n \div c \in Nat /\ n \div c < n
    <3>1. n \div c \in Nat /\ (n > 0 => n \div c < n)
      BY <1>0, Division
    <3> QED
      BY <1>0, <3>1
  <2>2. ~(n < c) => f[n \div c] = g[n \div c]
    BY <1>1, <1>4, <2>1
  <2> QED
    BY ONLY <1>2, <2>2, n \in Nat, f \in [Nat -> V], g \in [Nat -> V]
<1>5. Recursive(h, Nat, V, size)
  BY ONLY <1>3, <1>4 DEF Recursive
<1>6. Solved(h, Nat, V)
  BY <1>0, <1>1, <1>5, Recursion
<1>7. PICK v \in [Nat -> V] : \A n \in Nat : v[n] = h[n][v]
  BY <1>6 DEF Solved
<1>8. \A n \in Nat : v[n] = IF n < c THEN <<n>> ELSE <<(n % c) + c>> \o v[n \div c]
  BY ONLY <1>2, <1>7
<1> QED
  BY <1>8

\* Its equations: a number below ChunkValues is its own encoding.
LEMMA VarSizeIs ==
  \A n \in Nat :
    VarSize[n] = IF n < ChunkValues THEN <<n>> ELSE <<(n % ChunkValues) + ChunkValues>> \o VarSize[n \div ChunkValues]
<1>1. VarSize = [n \in Nat |-> IF n < ChunkValues THEN <<n>>
                              ELSE <<(n % ChunkValues) + ChunkValues>> \o VarSize[n \div ChunkValues]]
  BY VarSizeExists DEF VarSize
<1> PICK v : v = VarSize
  OBVIOUS
<1> QED
  BY <1>1
\* What holds of every live object, also of those a copy or a move has put at risk: its storage is its
\* own and in use, what it reads is in memory, and only what has storage has a size.
Placed(o) ==
  /\ obj[o].owns <=> obj[o].base = Null
  /\ obj[o].readPos <= obj[o].length
  /\ obj[o].store # Null => obj[o].store \notin freed /\ memory[obj[o].store] # <<>>
  /\ obj[o].size > 0 => /\ obj[o].owns /\ obj[o].store # Null /\ obj[o].data # Null
                        /\ obj[o].size <= Len(memory[obj[o].store])
                        /\ obj[o].size <= Len(memory[obj[o].data])
  /\ obj[o].data # Null => memory[obj[o].data] # <<>>
  /\ obj[o].length > 0 => obj[o].data # Null /\ obj[o].offset + obj[o].length <= Len(memory[obj[o].data])
  /\ obj[o].owns => obj[o].offset = 0

AllPlaced == \A o \in Objects : obj[o].alive => Placed(o)

StoresDiffer ==
  \A o, p \in Objects : obj[o].alive /\ obj[p].alive /\ obj[o].store = obj[p].store /\ obj[o].store # Null => o = p

FreedUsed == \A b \in freed : memory[b] # <<>>

\* An owner that is not at risk reads its own storage.
Own(o) == obj[o].length <= obj[o].size /\ (obj[o].size > 0 => obj[o].data = obj[o].store)

\* A view that is not at risk reads what its base has; unless it was moved or its base was read,
\* its base has all of it left to read.
InBase(v, o) ==
  /\ o \in Objects /\ obj[o].alive /\ o \notin suspect /\ obj[o].base = Null
  /\ obj[v].length > 0 => obj[v].data = obj[o].data /\ obj[v].offset + obj[v].length <= obj[o].length
  /\ v \notin doomed => obj[v].length <= BytesLeft(o)

Safe(o) == obj[o].alive /\ o \notin suspect

OwnersSafe == \A o \in Objects : Safe(o) /\ obj[o].owns => Own(o)
ViewsSafe == \A v \in Objects : Safe(v) /\ ~obj[v].owns => InBase(v, obj[v].base)

\* No other object writes to the storage of one that is not at risk.
NoIntruder ==
  \A o, p \in Objects :
    obj[o].alive /\ obj[o].size > 0 /\ Safe(p) /\ obj[p].store # Null /\ obj[o].data = obj[p].store => o = p

SerInv ==
  /\ SerTypeOK /\ AllPlaced /\ StoresDiffer /\ FreedUsed /\ OwnersSafe /\ ViewsSafe /\ NoIntruder
  /\ Intact /\ FailuresExplained
-----------------------------------------------------------------------------
(* Steps that change one object o, which may be constructed by them.         *)

\* What is read is not freed memory, and it is what should be there.
HasContent(o) ==
  /\ obj[o].length = Len(content[o])
  /\ obj[o].length > 0 => obj[o].data \notin freed /\ Bytes(memory, obj[o]) = content[o]

\* The block of o may be another, one nobody used before, and its old one may be freed; only what o
\* stored or read as its own is written to.
BlocksChange(o) ==
  /\ \A b \in Blocks : memory[b] # <<>> => Len(memory'[b]) = Len(memory[b])
  /\ \A b \in Blocks : memory[b] # <<>> /\ memory'[b] # memory[b] =>
       obj[o].alive /\ (b = obj[o].store \/ (b = obj[o].data /\ obj[o].size > 0))
  /\ \/ obj'[o].store = Null
     \/ obj[o].alive /\ obj'[o].store = obj[o].store
     \/ memory[obj'[o].store] = <<>>
  /\ \/ freed' = freed
     \/ /\ obj[o].alive /\ obj[o].store # Null /\ obj'[o].store # obj[o].store
        /\ freed' = freed \cup {obj[o].store}
        /\ ViewsOf(o) \subseteq suspect'
  /\ obj'[o].size > 0 =>
       \/ obj'[o].data = obj'[o].store
       \/ obj[o].alive /\ obj[o].size > 0 /\ obj'[o].data = obj[o].data
       \/ \A p \in Objects : p # o /\ obj[p].alive /\ p \notin suspect' /\ obj[p].store # Null
                               => obj[p].store # obj'[o].data

\* The views of o that are not put at risk still have the bytes they read, and those that are not
\* doomed still have them all left.
ViewsKept(o) ==
  obj[o].alive /\ o \notin suspect =>
    \A v \in ViewsOf(o) \ suspect' :
      /\ obj'[o].base = obj[o].base /\ o \notin suspect'
      /\ obj[o].length <= obj'[o].length
      /\ v \notin doomed' => obj'[o].readPos = obj[o].readPos
      /\ obj[o].length > 0 => /\ obj'[o].data = obj[o].data
                              /\ \A i \in 1 .. obj[o].length : memory'[obj[o].data][i] = memory[obj[o].data][i]

\* Nobody leaves the objects at risk, and views go there with their base.
RisksGrow(o) ==
  /\ suspect \subseteq suspect' /\ doomed \subseteq doomed'
  /\ \A v, p \in Objects : p # o /\ obj[p].alive /\ p \in suspect' \ suspect /\ obj[p].base = Null
                             /\ v \in ViewsOf(p) => v \in suspect'

Changed(o) ==
  /\ failure' = Null /\ SerTypeOK'
  /\ \A p \in Objects : p # o => obj'[p] = obj[p] /\ content'[p] = content[p]
  /\ obj'[o].alive /\ Placed(o)'
  /\ BlocksChange(o) /\ ViewsKept(o) /\ RisksGrow(o)
  /\ o \notin suspect' => IF obj'[o].owns THEN Own(o)' /\ HasContent(o)' ELSE InBase(o, obj[o].base)' /\ HasContent(o)'
-----------------------------------------------------------------------------

\* What the assumption on the constants says of single ones.
LEMMA Constants ==
  /\ Null \notin Blocks /\ Null \notin Objects /\ Blocks \subseteq Nat
  /\ FirstSize \in Nat /\ FirstSize > 0 /\ ChunkValues \in Nat /\ ChunkValues > 1
  /\ WordBytes \in Nat /\ WordBytes > 0 /\ MaxChunks \in Nat /\ MaxChunks > 0
<1>1. FirstSize \in Nat \ {0} /\ ChunkValues \in Nat \ {0, 1} /\ WordBytes \in Nat \ {0} /\ MaxChunks \in Nat \ {0}
  BY SerializerAssumption
<1>2. Null \notin Blocks /\ Null \notin Objects /\ Blocks \subseteq Nat
  BY SerializerAssumption
<1> QED
  BY ONLY <1>1, <1>2

\* The parts of the record of an object.
LEMMA Parts ==
  ASSUME SerTypeOK, NEW o \in Objects
  PROVE  /\ obj[o].alive \in BOOLEAN /\ obj[o].owns \in BOOLEAN /\ obj[o].store \in Blocks \cup {Null}
         /\ obj[o].size \in Nat /\ obj[o].data \in Blocks \cup {Null} /\ obj[o].offset \in Nat
         /\ obj[o].length \in Nat /\ obj[o].readPos \in Nat /\ obj[o].base \in Objects \cup {Null}
<1>1. obj[o] \in Object
  BY DEF SerTypeOK
<1> QED
  BY ONLY <1>1 DEF Object

\* The heap is a function to sequences.
LEMMA Memories ==
  ASSUME SerTypeOK, NEW b \in Blocks
  PROVE  memory[b] \in Memory /\ Len(memory[b]) \in Nat /\ (Len(memory[b]) > 0 => memory[b] # <<>>)
<1>1. memory[b] \in Memory
  BY DEF SerTypeOK
<1> QED
  BY <1>1, EmptySeq DEF Memory

\* Where an object reads its bytes: in the storage of a safe owner, itself or its base.
LEMMA Source ==
  ASSUME SerInv, NEW p \in Objects, Safe(p), obj[p].length > 0
  PROVE  \E q \in Objects :
           /\ Safe(q) /\ obj[q].owns /\ obj[q].size > 0 /\ obj[q].offset = 0 /\ obj[q].base = Null
           /\ obj[q].data = obj[q].store /\ obj[p].data = obj[q].store
           /\ obj[q].store \in Blocks /\ obj[q].store \notin freed /\ memory[obj[q].store] # <<>>
           /\ obj[p].offset + obj[p].length <= obj[q].length
           /\ q = p \/ (obj[p].base = q /\ ~obj[p].owns /\ p \in ViewsOf(q))
<1>0. SerTypeOK /\ AllPlaced /\ OwnersSafe /\ ViewsSafe
  BY DEF SerInv
<1>1. ASSUME NEW q \in Objects, Safe(q), obj[q].owns, obj[q].length > 0
      PROVE  /\ obj[q].size > 0 /\ obj[q].offset = 0 /\ obj[q].base = Null /\ obj[q].data = obj[q].store
             /\ obj[q].store \in Blocks /\ obj[q].store \notin freed /\ memory[obj[q].store] # <<>>
  <2>1. Placed(q) /\ Own(q)
    BY <1>0, <1>1 DEF AllPlaced, OwnersSafe, Safe
  <2>2. obj[q].length \in Nat /\ obj[q].size \in Nat /\ obj[q].store \in Blocks \cup {Null}
    BY <1>0, Parts
  <2>3. obj[q].length <= obj[q].size
    BY <2>1 DEF Own
  <2>4. obj[q].size > 0
    BY <1>1, <2>2, <2>3
  <2> QED
    BY <1>1, <2>1, <2>2, <2>4 DEF Placed, Own
<1>2. CASE obj[p].owns
  <2>1. obj[p].offset + obj[p].length <= obj[p].length
    BY <1>0, <1>1, <1>2, Parts
  <2> QED
    BY <1>1, <1>2, <2>1
<1>3. CASE ~obj[p].owns
  <2>1. InBase(p, obj[p].base)
    BY <1>0, <1>3 DEF ViewsSafe
  <2> PICK q : q = obj[p].base
    OBVIOUS
  <2>2. /\ q \in Objects /\ Safe(q) /\ obj[q].base = Null /\ obj[p].data = obj[q].data
        /\ obj[p].offset + obj[p].length <= obj[q].length /\ p \in ViewsOf(q)
    BY <2>1 DEF InBase, Safe, ViewsOf
  <2>3. obj[q].owns
    BY <1>0, <2>2 DEF AllPlaced, Placed, Safe
  <2>4. obj[q].length > 0
    BY <1>0, <2>2, Parts
  <2> QED
    BY <1>1, <1>3, <2>2, <2>3, <2>4
<1> QED
  BY <1>2, <1>3
-----------------------------------------------------------------------------
(* Such a step keeps the invariant.                                         *)

\* A step that changes one object keeps every part of the invariant.
LEMMA ChangedPlaced == ASSUME SerInv, NEW o \in Objects, Changed(o) PROVE AllPlaced' /\ StoresDiffer' /\ FreedUsed'
<1>0. /\ SerTypeOK /\ AllPlaced /\ StoresDiffer /\ FreedUsed /\ SerTypeOK'
      /\ Placed(o)' /\ BlocksChange(o) /\ \A p \in Objects : p # o => obj'[p] = obj[p]
  BY DEF SerInv, Changed
<1>1. ASSUME NEW p \in Objects, obj'[p].alive, p # o PROVE Placed(p)'
  <2>1. Placed(p) /\ obj'[p] = obj[p] /\ obj[p].alive
    BY <1>0, <1>1 DEF AllPlaced
  <2>2. ASSUME NEW b \in Blocks, memory[b] # <<>> PROVE Len(memory'[b]) = Len(memory[b]) /\ memory'[b] # <<>>
    <3>1. Len(memory'[b]) = Len(memory[b])
      BY <1>0, <2>2 DEF BlocksChange
    <3>2. Len(memory[b]) \in Nat \ {0}
      BY <1>0, <2>2, Memories, EmptySeq DEF Memory
    <3> QED
      BY <3>1, <3>2, EmptySeq
  <2>3. obj[p].store \in Blocks \cup {Null} /\ obj[p].data \in Blocks \cup {Null}
    BY <1>0, Parts
  <2>4. obj[p].store # Null => obj[p].store \notin freed'
    BY <1>0, <2>1, <2>3 DEF BlocksChange, StoresDiffer, Placed
  <2>5. Null \notin Blocks
    BY Constants
  <2> QED
    BY <2>1, <2>2, <2>3, <2>4, <2>5 DEF Placed
<1>2. AllPlaced'
  BY <1>0, <1>1 DEF AllPlaced
<1>3. StoresDiffer'
  <2> SUFFICES ASSUME NEW p \in Objects, NEW q \in Objects, obj'[p].alive, obj'[q].alive,
                      obj'[p].store = obj'[q].store, obj'[p].store # Null
               PROVE  p = q
    BY DEF StoresDiffer
  <2>1. ASSUME NEW r \in Objects, r # o, obj'[r].alive, obj'[r].store # Null PROVE obj'[r].store # obj'[o].store
    <3>1. obj'[r] = obj[r] /\ obj[r].alive /\ memory[obj[r].store] # <<>>
      BY <1>0, <2>1 DEF AllPlaced, Placed
    <3> QED
      BY <1>0, <2>1, <3>1 DEF BlocksChange, StoresDiffer
  <2>2. CASE p # o /\ q # o
    BY <1>0, <2>2 DEF StoresDiffer
  <2>3. CASE p = o /\ q # o
    BY <2>1, <2>3
  <2>4. CASE p # o /\ q = o
    BY <2>1, <2>4
  <2> QED
    BY <2>2, <2>3, <2>4
<1>4. FreedUsed'
  <2> SUFFICES ASSUME NEW b \in freed' PROVE memory'[b] # <<>>
    BY DEF FreedUsed
  <2>1. b \in Blocks
    BY <1>0 DEF SerTypeOK
  <2>2. memory[b] # <<>>
    BY <1>0 DEF BlocksChange, FreedUsed, AllPlaced, Placed
  <2>3. Len(memory'[b]) = Len(memory[b])
    BY <1>0, <2>1, <2>2 DEF BlocksChange
  <2>4. Len(memory[b]) \in Nat \ {0}
    BY <1>0, <2>1, <2>2, Memories, EmptySeq DEF Memory
  <2> QED
    BY <2>3, <2>4, EmptySeq
<1> QED
  BY <1>2, <1>3, <1>4

LEMMA ChangedViews == ASSUME SerInv, NEW o \in Objects, Changed(o) PROVE OwnersSafe' /\ ViewsSafe'
<1>0. /\ SerTypeOK /\ AllPlaced /\ OwnersSafe /\ ViewsSafe /\ SerTypeOK'
      /\ ViewsKept(o) /\ RisksGrow(o) /\ \A p \in Objects : p # o => obj'[p] = obj[p]
      /\ o \notin suspect' => IF obj'[o].owns THEN Own(o)' /\ HasContent(o)' ELSE InBase(o, obj[o].base)' /\ HasContent(o)'
  BY DEF SerInv, Changed
<1>1. OwnersSafe'
  <2> SUFFICES ASSUME NEW p \in Objects, Safe(p)', obj'[p].owns PROVE Own(p)'
    BY DEF OwnersSafe
  <2>1. CASE p = o
    BY <1>0, <2>1 DEF Safe
  <2>2. CASE p # o
    <3>1. Safe(p) /\ obj'[p] = obj[p] /\ Own(p)
      BY <1>0, <2>2 DEF Safe, RisksGrow, OwnersSafe
    <3> QED
      BY <3>1 DEF Own
  <2> QED
    BY <2>1, <2>2
<1>2. ViewsSafe'
  <2> SUFFICES ASSUME NEW v \in Objects, Safe(v)', ~obj'[v].owns PROVE InBase(v, obj[v].base)'
    BY DEF ViewsSafe
  <2>1. CASE v = o
    BY <1>0, <2>1 DEF Safe
  <2>2. CASE v # o
    <3>1. Safe(v) /\ obj'[v] = obj[v] /\ InBase(v, obj[v].base) /\ v \notin suspect'
      BY <1>0, <2>2 DEF Safe, RisksGrow, ViewsSafe
    <3> PICK q : q = obj[v].base
      OBVIOUS
    <3>2. q \in Objects /\ obj[q].alive /\ q \notin suspect /\ obj[q].base = Null /\ v \in ViewsOf(q)
      BY <3>1 DEF InBase, Safe, ViewsOf
    <3>3. CASE q # o
      <4>1. q \notin suspect'
        BY <1>0, <3>1, <3>2, <3>3 DEF RisksGrow
      <4>2. obj'[q] = obj[q] /\ (v \notin doomed' => v \notin doomed)
        BY <1>0, <3>2, <3>3 DEF RisksGrow
      <4> QED
        BY <3>1, <3>2, <4>1, <4>2 DEF InBase, BytesLeft
    <3>4. CASE q = o
      <4>1. /\ q \notin suspect' /\ obj'[q].base = Null /\ obj[q].length <= obj'[q].length
            /\ v \notin doomed' => obj'[q].readPos = obj[q].readPos
            /\ obj[q].length > 0 => obj'[q].data = obj[q].data
        BY <1>0, <3>1, <3>2, <3>4 DEF ViewsKept
      <4>2. /\ obj'[q].length \in Nat /\ obj[q].length \in Nat /\ obj[q].readPos \in Nat /\ obj'[q].readPos \in Nat
            /\ obj[v].length \in Nat /\ obj[v].offset \in Nat
        <5>1. obj[q] \in Object /\ obj'[q] \in Object /\ obj[v] \in Object
          BY <1>0, <3>2 DEF SerTypeOK
        <5> QED
          BY ONLY <5>1 DEF Object
      <4>3. obj'[q].alive
        BY <3>4 DEF Changed
      <4>4. obj[v].length > 0 =>
              obj[v].data = obj'[q].data /\ obj[v].offset + obj[v].length <= obj'[q].length
        BY <3>1, <4>1, <4>2 DEF InBase
      <4>5. v \notin doomed' => obj[v].length <= obj'[q].length - obj'[q].readPos
        <5>1. v \notin doomed' => v \notin doomed
          BY <1>0 DEF RisksGrow
        <5> QED
          BY <3>1, <4>1, <4>2, <5>1 DEF InBase, BytesLeft
      <4> QED
        BY <3>1, <3>2, <4>1, <4>3, <4>4, <4>5 DEF InBase, BytesLeft
    <3> QED
      BY <3>3, <3>4
  <2> QED
    BY <2>1, <2>2
<1> QED
  BY <1>1, <1>2

LEMMA ChangedAlone == ASSUME SerInv, NEW o \in Objects, Changed(o) PROVE NoIntruder'
<1>0. /\ SerTypeOK /\ AllPlaced /\ NoIntruder /\ StoresDiffer' /\ suspect \subseteq suspect'
      /\ obj'[o].alive /\ BlocksChange(o) /\ \A p \in Objects : p # o => obj'[p] = obj[p]
  BY ChangedPlaced DEF SerInv, Changed, RisksGrow
<1> SUFFICES ASSUME NEW q \in Objects, NEW p \in Objects, obj'[q].alive, obj'[q].size > 0,
                    obj'[p].alive, p \notin suspect', obj'[p].store # Null, obj'[q].data = obj'[p].store
             PROVE  q = p
  BY DEF NoIntruder, Safe
<1>1. CASE q # o /\ p # o
  BY <1>0, <1>1 DEF NoIntruder, Safe
<1>2. CASE q = o /\ p # o
  <2>1. obj'[p] = obj[p]
    BY <1>0, <1>2
  <2>2. obj'[o].data # obj'[o].store
    BY <1>0, <1>2 DEF StoresDiffer
  <2> QED
    BY <1>0, <1>2, <2>1, <2>2 DEF BlocksChange, NoIntruder, Safe
<1>3. CASE q # o /\ p = o
  <2>1. obj'[q] = obj[q] /\ Placed(q)
    BY <1>0, <1>3 DEF AllPlaced
  <2>2. memory[obj[q].data] # <<>>
    BY <1>3, <2>1 DEF Placed
  <2> QED
    BY <1>0, <1>3, <2>1, <2>2 DEF BlocksChange, NoIntruder, Safe
<1> QED
  BY <1>1, <1>2, <1>3

LEMMA ChangedIntact == ASSUME SerInv, NEW o \in Objects, Changed(o) PROVE Intact'
<1>0. /\ SerTypeOK /\ AllPlaced /\ Intact /\ NoIntruder /\ StoresDiffer /\ suspect \subseteq suspect'
      /\ obj'[o].alive /\ Placed(o)' /\ BlocksChange(o) /\ ViewsKept(o)
      /\ \A p \in Objects : p # o => obj'[p] = obj[p] /\ content'[p] = content[p]
      /\ o \notin suspect' => HasContent(o)'
  BY DEF SerInv, Changed, RisksGrow
<1>1. ASSUME NEW p \in Objects, obj'[p].alive, p \notin suspect', p # o
      PROVE  obj'[p].readPos <= obj'[p].length /\ HasContent(p)'
  <2>1. obj'[p] = obj[p] /\ content'[p] = content[p] /\ Safe(p)
    BY <1>0, <1>1 DEF Safe
  <2>2. /\ obj[p].readPos <= obj[p].length /\ obj[p].length = Len(content[p])
        /\ obj[p].length > 0 => obj[p].data \notin freed /\ Bytes(memory, obj[p]) = content[p]
    BY <1>0, <2>1 DEF Intact, Safe
  <2>3. CASE obj[p].length > 0
    <3>1. PICK q \in Objects :
            /\ Safe(q) /\ obj[q].owns /\ obj[q].size > 0 /\ obj[q].offset = 0 /\ obj[q].base = Null
            /\ obj[q].data = obj[q].store /\ obj[p].data = obj[q].store
            /\ obj[q].store \in Blocks /\ obj[q].store \notin freed /\ memory[obj[q].store] # <<>>
            /\ obj[p].offset + obj[p].length <= obj[q].length
            /\ q = p \/ (obj[p].base = q /\ ~obj[p].owns /\ p \in ViewsOf(q))
      BY <2>1, <2>3, Source
    <3>2. obj[q].store # Null
      BY <3>1, Constants
    <3>3. CASE q # o
      <4>1. obj[q].store # obj[o].store \/ ~obj[o].alive
        BY <1>0, <3>1, <3>2, <3>3 DEF StoresDiffer, Safe
      <4>2. ~(obj[o].alive /\ obj[o].size > 0 /\ obj[o].data = obj[q].store)
        BY <1>0, <3>1, <3>2, <3>3 DEF NoIntruder
      <4>3. memory'[obj[q].store] = memory[obj[q].store]
        BY <1>0, <3>1, <4>1, <4>2 DEF BlocksChange
      <4>4. obj[q].store \notin freed'
        BY <1>0, <3>1, <4>1 DEF BlocksChange
      <4>5. Bytes(memory', obj[p]) = Bytes(memory, obj[p])
        BY <3>1, <4>3 DEF Bytes
      <4> QED
        BY <2>1, <2>2, <3>1, <4>4, <4>5 DEF HasContent
    <3>4. CASE q = o
      <4>1. p \in ViewsOf(o) /\ p \notin suspect' /\ obj[o].alive /\ o \notin suspect
        BY <1>1, <3>1, <3>4 DEF Safe
      <4>2. freed' = freed
        BY <1>0, <4>1 DEF BlocksChange
      <4>3. /\ obj[p].length \in Nat /\ obj[p].offset \in Nat /\ obj[o].length \in Nat
        BY <1>0, Parts
      <4>4. \A i \in 1 .. obj[o].length : memory'[obj[o].data][i] = memory[obj[o].data][i]
        BY <1>0, <4>1, <4>3, <3>1, <3>4 DEF ViewsKept
      <4>5. ASSUME NEW i \in 1 .. obj[p].length
            PROVE  memory'[obj[p].data][obj[p].offset + i] = memory[obj[p].data][obj[p].offset + i]
        <5>1. obj[p].offset + i \in 1 .. obj[o].length
          BY <3>1, <3>4, <4>3
        <5> QED
          BY <3>1, <3>4, <4>4, <5>1
      <4>6. Bytes(memory', obj[p]) = Bytes(memory, obj[p])
        BY <4>5 DEF Bytes
      <4> QED
        BY <2>1, <2>2, <3>1, <4>2, <4>6 DEF HasContent
    <3> QED
      BY <3>3, <3>4
  <2>4. CASE ~(obj[p].length > 0)
    BY <2>1, <2>2, <2>4 DEF HasContent
  <2> QED
    BY <2>3, <2>4
<1>2. o \notin suspect' => obj'[o].readPos <= obj'[o].length /\ HasContent(o)'
  BY <1>0 DEF Placed
<1> QED
  BY <1>1, <1>2 DEF Intact, HasContent

LEMMA ChangedInv == ASSUME SerInv, NEW o \in Objects, Changed(o) PROVE SerInv'
<1>1. SerTypeOK' /\ FailuresExplained'
  BY DEF Changed, FailuresExplained
<1> QED
  BY <1>1, ChangedPlaced, ChangedViews, ChangedAlone, ChangedIntact DEF SerInv
-----------------------------------------------------------------------------
(* Growing the buffer and writing to it.                                     *)

\* There is a power of 2 above every number, so that SizeFor has sizes to choose from.
LEMMA PowersGrow == \A n \in Nat : Power(2)[n] \in Nat /\ Power(2)[n] > n
<1> PICK T : T = {n \in Nat : Power(2)[n] > n}
  OBVIOUS
<1>0. /\ Power(2)[0] = 1
      /\ \A k \in Nat : Power(2)[k] \in Nat /\ Power(2)[k + 1] = 2 * Power(2)[k]
  BY PowerIs
<1>1. 0 \in T
  BY <1>0
<1>2. ASSUME NEW n \in Nat, n \in T PROVE n + 1 \in T
  <2> PICK p \in Nat : p = Power(2)[n]
    BY <1>0
  <2>1. p > n /\ Power(2)[n + 1] = 2 * p
    BY <1>0, <1>2
  <2>2. 2 * p > n + 1
    BY <2>1
  <2> QED
    BY <2>1, <2>2
<1>3. Nat \subseteq T
  BY ONLY <1>1, <1>2, Induction
<1> QED
  BY <1>0, <1>3

LEMMA MinIs == ASSUME NEW T, T \subseteq Nat, T # {} PROVE Min(T) \in T /\ \A y \in T : Min(T) <= y
BY Least DEF Min

\* The size EnsureSize chooses is large enough.
LEMMA SizeForIs == ASSUME NEW n \in Nat PROVE SizeFor(n) \in Nat /\ SizeFor(n) >= n /\ SizeFor(n) > 0
<1> PICK f : f = FirstSize
  OBVIOUS
<1>0. f \in Nat /\ f > 0
  BY Constants
<1> PICK T : T = {k \in {f * Power(2)[e] : e \in 0 .. n} : k >= n}
  OBVIOUS
<1>1. ASSUME NEW e \in 0 .. n PROVE f * Power(2)[e] \in Nat /\ f * Power(2)[e] > e
  <2> PICK p : p = Power(2)[e]
    OBVIOUS
  <2>1. p \in Nat /\ p > e /\ e \in Nat
    BY PowersGrow
  <2>2. f * p \in Nat /\ f * p >= p
    BY <1>0, <2>1
  <2> QED
    BY <2>1, <2>2
<1>2. T \subseteq Nat /\ \A k \in T : k >= n /\ k > 0
  <2>1. ASSUME NEW k \in T PROVE k \in Nat /\ k >= n /\ k > 0
    <3> PICK e \in 0 .. n : k = f * Power(2)[e] /\ k >= n
      OBVIOUS
    <3> QED
      BY <1>1
  <2> QED
    BY <2>1
<1>3. f * Power(2)[n] \in T
  <2>1. n \in 0 .. n
    OBVIOUS
  <2>2. f * Power(2)[n] >= n
    BY <1>1, <2>1
  <2> QED
    BY <2>1, <2>2
<1>4. Min(T) \in T
  BY <1>2, <1>3, MinIs
<1>5. SizeFor(n) = Min(T)
  BY DEF SizeFor
<1> QED
  BY <1>2, <1>4, <1>5

Cell == Byte \cup {Junk}

\* Some of the bytes of one block are written.
Put(m, d, f) == [m EXCEPT ![d] = f]

LEMMA Written ==
  ASSUME NEW m \in [Blocks -> Memory], NEW d \in Blocks, NEW f \in [DOMAIN m[d] -> Cell],
         NEW w, w = Put(m, d, f)
  PROVE  /\ w \in [Blocks -> Memory] /\ w[d] = f /\ Len(w[d]) = Len(m[d])
         /\ \A b \in Blocks : b # d => w[b] = m[b]
<1> PICK s : s = m[d]
  OBVIOUS
<1>1. s \in Seq(Cell) /\ Len(s) \in Nat /\ DOMAIN s = 1 .. Len(s)
  BY DEF Memory, Cell
<1>2. f \in [1 .. Len(s) -> Cell]
  BY <1>1
<1>3. f \in Seq(Cell) /\ Len(f) = Len(s)
  BY <1>1, <1>2
<1>4. f \in Memory
  BY <1>3 DEF Memory, Cell
<1> QED
  BY <1>3, <1>4 DEF Put

\* What EnsureSize starts from: an owner whose block is in use and as long as its size.
Growable(s, n) ==
  /\ s \in Object /\ n \in Nat /\ CanEnsure(s, n)
  /\ s.store # Null => memory[s.store] # <<>>
  /\ s.size > 0 => s.store # Null /\ s.size <= Len(memory[s.store])

\* The next block is the one in use or one nobody has used.
LEMMA NextBlockIs ==
  ASSUME SerTypeOK, NEW s, NEW n, Growable(s, n), ~Fits(s, n)
  PROVE  /\ NextBlock(s, n) \in Blocks
         /\ IF Moves(s, n) THEN memory[NextBlock(s, n)] = <<>> /\ NextBlock(s, n) # s.store
                           ELSE NextBlock(s, n) = s.store /\ Len(memory[s.store]) >= SizeFor(n)
<1>0. s.store \in Blocks \cup {Null}
  BY DEF Growable, Object
<1>1. CASE InBlock(s, n)
  BY <1>0, <1>1 DEF NextBlock, Moves, InBlock
<1>2. CASE ~InBlock(s, n)
  <2>1. Fresh # {} /\ Fresh \subseteq Nat
    BY <1>2, Constants DEF Growable, CanEnsure, Fresh
  <2>2. Min(Fresh) \in Fresh
    BY <2>1, MinIs
  <2>3. Min(Fresh) \in Blocks /\ memory[Min(Fresh)] = <<>> /\ NextBlock(s, n) = Min(Fresh)
    BY <1>2, <2>2 DEF Fresh, NextBlock
  <2>4. Min(Fresh) # s.store
    BY <2>3, Constants DEF Growable
  <2> QED
    BY <1>2, <2>3, <2>4 DEF Moves
<1> QED
  BY <1>1, <1>2

\* The object with its new size.
LEMMA EnsuredIs ==
  ASSUME SerTypeOK, NEW s, NEW n, Growable(s, n), NEW r, r = Ensured(s, n)
  PROVE  /\ r \in Object /\ r.size >= n /\ r.alive = s.alive /\ r.owns = s.owns /\ r.base = s.base
         /\ r.length = s.length /\ r.readPos = s.readPos
         /\ Fits(s, n) => r = s
         /\ ~Fits(s, n) => /\ r.size = SizeFor(n) /\ r.offset = 0 /\ r.store = NextBlock(s, n)
                           /\ r.data = r.store /\ r.store \in Blocks /\ r.size > 0
<1>0. s \in Object /\ n \in Nat
  BY DEF Growable
<1>1. CASE Fits(s, n)
  BY <1>0, <1>1 DEF Ensured, Fits
<1>2. CASE ~Fits(s, n)
  <2>1. NextBlock(s, n) \in Blocks
    BY <1>2, NextBlockIs
  <2>2. SizeFor(n) \in Nat /\ SizeFor(n) >= n /\ SizeFor(n) > 0
    BY <1>0, SizeForIs
  <2>3. r = [s EXCEPT !.size = SizeFor(n), !.store = NextBlock(s, n), !.data = NextBlock(s, n), !.offset = 0]
    BY <1>2 DEF Ensured
  <2> PICK k, b : k = SizeFor(n) /\ b = NextBlock(s, n)
    OBVIOUS
  <2>4. r = [s EXCEPT !.size = k, !.store = b, !.data = b, !.offset = 0]
    BY <2>3
  <2>5. r \in Object
    BY ONLY <1>0, <2>1, <2>2, <2>4, k = SizeFor(n) /\ b = NextBlock(s, n) DEF Object
  <2>6. /\ r.size = k /\ r.offset = 0 /\ r.store = b /\ r.data = b /\ r.alive = s.alive
        /\ r.owns = s.owns /\ r.base = s.base /\ r.length = s.length /\ r.readPos = s.readPos
    BY ONLY <1>0, <2>4 DEF Object
  <2> QED
    BY <1>2, <2>1, <2>2, <2>5, <2>6
<1> QED
  BY <1>1, <1>2
\* The heap afterwards: what is in use stays, and a new block starts with what the old one held.
LEMMA MemoryEnsuredIs ==
  ASSUME SerTypeOK, NEW s, NEW n, Growable(s, n), NEW m, m = MemoryEnsured(s, n)
  PROVE  /\ m \in [Blocks -> Memory]
         /\ \A b \in Blocks : memory[b] # <<>> => m[b] = memory[b]
         /\ ~Moves(s, n) => m = memory
         /\ Moves(s, n) => /\ Len(m[NextBlock(s, n)]) = SizeFor(n)
                           /\ \A i \in 1 .. s.size : m[NextBlock(s, n)][i] = memory[s.store][i]
<1>0. /\ s \in Object /\ n \in Nat /\ s.size \in Nat /\ s.store \in Blocks \cup {Null}
      /\ s.size > 0 => s.store # Null /\ s.size <= Len(memory[s.store])
      /\ memory \in [Blocks -> Memory]
  BY DEF Growable, Object, SerTypeOK
<1>1. CASE ~Moves(s, n)
  BY <1>0, <1>1 DEF MemoryEnsured
<1>2. CASE Moves(s, n)
  <2> PICK d, k : d = NextBlock(s, n) /\ k = SizeFor(n)
    OBVIOUS
  <2>1. d \in Blocks /\ memory[d] = <<>> /\ ~Fits(s, n)
    BY <1>2, NextBlockIs DEF Moves
  <2>2. k \in Nat /\ k >= n /\ s.size < n
    BY <1>0, <2>1, SizeForIs DEF Fits
  <2> PICK old : old = IF s.store = Null THEN <<>> ELSE SubSeq(memory[s.store], 1, s.size)
    OBVIOUS
  <2>3. old \in Seq(Cell) /\ Len(old) = s.size /\ \A i \in 1 .. s.size : old[i] = memory[s.store][i]
    <3>1. CASE s.size = 0
      <4>1. old = <<>>
        BY <1>0, <3>1, SubSeqEmpty
      <4> QED
        BY <3>1, <4>1, EmptySeq
    <3>2. CASE s.size > 0
      <4> PICK t : t = memory[s.store]
        OBVIOUS
      <4>1. t \in Seq(Cell) /\ s.size <= Len(t) /\ old = SubSeq(t, 1, s.size)
        BY <1>0, <3>2 DEF Memory, Cell
      <4>2. \A i \in 1 .. s.size : t[i] \in Cell
        BY <1>0, <4>1
      <4>3. /\ SubSeq(t, 1, s.size) \in Seq(Cell) /\ Len(SubSeq(t, 1, s.size)) = s.size
            /\ \A i \in 1 .. s.size : SubSeq(t, 1, s.size)[i] = t[i]
        BY <1>0, <4>1, <4>2
      <4> QED
        BY <4>1, <4>3
    <3> QED
      BY <1>0, <3>1, <3>2
  <2> PICK g : g = [i \in 1 .. k |-> IF i <= Len(old) THEN old[i] ELSE Junk]
    OBVIOUS
  <2>4. m = [memory EXCEPT ![d] = g]
    BY <1>2 DEF MemoryEnsured
  <2>5. g \in [1 .. k -> Cell]
    <3>1. ASSUME NEW i \in 1 .. k, i <= Len(old) PROVE old[i] \in Cell
      BY <1>0, <2>3, <3>1
    <3>2. Junk \in Cell
      BY DEF Cell
    <3> QED
      BY <3>1, <3>2
  <2>6. g \in Seq(Cell) /\ Len(g) = k
    <3>1. k \in Nat
      BY <2>2
    <3> QED
      BY ONLY <2>5, <3>1
  <2>7. m \in [Blocks -> Memory] /\ m[d] = g /\ \A b \in Blocks : b # d => m[b] = memory[b]
    BY <1>0, <2>1, <2>4, <2>6 DEF Memory, Cell
  <2>8. \A i \in 1 .. s.size : g[i] = memory[s.store][i]
    BY <1>0, <2>2, <2>3
  <2> QED
    BY <1>2, <2>1, <2>6, <2>7, <2>8
<1> QED
  BY <1>1, <1>2

\* Bytes are appended where there is room for them.
LEMMA AppendedIs ==
  ASSUME NEW m \in [Blocks -> Memory], NEW s \in Object, NEW bytes \in Seq(Cell), bytes # <<>>,
         s.data \in Blocks, s.offset = 0, s.length + Len(bytes) <= Len(m[s.data]),
         NEW w, w = Appended(m, s, bytes)
  PROVE  /\ w \in [Blocks -> Memory] /\ Len(w[s.data]) = Len(m[s.data])
         /\ \A b \in Blocks : b # s.data => w[b] = m[b]
         /\ \A i \in 1 .. s.length : w[s.data][i] = m[s.data][i]
         /\ \A j \in 1 .. Len(bytes) : w[s.data][s.length + j] = bytes[j]
<1> PICK d, l, old : d = s.data /\ l = s.length /\ old = m[d]
  OBVIOUS
<1>0. d \in Blocks /\ l \in Nat /\ old \in Seq(Cell) /\ DOMAIN old = 1 .. Len(old) /\ Len(old) \in Nat
  BY DEF Object, Memory, Cell
<1>1. Len(bytes) \in Nat /\ DOMAIN bytes = 1 .. Len(bytes) /\ l + Len(bytes) <= Len(old)
  OBVIOUS
<1> PICK f : f = [i \in DOMAIN old |-> IF i - 0 - l \in DOMAIN bytes THEN bytes[i - 0 - l] ELSE old[i]]
  OBVIOUS
<1>2. w = Put(m, d, f)
  BY DEF Appended, Put
<1>3. f \in [DOMAIN old -> Cell]
  <2>1. ASSUME NEW i \in DOMAIN old PROVE f[i] \in Cell
    <3>1. old[i] \in Cell
      BY <1>0
    <3>2. i - 0 - l \in DOMAIN bytes => bytes[i - 0 - l] \in Cell
      OBVIOUS
    <3> QED
      BY <3>1, <3>2
  <2> QED
    BY <2>1
<1>4. w \in [Blocks -> Memory] /\ w[d] = f /\ Len(w[d]) = Len(m[d]) /\ \A b \in Blocks : b # d => w[b] = m[b]
  <2>1. f \in [DOMAIN m[d] -> Cell]
    BY <1>3
  <2> QED
    BY ONLY <1>0, <1>2, <2>1, m \in [Blocks -> Memory], Written
<1>5. \A i \in 1 .. l : f[i] = old[i]
  BY <1>0, <1>1
<1>6. ASSUME NEW j \in 1 .. Len(bytes) PROVE f[l + j] = bytes[j]
  <2>1. l + j \in 1 .. Len(old) /\ (l + j) - 0 - l = j
    BY <1>0, <1>1
  <2> QED
    BY <1>0, <1>1, <2>1
<1> QED
  BY <1>4, <1>5, <1>6
\* What is behind the bytes of an object is forgotten.
LEMMA ForgetIs ==
  ASSUME NEW m \in [Blocks -> Memory], NEW s \in Object, NEW w, w = Forget(m, s)
  PROVE  /\ w \in [Blocks -> Memory]
         /\ \A b \in Blocks : Len(w[b]) = Len(m[b]) /\ (b # s.store => w[b] = m[b])
         /\ s.store # Null => \A i \in 1 .. Len(m[s.store]) : 
              w[s.store][i] = IF i <= s.length THEN m[s.store][i] ELSE Junk
<1>1. CASE s.store = Null
  BY <1>1 DEF Forget
<1>2. CASE s.store # Null
  <2> PICK d, l, old : d = s.store /\ l = s.length /\ old = m[d]
    OBVIOUS
  <2>0. d \in Blocks /\ l \in Nat /\ old \in Seq(Cell) /\ DOMAIN old = 1 .. Len(old) /\ Len(old) \in Nat
    BY <1>2 DEF Object, Memory, Cell
  <2> PICK f : f = [i \in DOMAIN old |-> IF i > l THEN Junk ELSE old[i]]
    OBVIOUS
  <2>1. w = Put(m, d, f)
    BY <1>2 DEF Forget, Put
  <2>2. f \in [DOMAIN old -> Cell]
    <3>1. ASSUME NEW i \in DOMAIN old PROVE f[i] \in Cell
      BY <2>0 DEF Cell
    <3> QED
      BY <3>1
  <2>3. f \in [DOMAIN m[d] -> Cell]
    BY <2>2
  <2>4. w \in [Blocks -> Memory] /\ w[d] = f /\ Len(w[d]) = Len(m[d]) /\ \A b \in Blocks : b # d => w[b] = m[b]
    BY ONLY <2>0, <2>1, <2>3, m \in [Blocks -> Memory], Written
  <2>5. \A i \in 1 .. Len(old) : f[i] = IF i <= l THEN old[i] ELSE Junk
    BY <2>0
  <2> QED
    BY <1>2, <2>4, <2>5
<1> QED
  BY <1>1, <1>2

\* The buffer s0 of an object o, its own or an empty one with its block, has grown to n bytes or
\* more: it is s now, the heap is m and freed is what was given back.
Grown(o, s0, n, s, m, f) ==
  /\ s \in Object /\ s.size >= n /\ s.alive = s0.alive /\ s.owns = s0.owns /\ s.base = s0.base
  /\ s.length = s0.length /\ s.readPos = s0.readPos /\ s.offset = 0
  /\ m \in [Blocks -> Memory] /\ \A b \in Blocks : memory[b] # <<>> => m[b] = memory[b]
  /\ s.store = Null \/ s.store = obj[o].store \/ memory[s.store] = <<>>
  /\ \/ f = freed
     \/ obj[o].store # Null /\ s.store # obj[o].store /\ f = freed \cup {obj[o].store} /\ Moves(s0, n)
  /\ s.store # Null => s.store \notin f /\ m[s.store] # <<>>
  /\ s.size > 0 => /\ s.store # Null /\ s.data # Null
                   /\ s.size <= Len(m[s.store]) /\ s.size <= Len(m[s.data])
                   /\ s.data = s.store \/ (obj[o].size > 0 /\ s.data = obj[o].data)
  /\ s.data # Null => m[s.data] # <<>>

\* An owner that is not at risk keeps its bytes.
GrownSafely(s0, n, s, m) ==
  /\ s.size > 0 => s.data = s.store
  /\ \A i \in 1 .. s0.size : m[s.data][i] = memory[s0.data][i]
  /\ ~Moves(s0, n) /\ s0.size > 0 => s.data = s0.data

LEMMA Grows ==
  ASSUME SerInv, NEW o \in Objects, obj[o].alive, NEW s0 \in Object, NEW n \in Nat, CanEnsure(s0, n),
         s0.store = obj[o].store, s0.offset = 0,
         (s0.size = obj[o].size /\ s0.data = obj[o].data) \/ (s0.size = 0 /\ s0.data = Null),
         NEW s, s = Ensured(s0, n), NEW m, m = MemoryEnsured(s0, n), NEW f, f = FreedEnsured(s0, n)
  PROVE  /\ Grown(o, s0, n, s, m, f)
         /\ (s0.size > 0 => s0.data = s0.store) => GrownSafely(s0, n, s, m)
<1>0. /\ SerTypeOK /\ Placed(o) /\ FreedUsed /\ obj[o].store \in Blocks \cup {Null} /\ Null \notin Blocks
      /\ obj[o].data \in Blocks \cup {Null} /\ s0.size \in Nat /\ freed \subseteq Blocks
  BY Parts, Constants DEF SerInv, AllPlaced, SerTypeOK, Object
<1>1. Growable(s0, n)
  BY <1>0 DEF Growable, Placed
<1>2. /\ s \in Object /\ s.size >= n /\ s.alive = s0.alive /\ s.owns = s0.owns /\ s.base = s0.base
      /\ s.length = s0.length /\ s.readPos = s0.readPos
      /\ Fits(s0, n) => s = s0
      /\ ~Fits(s0, n) => /\ s.size = SizeFor(n) /\ s.offset = 0 /\ s.store = NextBlock(s0, n)
                         /\ s.data = s.store /\ s.store \in Blocks /\ s.size > 0
  BY <1>0, <1>1, EnsuredIs
<1>3. /\ m \in [Blocks -> Memory]
      /\ \A b \in Blocks : memory[b] # <<>> => m[b] = memory[b]
      /\ ~Moves(s0, n) => m = memory
      /\ Moves(s0, n) => /\ Len(m[NextBlock(s0, n)]) = SizeFor(n)
                         /\ \A i \in 1 .. s0.size : m[NextBlock(s0, n)][i] = memory[s0.store][i]
  BY <1>0, <1>1, MemoryEnsuredIs
<1>4. ~Fits(s0, n) =>
        IF Moves(s0, n) THEN memory[NextBlock(s0, n)] = <<>> /\ NextBlock(s0, n) # s0.store
                        ELSE NextBlock(s0, n) = s0.store /\ Len(memory[s0.store]) >= SizeFor(n)
  BY <1>0, <1>1, NextBlockIs
<1>5. SizeFor(n) \in Nat /\ SizeFor(n) > 0
  BY SizeForIs
<1>6. CASE Fits(s0, n)
  <2>1. s = s0 /\ ~Moves(s0, n) /\ m = memory /\ f = freed
    BY <1>2, <1>3, <1>6 DEF Moves, FreedEnsured
  <2>2. Grown(o, s0, n, s, m, f)
    BY <1>0, <1>2, <1>3, <2>1 DEF Grown, Placed
  <2>3. (s0.size > 0 => s0.data = s0.store) => GrownSafely(s0, n, s, m)
    BY <2>1 DEF GrownSafely
  <2> QED
    BY <2>2, <2>3
<1>7. CASE ~Fits(s0, n) /\ ~Moves(s0, n)
  <2>1. /\ m = memory /\ f = freed /\ s.store = s0.store /\ s.data = s0.store /\ s.store \in Blocks
        /\ s.size = SizeFor(n) /\ s.size <= Len(memory[s.store]) /\ s.offset = 0
    BY <1>2, <1>3, <1>4, <1>5, <1>7 DEF FreedEnsured
  <2>2. Grown(o, s0, n, s, m, f)
    BY <1>0, <1>2, <1>3, <2>1 DEF Grown, Placed
  <2>3. (s0.size > 0 => s0.data = s0.store) => GrownSafely(s0, n, s, m)
    <3>1. CASE s0.size > 0
      BY <2>1, <3>1 DEF GrownSafely
    <3>2. CASE s0.size = 0
      BY <2>1, <3>2 DEF GrownSafely
    <3> QED
      BY <1>0, <3>1, <3>2
  <2> QED
    BY <2>2, <2>3
<1>8. CASE ~Fits(s0, n) /\ Moves(s0, n)
  <2>1. /\ s.store \in Blocks /\ s.data = s.store /\ memory[s.store] = <<>> /\ s.store # obj[o].store
        /\ s.size = SizeFor(n) /\ s.size = Len(m[s.store]) /\ s.offset = 0 /\ s.size > 0
        /\ \A i \in 1 .. s0.size : m[s.store][i] = memory[s0.store][i]
    BY <1>2, <1>3, <1>4, <1>5, <1>8
  <2>2. m[s.store] # <<>>
    <3>1. m[s.store] \in Seq(Cell)
      BY <1>3, <2>1 DEF Memory, Cell
    <3> QED
      BY <2>1, EmptySeq
  <2>3. f = freed \/ (obj[o].store # Null /\ f = freed \cup {obj[o].store})
    BY DEF FreedEnsured
  <2>4. s.store \notin f
    BY <1>0, <2>1, <2>3 DEF FreedUsed
  <2>5. Grown(o, s0, n, s, m, f)
    BY <1>0, <1>2, <1>3, <1>8, <2>1, <2>2, <2>3, <2>4 DEF Grown
  <2>6. (s0.size > 0 => s0.data = s0.store) => GrownSafely(s0, n, s, m)
    BY <1>0, <1>8, <2>1 DEF GrownSafely
  <2> QED
    BY <2>5, <2>6
<1> QED
  BY <1>6, <1>7, <1>8
-----------------------------------------------------------------------------
(* The actions.                                                              *)

Booked ==
  /\ texts' \in [Objects -> SUBSET [kind : {"string", "counted"}, first : Nat, end : Nat]]
  /\ operations' \in 0 .. Operations

LEMMA ViewsAre ==
  ASSUME SerInv, NEW o \in Objects
  PROVE  ViewsOf(o) \subseteq Objects /\ \A v \in ViewsOf(o) : obj[v].base # Null
BY Constants DEF ViewsOf

\* PushRawData: growth, then the bytes.
LEMMA PushInv ==
  ASSUME SerInv, NEW o \in Objects, NEW bytes \in Seq(Cell), bytes # <<>>, PushBytes(o, bytes), Booked
  PROVE  SerInv'
<1> PICK l, n, s0, s, m : /\ l = obj[o].length /\ n = l + Len(bytes) /\ s0 = obj[o]
                          /\ s = Ensured(obj[o], n) /\ m = MemoryEnsured(obj[o], n)
  OBVIOUS
<1>0. /\ SerTypeOK /\ failure = Null /\ obj[o].alive /\ Placed(o) /\ s0 \in Object /\ l \in Nat
      /\ CanEnsure(s0, n) /\ s0.owns /\ FreedUsed /\ freed \subseteq Blocks /\ s0.size \in Nat /\ Null \notin Blocks
  BY Constants, Parts DEF SerInv, PushBytes, Live, AllPlaced, SerTypeOK, CanEnsure
<1>1. Len(bytes) \in Nat /\ Len(bytes) > 0 /\ n \in Nat /\ n > l
  <2>1. Len(bytes) \in Nat \ {0}
    BY EmptySeq
  <2> QED
    BY <1>0, <2>1
<1>2. /\ freed' = FreedEnsured(s0, n)
      /\ IF s.data \in freed'
           THEN failure' = o /\ obj' = obj /\ memory' = memory /\ content' = content
           ELSE /\ obj' = [obj EXCEPT ![o] = [s EXCEPT !.length = n]] /\ memory' = Appended(m, s, bytes)
                /\ content' = [content EXCEPT ![o] = @ \o bytes] /\ failure' = failure
      /\ suspect' = IF Moves(s0, n) THEN suspect \cup ViewsOf(o) ELSE suspect
      /\ doomed' = doomed
  BY DEF PushBytes
<1>3. s0.store = obj[o].store /\ s0.offset = 0 /\ s0.size = obj[o].size /\ s0.data = obj[o].data
  BY <1>0 DEF Placed
<1>4. Grown(o, s0, n, s, m, freed') /\ ((s0.size > 0 => s0.data = s0.store) => GrownSafely(s0, n, s, m))
  BY <1>0, <1>1, <1>2, <1>3, Grows
<1>5. o \notin suspect => l <= s0.size /\ (s0.size > 0 => s0.data = s0.store)
  BY <1>0 DEF SerInv, OwnersSafe, Safe, Own
<1>6. s.size >= n /\ s.size > 0 /\ s.size \in Nat /\ s.data \in Blocks /\ s.store \in Blocks /\ s \in Object
  <2>1. s.size \in Nat /\ s.size >= n /\ s.data \in Blocks \cup {Null} /\ s.store \in Blocks \cup {Null}
    BY <1>4 DEF Grown, Object
  <2>2. s.size > 0
    BY <1>0, <1>1, <2>1
  <2> QED
    BY <1>4, <2>1, <2>2 DEF Grown
<1>7. CASE s.data \in freed'
  <2>1. obj' = obj /\ memory' = memory /\ content' = content /\ failure' = o
    BY <1>2, <1>7
  <2>2. o \in suspect
    <3> SUFFICES ASSUME o \notin suspect PROVE FALSE
      OBVIOUS
    <3>1. s.data = s.store
      BY <1>4, <1>5, <1>6 DEF GrownSafely
    <3> QED
      BY <1>4, <1>6, <1>7, <3>1, Constants DEF Grown
  <2>3. Fits(s0, n)
    <3> SUFFICES ASSUME ~Fits(s0, n) PROVE FALSE
      OBVIOUS
    <3>1. s.data = s.store
      BY <1>2 DEF Ensured
    <3> QED
      BY <1>4, <1>6, <1>7, <3>1, Constants DEF Grown
  <2>4. freed' = freed /\ suspect' = suspect /\ doomed' = doomed
    BY <1>2, <2>3 DEF FreedEnsured, Moves
  <2>5. SerTypeOK'
    BY <2>1, <2>4 DEF SerTypeOK, SerInv, Booked
  <2>6. FailuresExplained'
    BY <2>1, <2>2, <2>4 DEF FailuresExplained
  <2> QED
    BY <2>1, <2>4, <2>5, <2>6
    DEF SerInv, AllPlaced, Placed, StoresDiffer, FreedUsed, OwnersSafe, Safe, Own, ViewsSafe, InBase, BytesLeft,
        NoIntruder, Intact, Bytes
<1>8. CASE s.data \notin freed'
  <2> PICK r : r = [s EXCEPT !.length = n]
    OBVIOUS
  <2>1. /\ r \in Object /\ r.alive = s.alive /\ r.owns = s.owns /\ r.base = s.base /\ r.store = s.store
        /\ r.size = s.size /\ r.data = s.data /\ r.offset = s.offset /\ r.readPos = s.readPos /\ r.length = n
    BY ONLY <1>1, <1>6, r = [s EXCEPT !.length = n] DEF Object
  <2>2. /\ s.alive /\ s.owns /\ s.base = Null /\ s.readPos = s0.readPos /\ s.length = l /\ s.offset = 0
        /\ s0.readPos <= l /\ s0.readPos \in Nat
    BY <1>0, <1>4, Parts DEF Grown, Placed
  <2>3. /\ obj' = [obj EXCEPT ![o] = r] /\ memory' = Appended(m, s, bytes)
        /\ content' = [content EXCEPT ![o] = @ \o bytes] /\ failure' = failure
    BY <1>2, <1>8
  <2>4. obj'[o] = r /\ \A p \in Objects : p # o => obj'[p] = obj[p] /\ content'[p] = content[p]
    BY <2>3, <1>0 DEF SerTypeOK
  <2>5. /\ m \in [Blocks -> Memory] /\ n <= Len(m[s.data]) /\ s.size <= Len(m[s.data]) /\ s.size <= Len(m[s.store])
        /\ Len(m[s.data]) \in Nat
    <3>1. m \in [Blocks -> Memory] /\ s.size <= Len(m[s.data]) /\ s.size <= Len(m[s.store])
      BY <1>4, <1>6 DEF Grown
    <3>2. Len(m[s.data]) \in Nat
      BY <1>6, <3>1 DEF Memory
    <3> QED
      BY <1>1, <1>6, <3>1, <3>2
  <2>6. /\ memory' \in [Blocks -> Memory] /\ Len(memory'[s.data]) = Len(m[s.data])
        /\ \A b \in Blocks : b # s.data => memory'[b] = m[b]
        /\ \A i \in 1 .. l : memory'[s.data][i] = m[s.data][i]
        /\ \A j \in 1 .. Len(bytes) : memory'[s.data][l + j] = bytes[j]
    <3>1. s.length + Len(bytes) <= Len(m[s.data]) /\ s.offset = 0 /\ s.data \in Blocks /\ s \in Object
      BY <1>6, <2>2, <2>5
    <3>2. /\ memory' \in [Blocks -> Memory] /\ Len(memory'[s.data]) = Len(m[s.data])
          /\ \A b \in Blocks : b # s.data => memory'[b] = m[b]
          /\ \A i \in 1 .. s.length : memory'[s.data][i] = m[s.data][i]
          /\ \A j \in 1 .. Len(bytes) : memory'[s.data][s.length + j] = bytes[j]
      BY ONLY <2>3, <2>5, <3>1, bytes \in Seq(Cell), bytes # <<>>, AppendedIs
    <3>3. s.length = l
      BY <2>2
    <3> QED
      BY ONLY <3>2, <3>3
  <2>7. /\ \A b \in Blocks : memory[b] # <<>> => m[b] = memory[b] /\ Len(memory'[b]) = Len(memory[b])
        /\ \A b \in Blocks : Len(memory'[b]) = Len(m[b])
        /\ \A b \in Blocks : memory[b] # <<>> /\ b # s.data => memory'[b] = memory[b]
    <3>1. /\ \A b \in Blocks : b # s.data => memory'[b] = m[b]
          /\ Len(memory'[s.data]) = Len(m[s.data])
      BY <2>6
    <3>2. \A b \in Blocks : memory[b] # <<>> => m[b] = memory[b]
      BY <1>4 DEF Grown
    <3>3. \A b \in Blocks : Len(memory'[b]) = Len(m[b])
      BY ONLY <3>1
    <3> QED
      BY ONLY <3>1, <3>2, <3>3
  <2>8. SerTypeOK'
    <3>1. obj' \in [Objects -> Object]
      BY <1>0, <2>1, <2>3 DEF SerTypeOK
    <3>2. content' \in [Objects -> Memory]
      <4>1. content[o] \in Seq(Cell)
        BY <1>0 DEF SerTypeOK, Memory, Cell
      <4>2. content[o] \o bytes \in Memory
        BY <4>1 DEF Memory, Cell
      <4> QED
        BY <1>0, <2>3, <4>2 DEF SerTypeOK
    <3>3. freed' \subseteq Blocks /\ suspect' \subseteq Objects
      BY <1>0, <1>2, <1>4, ViewsAre DEF SerTypeOK, Grown, Object
    <3> QED
      BY <1>0, <1>2, <2>3, <2>6, <3>1, <3>2, <3>3 DEF SerTypeOK, Booked
  <2>9. Placed(o)'
    <3>1. r.readPos <= r.length
      BY <1>0, <1>1, <2>1, <2>2
    <3>2. r.store # Null => r.store \notin freed' /\ memory'[r.store] # <<>>
      <4>1. m[s.store] # <<>> /\ s.store \notin freed'
        BY <1>4, <1>6, Constants DEF Grown
      <4>2. Len(m[s.store]) > 0
        BY <1>6, <2>5
      <4>3. Len(memory'[s.store]) > 0
        BY <1>6, <2>7, <4>2
      <4> QED
        BY <2>1, <4>1, <4>3, EmptySeq
    <3>3. memory'[r.data] # <<>> /\ r.data # Null /\ r.store # Null
      <4>1. Len(memory'[s.data]) > 0
        BY ONLY <1>6, <2>5, <2>7
      <4> QED
        BY <1>6, <2>1, <4>1, EmptySeq, Constants
    <3>4. r.offset + r.length <= Len(memory'[r.data])
      <4>1. r.data = s.data /\ r.offset = 0 /\ r.length = n /\ n <= Len(m[s.data])
        BY <2>1, <2>2, <2>5
      <4>2. Len(memory'[s.data]) = Len(m[s.data])
        BY <1>6, <2>7
      <4>3. r.offset + r.length = n
        BY ONLY <1>1, <4>1
      <4> QED
        BY ONLY <4>1, <4>2, <4>3
    <3>5. r.size <= Len(memory'[r.store]) /\ r.size <= Len(memory'[r.data])
      BY <1>6, <2>1, <2>5, <2>7
    <3> QED
      BY <2>1, <2>2, <2>4, <3>1, <3>2, <3>3, <3>4, <3>5 DEF Placed
  <2>10. BlocksChange(o)
    <3>1. \A b \in Blocks : memory[b] # <<>> /\ memory'[b] # memory[b] =>
            b = obj[o].store \/ (b = obj[o].data /\ obj[o].size > 0)
      <4>1. s.data = s.store \/ (s.data = obj[o].data /\ obj[o].size > 0)
        BY <1>4, <1>6 DEF Grown
      <4>2. s.store = Null \/ s.store = obj[o].store \/ memory[s.store] = <<>>
        BY <1>4 DEF Grown
      <4> QED
        BY ONLY <1>0, <1>6, <2>7, <4>1, <4>2
    <3>2. freed' = freed \/ (Moves(s0, n) /\ freed' = freed \cup {obj[o].store} /\ obj[o].store # Null /\ s.store # obj[o].store)
      BY <1>4 DEF Grown
    <3>3. Moves(s0, n) => ViewsOf(o) \subseteq suspect'
      BY <1>2
    <3>4. s.data = s.store \/ (obj[o].size > 0 /\ s.data = obj[o].data)
      BY <1>4, <1>6 DEF Grown
    <3>5. s.store = Null \/ s.store = obj[o].store \/ memory[s.store] = <<>>
      BY <1>4 DEF Grown
    <3> QED
      BY <1>0, <2>1, <2>4, <2>7, <3>1, <3>2, <3>3, <3>4, <3>5 DEF BlocksChange
  <2>11. ViewsKept(o)
    <3> SUFFICES ASSUME o \notin suspect, NEW v \in ViewsOf(o), v \notin suspect'
                 PROVE  /\ obj'[o].base = obj[o].base /\ o \notin suspect'
                        /\ obj[o].length <= obj'[o].length /\ obj'[o].readPos = obj[o].readPos
                        /\ obj[o].length > 0 =>
                             /\ obj'[o].data = obj[o].data
                             /\ \A i \in 1 .. obj[o].length : memory'[obj[o].data][i] = memory[obj[o].data][i]
      BY DEF ViewsKept
    <3>1. ~Moves(s0, n) /\ suspect' = suspect
      BY <1>2
    <3>2. l > 0 => s.data = s0.data /\ s0.size > 0 /\ l <= s0.size
      BY <1>0, <1>4, <1>5, <3>1 DEF GrownSafely
    <3>3. ASSUME NEW i \in 1 .. l PROVE memory'[s0.data][i] = memory[s0.data][i]
      <4>1. l > 0 /\ i \in 1 .. s0.size
        BY <1>0, <3>2
      <4>2. m[s.data][i] = memory[s0.data][i]
        BY <1>4, <1>5, <4>1 DEF GrownSafely
      <4>3. memory'[s.data][i] = m[s.data][i]
        BY <2>6
      <4> QED
        BY ONLY <3>2, <4>1, <4>2, <4>3
    <3>4. obj[o].owns /\ obj[o].base = Null
      BY <1>0 DEF Placed
    <3>5. obj'[o].length = n /\ obj'[o].data = s.data /\ l <= n
      BY <1>0, <1>1, <2>1, <2>4
    <3>6. obj'[o].base = obj[o].base /\ obj'[o].readPos = obj[o].readPos
      BY <1>0, <2>1, <2>2, <2>4, <3>4
    <3>7. obj[o].length > 0 =>
            /\ obj'[o].data = obj[o].data
            /\ \A i \in 1 .. obj[o].length : memory'[obj[o].data][i] = memory[obj[o].data][i]
      BY <3>2, <3>3, <3>5
    <3> QED
      BY <3>1, <3>5, <3>6, <3>7
  <2>12. RisksGrow(o)
    BY <1>2, ViewsAre DEF RisksGrow
  <2>13. ASSUME o \notin suspect' PROVE Own(o)' /\ HasContent(o)'
    <3>1. o \notin suspect
      BY <1>2, <2>13
    <3>2. s.data = s.store /\ \A i \in 1 .. s0.size : m[s.data][i] = memory[s0.data][i]
      BY <1>4, <1>5, <1>6, <3>1 DEF GrownSafely
    <3>3. Own(o)'
      BY <1>6, <2>1, <2>4, <3>2 DEF Own
    <3>4. l = Len(content[o]) /\ (l > 0 => Bytes(memory, s0) = content[o])
      BY <1>0, <3>1 DEF SerInv, Intact
    <3>5. content[o] \in Seq(Cell) /\ content'[o] = content[o] \o bytes
      BY <1>0, <2>3 DEF SerTypeOK, Memory, Cell
    <3>6. content'[o] \in Seq(Cell) /\ Len(content'[o]) = n
      BY <3>4, <3>5
    <3>7. ASSUME NEW i \in 1 .. n PROVE memory'[s.data][0 + i] = content'[o][i]
      <4>1. CASE i <= l
        <5>1. i \in 1 .. l /\ l > 0 /\ i \in 1 .. s0.size
          BY <1>0, <1>1, <1>5, <3>1, <4>1
        <5>2. content[o][i] = memory[s0.data][i]
          BY <1>3, <3>4, <5>1 DEF Bytes
        <5>3. content'[o][i] = content[o][i]
          BY <3>4, <3>5, <5>1
        <5>4. memory'[s.data][i] = m[s.data][i]
          BY <2>6, <5>1
        <5>5. m[s.data][i] = memory[s0.data][i]
          BY <3>2, <5>1
        <5> QED
          BY ONLY <5>1, <5>2, <5>3, <5>4, <5>5
      <4>2. CASE ~(i <= l)
        <5> PICK j : j = i - l
          OBVIOUS
        <5>1. j \in 1 .. Len(bytes) /\ l + j = i
          BY <1>0, <1>1, <4>2
        <5>2. content'[o][i] = bytes[j]
          BY <1>0, <1>1, <3>4, <3>5, <4>2, <5>1
        <5>3. memory'[s.data][l + j] = bytes[j]
          BY <2>6, <5>1
        <5>4. 0 + i = i
          OBVIOUS
        <5> QED
          BY ONLY <5>1, <5>2, <5>3, <5>4
      <4> QED
        BY <4>1, <4>2
    <3>8. Bytes(memory', r) = content'[o]
      <4>1. Bytes(memory', r) = [i \in 1 .. n |-> memory'[s.data][0 + i]]
        <5>1. r.length = n /\ r.offset = 0 /\ r.data = s.data
          BY <2>1, <2>2
        <5> QED
          BY ONLY <5>1 DEF Bytes
      <4>2. content'[o] = [i \in 1 .. n |-> content'[o][i]]
        BY <3>6
      <4> QED
        BY <3>7, <4>1, <4>2
    <3>9. HasContent(o)'
      BY <1>8, <2>1, <2>4, <3>6, <3>8 DEF HasContent
    <3> QED
      BY <3>3, <3>9
  <2>14. obj'[o].owns /\ obj'[o].alive /\ failure' = Null
    BY <1>0, <2>1, <2>2, <2>3, <2>4
  <2>15. Changed(o)
    BY <2>4, <2>8, <2>9, <2>10, <2>11, <2>12, <2>13, <2>14 DEF Changed
  <2> QED
    BY <2>15, ChangedInv
<1> QED
  BY <1>7, <1>8

\* o has a buffer of n bytes now, grown from s0; which of them are new is up to the action.
Resize(o, s0, n, s, m, r) ==
  /\ obj[o].alive /\ obj[o].owns /\ failure = Null /\ failure' = Null
  /\ s0 \in Object /\ n \in Nat /\ CanEnsure(s0, n) /\ s0.alive /\ s0.owns /\ s0.base = Null
  /\ s0.store = obj[o].store /\ s0.offset = 0
  /\ (s0.size = obj[o].size /\ s0.data = obj[o].data) \/ (s0.size = 0 /\ s0.data = Null)
  /\ s = Ensured(s0, n) /\ m = MemoryEnsured(s0, n) /\ freed' = FreedEnsured(s0, n)
  /\ r \in Object /\ r.alive = s.alive /\ r.owns = s.owns /\ r.base = s.base /\ r.store = s.store
  /\ r.size = s.size /\ r.data = s.data /\ r.offset = s.offset /\ r.length = n /\ r.readPos <= n
  /\ obj' = [obj EXCEPT ![o] = r] /\ memory' \in [Blocks -> Memory] /\ content' \in [Objects -> Memory]
  /\ \A b \in Blocks : Len(memory'[b]) = Len(m[b]) /\ (b # r.store => memory'[b] = m[b])
  /\ \A p \in Objects : p # o => content'[p] = content[p]
  /\ suspect' = suspect \cup ViewsOf(o) /\ doomed' = doomed \cup ViewsOf(o)
  /\ o \notin suspect' => Own(o)' /\ HasContent(o)'

\* An object that has a new length and a buffer for it.
LEMMA ResizeInv ==
  ASSUME SerInv, Booked, NEW o \in Objects, NEW s0, NEW n, NEW s, NEW m, NEW r, Resize(o, s0, n, s, m, r)
  PROVE  SerInv'
<1> USE DEF Resize
<1>0. /\ SerTypeOK /\ Placed(o) /\ Null \notin Blocks /\ obj[o].base = Null
      /\ obj[o].store \in Blocks \cup {Null} /\ r.store \in Blocks \cup {Null} /\ r.data \in Blocks \cup {Null}
      /\ r.size \in Nat
  BY Constants, Parts DEF SerInv, AllPlaced, Placed, Object
<1>1. Grown(o, s0, n, s, m, freed')
  BY Grows
<1>2. obj'[o] = r /\ \A p \in Objects : p # o => obj'[p] = obj[p]
  BY <1>0 DEF SerTypeOK
<1>3. /\ \A b \in Blocks : memory[b] # <<>> => m[b] = memory[b] /\ Len(memory'[b]) = Len(memory[b])
      /\ \A b \in Blocks : m[b] # <<>> => memory'[b] # <<>>
  <2>1. \A b \in Blocks : memory[b] # <<>> => m[b] = memory[b]
    BY <1>1 DEF Grown
  <2>2. ASSUME NEW b \in Blocks, m[b] # <<>> PROVE memory'[b] # <<>>
    <3>1. m[b] \in Seq(Cell) /\ Len(memory'[b]) = Len(m[b])
      BY <1>1 DEF Grown, Memory, Cell
    <3>2. Len(m[b]) \in Nat \ {0}
      BY <2>2, <3>1, EmptySeq
    <3> QED
      BY <3>1, <3>2, EmptySeq
  <2> QED
    BY <2>1, <2>2
<1>4. r.alive /\ r.owns /\ r.base = Null /\ r.offset = 0
  BY <1>1 DEF Grown
<1>5. SerTypeOK'
  <2>1. obj' \in [Objects -> Object]
    BY <1>0 DEF SerTypeOK
  <2>2. freed' \subseteq Blocks /\ suspect' \subseteq Objects /\ doomed' \subseteq Objects
    BY <1>0, <1>1, ViewsAre DEF SerTypeOK, Grown
  <2> QED
    BY <2>1, <2>2 DEF SerTypeOK, Booked
<1>6. Placed(o)'
  <2>1. r.store # Null => r.store \notin freed' /\ memory'[r.store] # <<>>
    BY <1>0, <1>1, <1>3 DEF Grown
  <2>2. r.data # Null => memory'[r.data] # <<>>
    BY <1>0, <1>1, <1>3 DEF Grown
  <2>3. r.size > 0 => /\ r.store # Null /\ r.data # Null
                      /\ r.size <= Len(memory'[r.store]) /\ r.size <= Len(memory'[r.data])
    BY <1>0, <1>1 DEF Grown
  <2>4. r.length > 0 => r.data # Null /\ r.offset + r.length <= Len(memory'[r.data])
    <3>1. r.size >= n
      BY <1>1 DEF Grown
    <3>2. n > 0 => r.size > 0
      BY <1>0, <3>1
    <3>3. r.data # Null => Len(memory'[r.data]) \in Nat
      BY <1>0, <1>5 DEF SerTypeOK, Memory
    <3> QED
      BY <1>0, <1>4, <2>3, <3>1, <3>2, <3>3
  <2> QED
    BY <1>2, <1>4, <2>1, <2>2, <2>3, <2>4 DEF Placed
<1>7. BlocksChange(o)
  <2>1. r.size > 0 => r.data = r.store \/ (obj[o].size > 0 /\ r.data = obj[o].data)
    BY <1>1 DEF Grown
  <2>2. r.store = Null \/ r.store = obj[o].store \/ memory[r.store] = <<>>
    BY <1>1 DEF Grown
  <2>3. \A b \in Blocks : memory[b] # <<>> /\ memory'[b] # memory[b] => b = obj[o].store
    BY <1>0, <1>3, <2>2
  <2>4. \/ freed' = freed
        \/ freed' = freed \cup {obj[o].store} /\ obj[o].store # Null /\ r.store # obj[o].store
    BY <1>1 DEF Grown
  <2> QED
    BY <1>2, <1>3, <2>1, <2>2, <2>3, <2>4 DEF BlocksChange
<1>8. ViewsKept(o) /\ RisksGrow(o)
  BY <1>0, ViewsAre DEF ViewsKept, RisksGrow
<1>9. Changed(o)
  BY <1>2, <1>4, <1>5, <1>6, <1>7, <1>8 DEF Changed
<1> QED
  BY <1>9, ChangedInv

LEMMA LesserIs == ASSUME NEW a \in Nat, NEW b \in Nat PROVE Min({a, b}) = IF a <= b THEN a ELSE b
<1>1. Min({a, b}) \in {a, b} /\ \A y \in {a, b} : Min({a, b}) <= y
  BY MinIs
<1> QED
  BY <1>1

\* The object with its new length.
LEMMA ResizedIs ==
  ASSUME NEW s \in Object, NEW n \in Nat, NEW r, r = Resized(s, n)
  PROVE  /\ r \in Object /\ r.alive = s.alive /\ r.owns = s.owns /\ r.base = s.base /\ r.store = s.store
         /\ r.size = s.size /\ r.data = s.data /\ r.offset = s.offset /\ r.length = n /\ r.readPos <= n
<1>1. s.readPos \in Nat
  BY DEF Object
<1> PICK k : k = Min({s.readPos, n})
  OBVIOUS
<1>2. k \in Nat /\ k <= n
  BY <1>1, LesserIs
<1>3. r = [s EXCEPT !.length = n, !.readPos = k]
  BY DEF Resized
<1>4. r \in Object
  BY ONLY <1>2, <1>3, s \in Object, n \in Nat DEF Object
<1>5. /\ r.alive = s.alive /\ r.owns = s.owns /\ r.base = s.base /\ r.store = s.store
      /\ r.size = s.size /\ r.data = s.data /\ r.offset = s.offset /\ r.length = n /\ r.readPos = k
  BY ONLY <1>3, s \in Object DEF Object
<1> QED
  BY <1>2, <1>4, <1>5

\* What is read is in memory.
LEMMA BytesAre ==
  ASSUME NEW m \in [Blocks -> Memory], NEW s \in Object,
         s.length > 0 => s.data # Null /\ s.offset + s.length <= Len(m[s.data])
  PROVE  Bytes(m, s) \in Seq(Cell) /\ Len(Bytes(m, s)) = s.length
<1> PICK d, l, k : d = s.data /\ l = s.length /\ k = s.offset
  OBVIOUS
<1>0. d \in Blocks \cup {Null} /\ l \in Nat /\ k \in Nat
  BY DEF Object
<1>1. ASSUME NEW i \in 1 .. l PROVE m[d][k + i] \in Cell
  <2>1. m[d] \in Seq(Cell) /\ k + l <= Len(m[d])
    BY <1>0 DEF Memory, Cell
  <2>2. k + i \in 1 .. Len(m[d])
    BY <1>0, <2>1
  <2> QED
    BY <2>1, <2>2
<1> PICK f : f = [i \in 1 .. l |-> m[d][k + i]]
  OBVIOUS
<1>2. f \in [1 .. l -> Cell]
  BY <1>1
<1>3. f \in Seq(Cell) /\ Len(f) = l
  BY ONLY <1>0, <1>2
<1>4. Bytes(m, s) = f
  BY DEF Bytes
<1> QED
  BY <1>3, <1>4

\* What truncation and growth leave of a sequence.
Pieces(old, new, n) == SubSeq(old, 1, Min({n, Len(old)})) \o SubSeq(new, Len(old) + 1, n)

Pieced(w, old, new, n) ==
  Len(w) = n /\ \A i \in 1 .. n : w[i] = IF i <= Len(old) THEN old[i] ELSE new[i]

LEMMA PiecesAre ==
  ASSUME NEW S, NEW old \in Seq(S), NEW new \in Seq(S), NEW n \in Nat, Len(new) = n,
         NEW w, w = Pieces(old, new, n)
  PROVE  w \in Seq(S) /\ Pieced(w, old, new, n)
<1> PICK h, k, a : h = Len(old) /\ k = Min({n, h}) /\ a = h + 1
  OBVIOUS
<1>0. h \in Nat /\ a \in Nat /\ k = IF n <= h THEN n ELSE h
  <2>1. Len(old) \in Nat
    OBVIOUS
  <2> QED
    BY <2>1, LesserIs
<1> PICK first, rest : first = SubSeq(old, 1, k) /\ rest = SubSeq(new, a, n)
  OBVIOUS
<1>1. first \in Seq(S) /\ Len(first) = k /\ \A i \in 1 .. k : first[i] = old[i]
  <2>0. k \in Nat /\ k <= h
    BY <1>0
  <2>1. k \in Nat /\ \A i \in 1 .. k : old[i] \in S
    <3>1. ASSUME NEW i \in 1 .. k PROVE old[i] \in S
      <4>1. i \in 1 .. Len(old)
        BY <1>0, <2>0
      <4> QED
        BY <4>1
    <3> QED
      BY <2>0, <3>1
  <2>2. /\ SubSeq(old, 1, k) \in Seq(S) /\ Len(SubSeq(old, 1, k)) = (IF 1 <= k THEN k - 1 + 1 ELSE 0)
        /\ \A i \in 1 .. k - 1 + 1 : SubSeq(old, 1, k)[i] = old[1 + i - 1]
    BY ONLY <2>1, SubSeqProperties
  <2>3. ASSUME NEW i \in 1 .. k PROVE first[i] = old[i]
    <3>1. i \in 1 .. k - 1 + 1 /\ 1 + i - 1 = i
      BY <2>1
    <3> QED
      BY <2>2, <3>1
  <2>4. (IF 1 <= k THEN k - 1 + 1 ELSE 0) = k
    BY ONLY <2>0, <1>0
  <2> QED
    BY <2>2, <2>3, <2>4
<1>2. /\ rest \in Seq(S) /\ Len(rest) = (IF a <= n THEN n - a + 1 ELSE 0)
      /\ \A i \in 1 .. n - a + 1 : rest[i] = new[a + i - 1]
  <2>1. a \in Int /\ n \in Int /\ \A i \in a .. n : new[i] \in S
    BY <1>0
  <2>2. /\ SubSeq(new, a, n) \in Seq(S) /\ Len(SubSeq(new, a, n)) = (IF a <= n THEN n - a + 1 ELSE 0)
        /\ \A i \in 1 .. n - a + 1 : SubSeq(new, a, n)[i] = new[a + i - 1]
    BY ONLY <2>1, SubSeqProperties
  <2> QED
    BY <2>2
<1>3. /\ first \o rest \in Seq(S) /\ Len(first \o rest) = Len(first) + Len(rest)
      /\ \A i \in 1 .. Len(first) + Len(rest) : (first \o rest)[i] = IF i <= Len(first) THEN first[i] ELSE rest[i - Len(first)]
  BY ONLY <1>1, <1>2, ConcatProperties
<1>4. Len(first) + Len(rest) = n
  BY ONLY <1>0, <1>1, <1>2, a = h + 1, n \in Nat
<1>5. ASSUME NEW i \in 1 .. n PROVE (first \o rest)[i] = IF i <= h THEN old[i] ELSE new[i]
  <2>1. CASE i <= h
    <3>1. i <= k /\ i \in 1 .. k
      BY <1>0, <2>1
    <3>2. first[i] = old[i]
      BY ONLY <1>1, <3>1
    <3>3. (first \o rest)[i] = first[i]
      BY ONLY <1>1, <1>3, <1>4, <3>1, i \in 1 .. n
    <3> QED
      BY ONLY <2>1, <3>2, <3>3
  <2>2. CASE ~(i <= h)
    <3>1. k = h /\ i - h \in 1 .. n - a + 1 /\ a + (i - h) - 1 = i
      BY <1>0, <2>2
    <3>2. (first \o rest)[i] = rest[i - h]
      <4>1. i \in Nat /\ Len(first) = h /\ i > h
        BY <1>0, <1>1, <2>2, <3>1
      <4> QED
        BY ONLY <1>1, <1>3, <1>4, <3>1, <4>1, i \in 1 .. n
    <3>3. rest[i - h] = new[a + (i - h) - 1]
      BY <1>2, <3>1
    <3> QED
      BY <2>2, <3>1, <3>2, <3>3
  <2> QED
    BY <2>1, <2>2
<1>6. w = first \o rest
  BY DEF Pieces
<1>7. \A i \in 1 .. n : (first \o rest)[i] = IF i <= Len(old) THEN old[i] ELSE new[i]
  BY <1>5
<1> QED
  BY ONLY <1>3, <1>4, <1>6, <1>7 DEF Pieced

\* SetLength: what is kept is kept in the new block as well.
LEMMA SetLengthInv == ASSUME SerInv, NEW o \in Objects, NEW n \in Nat, SetLength(o, n), Booked PROVE SerInv'
<1> PICK l, s0, s, m, r : /\ l = obj[o].length /\ s0 = obj[o]
                          /\ s = Ensured(obj[o], n) /\ m = MemoryEnsured(obj[o], n) /\ r = Resized(s, n)
  OBVIOUS
<1>0. /\ SerTypeOK /\ failure = Null /\ obj[o].alive /\ Placed(o) /\ s0 \in Object /\ l \in Nat
      /\ CanEnsure(s0, n) /\ s0.owns /\ s0.size \in Nat /\ Null \notin Blocks
  BY Constants, Parts DEF SerInv, SetLength, Live, AllPlaced, SerTypeOK, CanEnsure
<1>1. /\ obj' = [obj EXCEPT ![o] = r] /\ memory' = Forget(m, obj'[o]) /\ freed' = FreedEnsured(s0, n)
      /\ suspect' = suspect \cup ViewsOf(o) /\ doomed' = doomed \cup ViewsOf(o) /\ failure' = failure
  BY DEF SetLength
<1>2. s0.store = obj[o].store /\ s0.offset = 0 /\ s0.size = obj[o].size /\ s0.data = obj[o].data /\ s0.base = Null
  BY <1>0 DEF Placed
<1>3. Grown(o, s0, n, s, m, freed') /\ ((s0.size > 0 => s0.data = s0.store) => GrownSafely(s0, n, s, m))
  BY <1>0, <1>1, <1>2, Grows
<1>4. s \in Object /\ m \in [Blocks -> Memory] /\ s.size >= n /\ s.size \in Nat
  BY <1>3 DEF Grown, Object
<1>5. /\ r \in Object /\ r.alive = s.alive /\ r.owns = s.owns /\ r.base = s.base /\ r.store = s.store
      /\ r.size = s.size /\ r.data = s.data /\ r.offset = s.offset /\ r.length = n /\ r.readPos <= n
  <2>1. s \in Object /\ n \in Nat
    BY <1>4
  <2> QED
    BY ONLY <2>1, r = Resized(s, n), ResizedIs
<1>6. obj'[o] = r
  BY <1>0, <1>1 DEF SerTypeOK
<1>7. /\ memory' \in [Blocks -> Memory]
      /\ \A b \in Blocks : Len(memory'[b]) = Len(m[b]) /\ (b # r.store => memory'[b] = m[b])
      /\ r.store # Null => \A i \in 1 .. Len(m[r.store]) :
           memory'[r.store][i] = IF i <= r.length THEN m[r.store][i] ELSE Junk
  BY <1>1, <1>4, <1>5, <1>6, ForgetIs
<1>8. r.length > 0 => /\ r.data # Null /\ r.offset + r.length <= Len(memory'[r.data]) /\ r.size > 0
                      /\ r.data \in Blocks /\ n <= Len(m[r.data])
  <2>1. n > 0 => s.size > 0 /\ s.data # Null /\ s.size <= Len(m[s.data]) /\ s.offset = 0
    BY <1>3, <1>4 DEF Grown
  <2>2. s.data \in Blocks \cup {Null}
    BY <1>4 DEF Object
  <2>3. s.data # Null => Len(m[s.data]) \in Nat /\ Len(memory'[s.data]) = Len(m[s.data])
    BY <1>4, <1>7, <2>2 DEF Memory
  <2> QED
    BY <1>4, <1>5, <2>1, <2>2, <2>3
<1> PICK old, new, w : /\ old = content[o] /\ new = Bytes(memory', r)
                       /\ w = Pieces(old, new, n)
  OBVIOUS
<1>9. old \in Seq(Cell) /\ new \in Seq(Cell) /\ Len(new) = n
  <2>1. old \in Seq(Cell)
    BY <1>0 DEF SerTypeOK, Memory, Cell
  <2>2. new \in Seq(Cell) /\ Len(new) = n
    BY <1>5, <1>7, <1>8, BytesAre
  <2> QED
    BY <2>1, <2>2
<1>10. /\ w \in Seq(Cell) /\ Len(w) = n
       /\ \A i \in 1 .. n : w[i] = IF i <= Len(old) THEN old[i] ELSE new[i]
  <2>1. w = Pieces(old, new, n)
    OBVIOUS
  <2>2. w \in Seq(Cell) /\ Pieced(w, old, new, n)
    BY ONLY <1>9, <2>1, n \in Nat, PiecesAre
  <2> QED
    BY <2>2 DEF Pieced
<1>11. /\ \A p \in Objects : p # o => content'[p] = content[p]
       /\ content'[o] = IF r.data \in freed' \/ n = 0 THEN <<>> ELSE w
       /\ content' \in [Objects -> Memory]
  <2>1. content' = [content EXCEPT ![o] = IF r.data \in freed' \/ n = 0 THEN <<>> ELSE w]
    BY <1>6 DEF SetLength, Pieces
  <2>2. <<>> \in Memory /\ w \in Memory
    BY <1>10, EmptySeq DEF Memory, Cell
  <2> QED
    BY <1>0, <2>1, <2>2 DEF SerTypeOK
<1>12. ASSUME o \notin suspect' PROVE Own(o)' /\ HasContent(o)'
  <2>1. o \notin suspect
    BY <1>1, <1>12
  <2>2. l <= s0.size /\ (s0.size > 0 => s0.data = s0.store)
    BY <1>0, <2>1 DEF SerInv, OwnersSafe, Safe, Own
  <2>3. GrownSafely(s0, n, s, m)
    BY <1>3, <2>2
  <2>4. Own(o)'
    BY <1>4, <1>5, <1>6, <2>3 DEF Own, GrownSafely
  <2>5. l = Len(old) /\ (l > 0 => Bytes(memory, s0) = old)
    BY <1>0, <2>1 DEF SerInv, Intact
  <2>6. CASE n = 0
    <3>1. content'[o] = <<>>
      BY <1>11, <2>6
    <3> QED
      BY <1>5, <1>6, <2>4, <2>6, <3>1, EmptySeq DEF HasContent
  <2>7. CASE n # 0
    <3>1. r.data = r.store /\ r.data # Null /\ r.size > 0 /\ n <= Len(m[r.data]) /\ r.data \in Blocks /\ Len(m[r.data]) \in Nat
      <4>1. r.length > 0
        BY <1>5, <2>7
      <4>2. r.data \in Blocks /\ r.data # Null /\ r.size > 0 /\ n <= Len(m[r.data])
        BY <1>8, <4>1
      <4>3. r.data = r.store
        BY <1>5, <2>3, <4>2 DEF GrownSafely
      <4> QED
        BY <1>4, <4>2, <4>3 DEF Memory
    <3>2. r.data \notin freed'
      BY <1>3, <1>5, <3>1 DEF Grown
    <3>3. content'[o] = w
      BY <1>11, <2>7, <3>2
    <3>4. new = [i \in 1 .. n |-> memory'[r.data][0 + i]]
      BY <1>3, <1>5 DEF Bytes, Grown
    <3>5. ASSUME NEW i \in 1 .. n PROVE w[i] = new[i]
      <4>1. CASE i <= Len(old)
        <5>1. i \in 1 .. l /\ l > 0 /\ i \in 1 .. s0.size
          BY <1>0, <2>2, <2>5, <4>1
        <5>2. w[i] = old[i]
          BY <1>10, <4>1
        <5>3. old[i] = memory[s0.data][i]
          BY <1>2, <2>5, <5>1 DEF Bytes
        <5>4. m[s.data][i] = memory[s0.data][i]
          BY <2>3, <5>1 DEF GrownSafely
        <5>5. memory'[r.data][i] = m[r.data][i]
          <6>1. i \in 1 .. Len(m[r.store]) /\ i <= r.length /\ r.store # Null
            BY <1>5, <3>1
          <6> QED
            BY <1>7, <3>1, <6>1
        <5>6. new[i] = memory'[r.data][i]
          BY <3>4
        <5> QED
          BY <1>5, <5>2, <5>3, <5>4, <5>5, <5>6
      <4>2. CASE ~(i <= Len(old))
        BY <1>10, <4>2
      <4> QED
        BY <4>1, <4>2
    <3>6. w = new
      BY ONLY <1>9, <1>10, <3>5, SeqEqual
    <3> QED
      BY <1>5, <1>6, <1>9, <2>4, <3>2, <3>3, <3>6 DEF HasContent
  <2> QED
    BY <2>6, <2>7
<1>13. Resize(o, s0, n, s, m, r)
  BY <1>0, <1>1, <1>2, <1>5, <1>7, <1>11, <1>12 DEF Resize
<1> QED
  BY <1>13, ResizeInv

\* The object without its data.
LEMMA ClearedIs ==
  ASSUME NEW s \in Object, NEW r, r = Cleared(s)
  PROVE  /\ r \in Object /\ r.alive = s.alive /\ r.owns = s.owns /\ r.base = s.base /\ r.store = s.store
         /\ r.size = 0 /\ r.data = Null /\ r.offset = 0 /\ r.length = 0 /\ r.readPos = 0
<1>1. r = [s EXCEPT !.size = 0, !.data = Null, !.length = 0, !.readPos = 0, !.offset = 0]
  BY DEF Cleared
<1>2. r \in Object
  BY ONLY <1>1, s \in Object DEF Object
<1> QED
  BY ONLY <1>1, <1>2, s \in Object DEF Object

\* ReadFromFile: the old storage is used again or given back.
LEMMA ReadFromFileInv ==
  ASSUME SerInv, NEW o \in Objects, NEW n \in Nat, NEW k, NEW byte \in Cell, ReadFromFile(o, n, k, byte), Booked
  PROVE  SerInv'
<1> PICK s0, s, m, r : /\ s0 = Cleared(obj[o]) /\ s = Ensured(s0, n) /\ m = MemoryEnsured(s0, n)
                       /\ r = Resized(s, n)
  OBVIOUS
<1>0. /\ SerTypeOK /\ failure = Null /\ obj[o].alive /\ Placed(o) /\ obj[o] \in Object /\ Null \notin Blocks
      /\ CanEnsure(s0, n) /\ k \in 0 .. n
  BY Constants DEF SerInv, ReadFromFile, Live, AllPlaced, SerTypeOK
<1>1. /\ s0 \in Object /\ s0.alive = obj[o].alive /\ s0.owns = obj[o].owns /\ s0.base = obj[o].base
      /\ s0.store = obj[o].store /\ s0.size = 0 /\ s0.data = Null /\ s0.offset = 0 /\ s0.length = 0
  <2>1. obj[o] \in Object
    BY <1>0
  <2> QED
    BY ONLY <2>1, s0 = Cleared(obj[o]), ClearedIs
<1>2. s0.owns /\ obj[o].owns /\ s0.base = Null /\ s0.alive
  BY <1>0, <1>1 DEF CanEnsure, Placed
<1>3. /\ obj' = [obj EXCEPT ![o] = r] /\ freed' = FreedEnsured(s0, n)
      /\ suspect' = suspect \cup ViewsOf(o) /\ doomed' = doomed \cup ViewsOf(o) /\ failure' = failure
      /\ content' = [content EXCEPT ![o] = [i \in 1 .. n |-> IF i <= k THEN byte ELSE Junk]]
  BY DEF ReadFromFile
<1>4. Grown(o, s0, n, s, m, freed') /\ GrownSafely(s0, n, s, m)
  <2>1. Grown(o, s0, n, s, m, freed') /\ ((s0.size > 0 => s0.data = s0.store) => GrownSafely(s0, n, s, m))
    BY <1>0, <1>1, <1>3, Grows
  <2> QED
    BY <1>1, <2>1
<1>5. s \in Object /\ m \in [Blocks -> Memory] /\ s.size >= n /\ s.size \in Nat
  BY <1>4 DEF Grown, Object
<1>6. /\ r \in Object /\ r.alive = s.alive /\ r.owns = s.owns /\ r.base = s.base /\ r.store = s.store
      /\ r.size = s.size /\ r.data = s.data /\ r.offset = s.offset /\ r.length = n /\ r.readPos <= n
  <2>1. r = Resized(s, n) /\ s \in Object /\ n \in Nat
    BY <1>5
  <2> QED
    BY ONLY <2>1, ResizedIs
<1>7. obj'[o] = r
  BY <1>0, <1>3 DEF SerTypeOK
<1> PICK z, w : z = [r EXCEPT !.length = 0] /\ w = Forget(m, z)
  OBVIOUS
<1>8. z \in Object /\ z.store = r.store /\ z.length = 0
  BY ONLY <1>6, z = [r EXCEPT !.length = 0] /\ w = Forget(m, z) DEF Object
<1>9. /\ w \in [Blocks -> Memory]
      /\ \A b \in Blocks : Len(w[b]) = Len(m[b]) /\ (b # z.store => w[b] = m[b])
      /\ z.store # Null => \A i \in 1 .. Len(m[z.store]) :
           w[z.store][i] = IF i <= z.length THEN m[z.store][i] ELSE Junk
  <2>1. w = Forget(m, z)
    OBVIOUS
  <2> QED
    BY ONLY <1>5, <1>8, <2>1, ForgetIs
<1>10. content' \in [Objects -> Memory] /\ \A p \in Objects : p # o => content'[p] = content[p]
  <2> PICK f : f = [i \in 1 .. n |-> IF i <= k THEN byte ELSE Junk]
    OBVIOUS
  <2>1. f \in [1 .. n -> Cell]
    BY DEF Cell
  <2>2. f \in Seq(Cell)
    BY ONLY <2>1, n \in Nat
  <2> QED
    BY <1>0, <1>3, <2>2 DEF SerTypeOK, Memory, Cell
<1>11. CASE n = 0
  <2>1. memory' = w
    BY <1>7, <1>11 DEF ReadFromFile
  <2>2. memory' \in [Blocks -> Memory] /\ \A b \in Blocks : Len(memory'[b]) = Len(m[b]) /\ (b # r.store => memory'[b] = m[b])
    BY <1>8, <1>9, <2>1
  <2>3. Own(o)'
    BY <1>4, <1>5, <1>6, <1>7, <1>11 DEF Own, GrownSafely
  <2>4. HasContent(o)'
    <3>1. content'[o] = [i \in 1 .. n |-> IF i <= k THEN byte ELSE Junk] /\ Len(content'[o]) = n
      BY <1>0, <1>3 DEF SerTypeOK
    <3> QED
      BY <1>6, <1>7, <1>11, <3>1 DEF HasContent
  <2>5. Resize(o, s0, n, s, m, r)
    BY <1>0, <1>1, <1>2, <1>3, <1>6, <1>10, <2>2, <2>3, <2>4 DEF Resize
  <2> QED
    BY <2>5, ResizeInv
<1>12. CASE n # 0
  <2>1. /\ r.data = r.store /\ r.data \in Blocks /\ r.data \notin freed' /\ r.offset = 0 /\ r.size > 0
        /\ Len(m[r.data]) \in Nat /\ n <= Len(m[r.data])
    <3>1. s.size > 0 /\ s.data \in Blocks \cup {Null}
      BY <1>5, <1>12 DEF Object
    <3>2. s.data = s.store /\ s.data # Null /\ s.size <= Len(m[s.data]) /\ s.store \notin freed' /\ s.offset = 0
      BY <1>4, <3>1 DEF Grown, GrownSafely
    <3>3. Len(m[s.data]) \in Nat
      BY <1>5, <3>1, <3>2 DEF Memory
    <3> QED
      BY <1>5, <1>6, <3>1, <3>2, <3>3
  <2> PICK d, old, f : /\ d = r.data /\ old = w[d]
                       /\ f = [i \in DOMAIN old |-> IF i <= k THEN byte ELSE old[i]]
    OBVIOUS
  <2>2. d \in Blocks /\ old \in Seq(Cell) /\ DOMAIN old = 1 .. Len(old) /\ Len(old) = Len(m[d]) /\ Len(old) \in Nat
    <3>1. d = r.data /\ old = w[d]
      OBVIOUS
    <3>2. old \in Seq(Cell)
      BY ONLY <1>9, <2>1, <3>1 DEF Memory, Cell
    <3> QED
      BY ONLY <1>9, <2>1, <3>1, <3>2
  <2>3. memory' = Put(w, d, f)
    <3>1. memory' = [w EXCEPT ![d] = [i \in DOMAIN @ |-> IF i <= k THEN byte ELSE @[i]]]
      BY <1>7, <1>12 DEF ReadFromFile
    <3>2. f = [i \in DOMAIN w[d] |-> IF i <= k THEN byte ELSE w[d][i]]
      OBVIOUS
    <3> QED
      BY ONLY <3>1, <3>2 DEF Put
  <2>4. f \in [DOMAIN w[d] -> Cell]
    <3>1. ASSUME NEW i \in DOMAIN old PROVE f[i] \in Cell
      BY <2>2
    <3> QED
      BY <3>1
  <2>5. /\ memory' \in [Blocks -> Memory] /\ memory'[d] = f /\ Len(memory'[d]) = Len(w[d])
        /\ \A b \in Blocks : b # d => memory'[b] = w[b]
    BY ONLY <1>9, <2>2, <2>3, <2>4, Written
  <2>6. \A b \in Blocks : Len(memory'[b]) = Len(m[b]) /\ (b # r.store => memory'[b] = m[b])
    <3>1. d = r.data
      OBVIOUS
    <3> QED
      BY ONLY <1>8, <1>9, <2>1, <2>5, <3>1
  <2>7. Own(o)'
    BY <1>5, <1>6, <1>7, <2>1 DEF Own
  <2>8. HasContent(o)'
    <3>1. content'[o] = [i \in 1 .. n |-> IF i <= k THEN byte ELSE Junk] /\ Len(content'[o]) = n
      BY <1>0, <1>3 DEF SerTypeOK
    <3>2. ASSUME NEW i \in 1 .. n PROVE f[0 + i] = IF i <= k THEN byte ELSE Junk
      <4>1. i \in 1 .. Len(m[d]) /\ i \in DOMAIN old /\ 0 + i = i /\ ~(i <= 0)
        BY <2>1, <2>2
      <4>2. old[i] = Junk
        <5>1. d = r.data /\ old = w[d] /\ z.store # Null
          BY <1>8, <2>1, Constants
        <5> QED
          BY ONLY <1>8, <1>9, <2>1, <4>1, <5>1
      <4> QED
        BY <4>1, <4>2
    <3>3. Bytes(memory', r) = [i \in 1 .. n |-> f[0 + i]]
      BY <1>6, <2>1, <2>5 DEF Bytes
    <3>4. Bytes(memory', r) = content'[o]
      BY ONLY <3>1, <3>2, <3>3
    <3> QED
      BY <1>6, <1>7, <2>1, <3>1, <3>4 DEF HasContent
  <2>9. Resize(o, s0, n, s, m, r)
    BY <1>0, <1>1, <1>2, <1>3, <1>6, <1>10, <2>5, <2>6, <2>7, <2>8 DEF Resize
  <2> QED
    BY <2>9, ResizeInv
<1> QED
  BY <1>11, <1>12

\* Clear: the object keeps its block, and its views are put at risk.
LEMMA ClearInv == ASSUME SerInv, NEW o \in Objects, Clear(o), Booked PROVE SerInv'
<1> PICK r : r = Cleared(obj[o])
  OBVIOUS
<1>0. /\ SerTypeOK /\ failure = Null /\ obj[o].alive /\ Placed(o) /\ obj[o] \in Object /\ Null \notin Blocks
      /\ obj[o].store \in Blocks \cup {Null} /\ obj[o].owns \in BOOLEAN /\ memory \in [Blocks -> Memory]
  BY Constants, Parts DEF SerInv, Clear, Live, AllPlaced, SerTypeOK
<1>1. /\ r \in Object /\ r.alive = obj[o].alive /\ r.owns = obj[o].owns /\ r.base = obj[o].base
      /\ r.store = obj[o].store /\ r.size = 0 /\ r.data = Null /\ r.offset = 0 /\ r.length = 0 /\ r.readPos = 0
  <2>1. obj[o] \in Object
    BY <1>0
  <2> QED
    BY ONLY <2>1, r = Cleared(obj[o]), ClearedIs
<1>2. /\ obj' = [obj EXCEPT ![o] = r] /\ freed' = freed /\ failure' = failure
      /\ suspect' = suspect \cup ViewsOf(o) /\ doomed' = doomed \cup ViewsOf(o)
      /\ content' = [content EXCEPT ![o] = <<>>] /\ memory' = Forget(memory, obj'[o])
  BY DEF Clear
<1>3. obj'[o] = r /\ content'[o] = <<>> /\ \A p \in Objects : p # o => obj'[p] = obj[p] /\ content'[p] = content[p]
  BY <1>0, <1>2 DEF SerTypeOK
<1>4. /\ memory' \in [Blocks -> Memory]
      /\ \A b \in Blocks : Len(memory'[b]) = Len(memory[b]) /\ (b # obj[o].store => memory'[b] = memory[b])
  BY <1>0, <1>1, <1>2, <1>3, ForgetIs
<1>5. SerTypeOK'
  <2>1. obj' \in [Objects -> Object] /\ content' \in [Objects -> Memory]
    BY <1>0, <1>1, <1>2, EmptySeq DEF SerTypeOK, Memory
  <2>2. suspect' \subseteq Objects /\ doomed' \subseteq Objects
    BY <1>0, <1>2, ViewsAre DEF SerTypeOK
  <2> QED
    BY <1>0, <1>2, <1>4, <2>1, <2>2 DEF SerTypeOK, Booked
<1>6. Placed(o)'
  <2>1. obj[o].store # Null => memory'[obj[o].store] # <<>>
    <3> SUFFICES ASSUME obj[o].store # Null PROVE memory'[obj[o].store] # <<>>
      OBVIOUS
    <3>1. memory[obj[o].store] \in Seq(Cell) /\ memory[obj[o].store] # <<>>
      BY <1>0 DEF Placed, Memory, Cell
    <3>2. Len(memory[obj[o].store]) \in Nat \ {0}
      BY <3>1, EmptySeq
    <3>3. Len(memory'[obj[o].store]) = Len(memory[obj[o].store])
      BY <1>0, <1>4
    <3> QED
      BY <3>2, <3>3, EmptySeq
  <2> QED
    BY <1>0, <1>1, <1>2, <1>3, <2>1 DEF Placed
<1>7. BlocksChange(o)
  BY <1>0, <1>1, <1>2, <1>3, <1>4 DEF BlocksChange
<1>8. ViewsKept(o) /\ RisksGrow(o)
  BY <1>2, ViewsAre DEF ViewsKept, RisksGrow
<1>9. HasContent(o)'
  BY <1>1, <1>3, EmptySeq DEF HasContent
<1>10. obj[o].owns => Own(o)'
  BY <1>1, <1>3 DEF Own
<1>11. ASSUME o \notin suspect', ~obj[o].owns PROVE InBase(o, obj[o].base)'
  <2> PICK q : q = obj[o].base
    OBVIOUS
  <2>1. q \in Objects /\ obj[q].alive /\ q \notin suspect /\ obj[q].base = Null
    BY <1>0, <1>2, <1>11 DEF SerInv, ViewsSafe, Safe, InBase
  <2>2. q # o
    BY <1>0, <1>11, <2>1 DEF Placed
  <2>3. obj'[q] = obj[q] /\ q \notin suspect'
    BY <1>2, <1>3, <2>1, <2>2, ViewsAre
  <2>4. obj[q].readPos <= obj[q].length /\ obj[q].readPos \in Nat /\ obj[q].length \in Nat
    BY <1>0, <2>1, Parts DEF SerInv, AllPlaced, Placed
  <2>5. 0 <= obj[q].length - obj[q].readPos
    BY <2>4
  <2> QED
    BY <1>1, <1>3, <2>1, <2>3, <2>5 DEF InBase, BytesLeft
<1>12. Changed(o)
  BY <1>0, <1>1, <1>2, <1>3, <1>5, <1>6, <1>7, <1>8, <1>9, <1>10, <1>11 DEF Changed
<1> QED
  BY <1>12, ChangedInv

\* Popping bytes: what is popped was there.
LEMMA AdvanceInv ==
  ASSUME SerInv, NEW o \in Objects, NEW n \in Nat, Live(o), n <= BytesLeft(o), Advance(o, n), Booked
  PROVE  SerInv'
<1>0. /\ SerTypeOK /\ failure = Null /\ obj[o].alive /\ Placed(o) /\ Null \notin Objects
      /\ obj[o] \in Object /\ obj[o].readPos \in Nat /\ obj[o].length \in Nat /\ obj[o].owns \in BOOLEAN
  BY Constants, Parts DEF SerInv, Live, AllPlaced, SerTypeOK
<1>1. /\ memory' = memory /\ freed' = freed /\ content' = content /\ suspect' = suspect
      /\ doomed' = IF n > 0 THEN doomed \cup ViewsOf(o) ELSE doomed
  BY DEF Advance
<1>2. doomed' \subseteq Objects
  BY <1>0, <1>1, ViewsAre DEF SerTypeOK
<1>3. CASE obj[o].data \in freed /\ n > 0
  <2>1. failure' = o /\ obj' = obj
    BY <1>3 DEF Advance
  <2>2. o \in suspect
    <3>1. obj[o].length > 0
      BY <1>0, <1>3 DEF BytesLeft
    <3> QED
      BY <1>0, <1>3, <3>1 DEF SerInv, Intact
  <2>3. SerTypeOK' /\ FailuresExplained'
    BY <1>0, <1>1, <1>2, <2>1, <2>2 DEF SerTypeOK, Booked, FailuresExplained
  <2>4. doomed \subseteq doomed'
    BY <1>1
  <2>5. ViewsSafe'
    BY <1>1, <2>1, <2>4 DEF SerInv, ViewsSafe, InBase, BytesLeft, Safe
  <2> QED
    BY <1>1, <2>1, <2>3, <2>5
    DEF SerInv, AllPlaced, Placed, StoresDiffer, FreedUsed, OwnersSafe, Safe, Own, NoIntruder, Intact, Bytes
<1>4. CASE ~(obj[o].data \in freed /\ n > 0)
  <2> PICK k, r : k = obj[o].readPos + n /\ r = [obj[o] EXCEPT !.readPos = k]
    OBVIOUS
  <2>1. k \in Nat /\ k <= obj[o].length
    BY <1>0 DEF BytesLeft
  <2>2. /\ r \in Object /\ r.alive = obj[o].alive /\ r.owns = obj[o].owns /\ r.base = obj[o].base
        /\ r.store = obj[o].store /\ r.size = obj[o].size /\ r.data = obj[o].data /\ r.offset = obj[o].offset
        /\ r.length = obj[o].length /\ r.readPos = k
    <3>1. r = [obj[o] EXCEPT !.readPos = k]
      OBVIOUS
    <3> QED
      BY ONLY <1>0, <2>1, <3>1 DEF Object
  <2>3. obj' = [obj EXCEPT ![o] = r] /\ failure' = Null
    BY <1>0, <1>4 DEF Advance
  <2>4. obj'[o] = r /\ \A p \in Objects : p # o => obj'[p] = obj[p]
    BY <1>0, <2>3 DEF SerTypeOK
  <2>5. SerTypeOK'
    BY <1>0, <1>1, <1>2, <2>2, <2>3 DEF SerTypeOK, Booked
  <2>6. Placed(o)'
    BY <1>0, <1>1, <2>1, <2>2, <2>4 DEF Placed
  <2>7. BlocksChange(o)
    BY <1>0, <1>1, <2>2, <2>4 DEF BlocksChange
  <2>8. ViewsKept(o)
    <3>1. n = 0 => r.readPos = obj[o].readPos
      BY <1>0, <2>2
    <3>2. obj[o].length <= r.length
      BY <1>0, <2>2
    <3>3. n # 0 => ViewsOf(o) \subseteq doomed'
      BY <1>1
    <3> QED
      BY <1>0, <1>1, <2>2, <2>4, <3>1, <3>2, <3>3 DEF ViewsKept
  <2>9. RisksGrow(o)
    BY <1>1 DEF RisksGrow
  <2>10. o \notin suspect' => HasContent(o)'
    BY <1>0, <1>1, <2>2, <2>4 DEF SerInv, Intact, HasContent, Bytes
  <2>11. o \notin suspect' /\ obj[o].owns => Own(o)'
    BY <1>0, <1>1, <2>2, <2>4 DEF SerInv, OwnersSafe, Safe, Own
  <2>12. ASSUME o \notin suspect', ~obj[o].owns PROVE InBase(o, obj[o].base)'
    <3> PICK q : q = obj[o].base
      OBVIOUS
    <3>1. InBase(o, q) /\ obj[q].base = Null
      BY <1>0, <1>1, <2>12 DEF SerInv, ViewsSafe, Safe, InBase
    <3>2. q # o
      BY <1>0, <2>12, <3>1 DEF Placed
    <3>3. q \in Objects /\ obj'[q] = obj[q] /\ (o \notin doomed' => o \notin doomed)
      BY <1>1, <2>4, <3>1, <3>2 DEF InBase
    <3> QED
      BY <1>1, <2>2, <2>4, <3>1, <3>3 DEF InBase, BytesLeft
  <2>13. Changed(o)
    BY <1>0, <1>1, <2>2, <2>3, <2>4, <2>5, <2>6, <2>7, <2>8, <2>9, <2>10, <2>11, <2>12 DEF Changed
  <2> QED
    BY <2>13, ChangedInv
<1> QED
  BY <1>3, <1>4

LEMMA ConstructInv == ASSUME SerInv, NEW o \in Objects, Construct(o), Booked PROVE SerInv'
<1>0. SerTypeOK /\ failure = Null /\ ~obj[o].alive /\ Null \notin Blocks
  BY Constants DEF SerInv, Construct
<1>1. /\ obj' = [obj EXCEPT ![o] = NewObject] /\ content' = [content EXCEPT ![o] = <<>>]
      /\ memory' = memory /\ freed' = freed /\ failure' = failure /\ suspect' = suspect /\ doomed' = doomed
  BY DEF Construct
<1>2. /\ NewObject \in Object /\ NewObject.alive /\ NewObject.owns /\ NewObject.base = Null
      /\ NewObject.store = Null /\ NewObject.size = 0 /\ NewObject.data = Null /\ NewObject.offset = 0
      /\ NewObject.length = 0 /\ NewObject.readPos = 0
  BY DEF NewObject, NoObject, Object
<1>3. /\ obj'[o] = NewObject /\ content'[o] = <<>>
      /\ \A p \in Objects : p # o => obj'[p] = obj[p] /\ content'[p] = content[p]
  BY <1>0, <1>1 DEF SerTypeOK
<1>4. SerTypeOK'
  <2>1. obj' \in [Objects -> Object] /\ content' \in [Objects -> Memory]
    BY <1>0, <1>1, <1>2, EmptySeq DEF SerTypeOK, Memory
  <2> QED
    BY <1>0, <1>1, <2>1 DEF SerTypeOK, Booked
<1>5. Placed(o)' /\ Own(o)' /\ HasContent(o)'
  BY <1>2, <1>3, EmptySeq DEF Placed, Own, HasContent
<1>6. BlocksChange(o) /\ ViewsKept(o) /\ RisksGrow(o)
  BY <1>0, <1>1, <1>2, <1>3 DEF BlocksChange, ViewsKept, RisksGrow
<1>7. Changed(o)
  BY <1>0, <1>1, <1>2, <1>3, <1>4, <1>5, <1>6 DEF Changed
<1> QED
  BY <1>7, ChangedInv

\* What is behind the first k elements of a sequence.
Behind(old, k) == SubSeq(old, k + 1, Len(old))

IsBehind(w, old, k) ==
  (k <= Len(old) => Len(w) = Len(old) - k) /\ \A i \in 1 .. Len(old) - k : w[i] = old[k + i]

LEMMA BehindIs ==
  ASSUME NEW S, NEW old \in Seq(S), NEW k \in Nat, NEW w, w = Behind(old, k)
  PROVE  w \in Seq(S) /\ IsBehind(w, old, k)
<1> PICK h, a : h = Len(old) /\ a = k + 1
  OBVIOUS
<1>1. h \in Nat /\ a \in Nat /\ a >= 1
  OBVIOUS
<1>2. a \in Int /\ h \in Int /\ \A i \in a .. h : old[i] \in S
  BY <1>1
<1>3. /\ SubSeq(old, a, h) \in Seq(S) /\ Len(SubSeq(old, a, h)) = (IF a <= h THEN h - a + 1 ELSE 0)
      /\ \A i \in 1 .. h - a + 1 : SubSeq(old, a, h)[i] = old[a + i - 1]
  BY ONLY <1>2, SubSeqProperties
<1>4. w = SubSeq(old, a, h)
  BY DEF Behind
<1>5. ASSUME NEW i \in 1 .. h - k PROVE w[i] = old[k + i]
  <2>1. i \in 1 .. h - a + 1 /\ a + i - 1 = k + i
    BY <1>1
  <2> QED
    BY <1>3, <1>4, <2>1
<1>6. k <= h => Len(w) = h - k
  BY ONLY <1>1, <1>3, <1>4, k \in Nat, a = k + 1
<1> QED
  BY <1>3, <1>4, <1>5, <1>6 DEF IsBehind

\* A view reads what its base has left.
LEMMA ViewInv == ASSUME SerInv, NEW v \in Objects, NEW o \in Objects, View(v, o), Booked PROVE SerInv'
<1>0. /\ SerTypeOK /\ failure = Null /\ obj[o].alive /\ ~obj[v].alive /\ obj[o].base = Null /\ Null \notin Blocks
      /\ Placed(o) /\ Null \notin Objects /\ v # o
  BY Constants DEF SerInv, View, Live, AllPlaced
<1>1. /\ obj[o].data \in Blocks \cup {Null} /\ obj[o].offset = 0 /\ obj[o].readPos \in Nat /\ obj[o].length \in Nat
      /\ obj[o].readPos <= obj[o].length
  BY <1>0, Parts DEF Placed
<1> PICK l, k, d : l = BytesLeft(o) /\ k = obj[o].readPos /\ d = obj[o].data
  OBVIOUS
<1>2. l \in Nat /\ k \in Nat /\ k + l = obj[o].length /\ d \in Blocks \cup {Null} /\ obj[o].offset + obj[o].readPos = k
  BY <1>1 DEF BytesLeft
<1> PICK r : r = obj'[v]
  OBVIOUS
<1>3. /\ r \in Object /\ r.alive /\ ~r.owns /\ r.base = o /\ r.store = Null /\ r.size = 0
      /\ r.data = d /\ r.offset = k /\ r.length = l /\ r.readPos = 0
  <2>1. r = [alive |-> TRUE, owns |-> FALSE, store |-> Null, size |-> 0, data |-> d,
             offset |-> k, length |-> l, readPos |-> 0, base |-> o]
    BY <1>0, <1>2 DEF NoObject, View, SerTypeOK
  <2> QED
    BY ONLY <1>2, <2>1, o \in Objects DEF Object
<1>4. /\ obj' = [obj EXCEPT ![v] = r] /\ memory' = memory /\ freed' = freed /\ failure' = failure
      /\ content' = [content EXCEPT ![v] = Behind(content[o], k)]
      /\ suspect' = (IF o \in suspect THEN suspect \cup {v} ELSE suspect) /\ doomed' = doomed
  <2>1. obj' = [obj EXCEPT ![v] = r]
    BY <1>0 DEF View, SerTypeOK
  <2> QED
    BY <1>2, <2>1 DEF View, Behind
<1>5. /\ obj'[v] = r /\ content'[v] = Behind(content[o], k)
      /\ \A p \in Objects : p # v => obj'[p] = obj[p] /\ content'[p] = content[p]
  BY <1>0, <1>4 DEF SerTypeOK
<1> PICK old, new : old = content[o] /\ new = Behind(old, k)
  OBVIOUS
<1>6. /\ old \in Seq(Cell) /\ Len(old) \in Nat /\ new \in Seq(Cell) /\ (k <= Len(old) => Len(new) = Len(old) - k)
      /\ \A i \in 1 .. Len(old) - k : new[i] = old[k + i]
  <2>1. old \in Seq(Cell) /\ Len(old) \in Nat
    BY <1>0 DEF SerTypeOK, Memory, Cell
  <2>2. k \in Nat /\ new = Behind(old, k)
    BY <1>2
  <2>3. new \in Seq(Cell) /\ IsBehind(new, old, k)
    BY ONLY <2>1, <2>2, BehindIs
  <2> QED
    BY <2>1, <2>3 DEF IsBehind
<1>7. SerTypeOK'
  <2>1. obj' \in [Objects -> Object]
    BY <1>0, <1>3, <1>4 DEF SerTypeOK
  <2>2. content' \in [Objects -> Memory]
    BY <1>0, <1>4, <1>6 DEF SerTypeOK, Memory, Cell
  <2> QED
    BY <1>0, <1>4, <2>1, <2>2 DEF SerTypeOK, Booked
<1>8. Placed(v)'
  <2>1. l > 0 => obj[o].data # Null /\ k + l <= Len(memory[obj[o].data])
    BY <1>0, <1>1, <1>2 DEF Placed
  <2>2. 0 <= l
    BY <1>2
  <2> QED
    <3>1. d # Null => memory[d] # <<>>
      BY <1>0 DEF Placed
    <3>2. r.readPos <= r.length
      BY <1>3, <2>2
    <3>3. r.length > 0 => d # Null /\ k + l <= Len(memory[d])
      BY <1>3, <2>1
    <3> QED
      BY ONLY <1>0, <1>3, <1>4, <1>5, <3>1, <3>2, <3>3, o \in Objects DEF Placed
<1>9. BlocksChange(v) /\ ViewsKept(v) /\ RisksGrow(v)
  <2>1. BlocksChange(v)
    BY ONLY <1>0, <1>3, <1>4, <1>5 DEF BlocksChange
  <2>2. ViewsKept(v)
    BY ONLY <1>0 DEF ViewsKept
  <2>3. RisksGrow(v)
    BY ONLY <1>4 DEF RisksGrow
  <2> QED
    BY <2>1, <2>2, <2>3
<1>10. ASSUME v \notin suspect' PROVE InBase(v, o)' /\ HasContent(v)'
  <2>1. o \notin suspect /\ o \notin suspect'
    BY <1>0, <1>4, <1>10
  <2>2. InBase(v, o)'
    <3>1. k + l <= obj[o].length /\ l <= obj[o].length - k
      BY <1>1, <1>2
    <3> QED
      BY <1>0, <1>3, <1>5, <2>1, <3>1 DEF InBase, BytesLeft
  <2>3. obj[o].length = Len(old) /\ (obj[o].length > 0 => obj[o].data \notin freed /\ Bytes(memory, obj[o]) = old)
    BY <1>0, <2>1 DEF SerInv, Intact
  <2>4. Len(new) = l /\ \A i \in 1 .. l : new[i] = old[k + i]
    <3>1. k <= Len(old) /\ Len(old) - k = l
      BY ONLY <1>2, <1>6, <2>3
    <3> QED
      BY ONLY <1>6, <3>1
  <2>5. l > 0 => r.data \notin freed /\ Bytes(memory, r) = new
    <3> SUFFICES ASSUME l > 0 PROVE r.data \notin freed /\ Bytes(memory, r) = new
      OBVIOUS
    <3>1. obj[o].length > 0 /\ obj[o].data \notin freed /\ Bytes(memory, obj[o]) = old
      BY <1>1, <1>2, <2>3
    <3>2. ASSUME NEW i \in 1 .. l PROVE memory[r.data][k + i] = new[i]
      <4>1. k + i \in 1 .. obj[o].length /\ 0 + (k + i) = k + i
        BY <1>2
      <4>2. old[k + i] = memory[obj[o].data][k + i]
        BY <1>1, <3>1, <4>1 DEF Bytes
      <4> QED
        BY <1>3, <2>4, <4>2
    <3>3. Bytes(memory, r) = [i \in 1 .. l |-> memory[r.data][k + i]]
      BY <1>3 DEF Bytes
    <3>4. new = [i \in 1 .. l |-> new[i]]
      BY ONLY <1>6, <2>4
    <3>5. Bytes(memory, r) = new
      BY ONLY <3>2, <3>3, <3>4
    <3> QED
      BY <1>3, <3>1, <3>5
  <2>6. HasContent(v)'
    <3>1. content'[v] = new
      BY <1>5
    <3> QED
      BY ONLY <1>3, <1>4, <1>5, <2>4, <2>5, <3>1 DEF HasContent
  <2> QED
    BY <2>2, <2>6
<1>11. Changed(v)
  BY <1>0, <1>3, <1>4, <1>5, <1>7, <1>8, <1>9, <1>10 DEF Changed
<1> QED
  BY <1>11, ChangedInv

\* A copy: both sides are at risk from here on.
LEMMA CopyInv == ASSUME SerInv, NEW d \in Objects, NEW o \in Objects, Copy(d, o), Booked PROVE SerInv'
<1>0. /\ SerTypeOK /\ failure = Null /\ obj[o].alive /\ ~obj[d].alive /\ obj[o].base = Null /\ Null \notin Blocks
      /\ Placed(o) /\ FreedUsed /\ NoIntruder /\ d # o /\ obj[o] \in Object /\ memory \in [Blocks -> Memory]
      /\ obj[o].store \in Blocks \cup {Null} /\ obj[o].data \in Blocks \cup {Null} /\ obj[o].size \in Nat
  BY Constants, Parts DEF SerInv, Copy, Live, AllPlaced, SerTypeOK
<1> PICK b, r : b = (IF obj[o].size = 0 THEN Null ELSE Min(Fresh)) /\ r = obj'[d]
  OBVIOUS
<1>1. /\ obj' = [obj EXCEPT ![d] = [obj[o] EXCEPT !.store = b]]
      /\ memory' = (IF b = Null THEN memory ELSE [memory EXCEPT ![b] = SubSeq(memory[obj[o].store], 1, obj[o].size)])
      /\ content' = [content EXCEPT ![d] = content[o]] /\ freed' = freed /\ failure' = failure
      /\ suspect' = suspect \cup {d, o} \cup ViewsOf(o) /\ doomed' = doomed
  BY DEF Copy
<1>2. obj[o].size = 0 => b = Null
  OBVIOUS
<1>3. obj[o].size > 0 => b \in Blocks /\ memory[b] = <<>>
  <2> SUFFICES ASSUME obj[o].size > 0 PROVE b \in Blocks /\ memory[b] = <<>>
    OBVIOUS
  <2>1. Fresh # {} /\ Fresh \subseteq Nat
    BY Constants DEF Copy, Fresh
  <2>2. b = Min(Fresh)
    BY <1>0
  <2> QED
    BY <2>1, <2>2, MinIs DEF Fresh
<1>4. b \in Blocks \cup {Null}
  BY <1>0, <1>2, <1>3
<1>5. /\ r \in Object /\ r.alive = obj[o].alive /\ r.owns = obj[o].owns /\ r.base = obj[o].base /\ r.store = b
      /\ r.size = obj[o].size /\ r.data = obj[o].data /\ r.offset = obj[o].offset /\ r.length = obj[o].length
      /\ r.readPos = obj[o].readPos
  <2>1. r = [obj[o] EXCEPT !.store = b]
    BY <1>0, <1>1 DEF SerTypeOK
  <2> QED
    BY ONLY <1>0, <1>4, <2>1 DEF Object
<1>6. /\ obj' = [obj EXCEPT ![d] = r] /\ obj'[d] = r
      /\ \A p \in Objects : p # d => obj'[p] = obj[p] /\ content'[p] = content[p]
  BY <1>0, <1>1 DEF SerTypeOK
<1>7. /\ memory' \in [Blocks -> Memory] /\ \A c \in Blocks : memory[c] # <<>> => memory'[c] = memory[c]
      /\ obj[o].size > 0 => Len(memory'[b]) = obj[o].size
  <2>1. CASE obj[o].size = 0
    BY <1>0, <1>1, <1>2, <2>1
  <2>2. CASE obj[o].size > 0
    <3> PICK t, k, w : t = memory[obj[o].store] /\ k = obj[o].size /\ w = SubSeq(t, 1, k)
      OBVIOUS
    <3>1. t \in Seq(Cell) /\ k \in Nat /\ k <= Len(t)
      BY <1>0, <2>2 DEF Placed, Memory, Cell
    <3>2. w \in Seq(Cell) /\ Len(w) = k
      <4>1. \A i \in 1 .. k : t[i] \in Cell
        BY <3>1
      <4>2. SubSeq(t, 1, k) \in Seq(Cell) /\ Len(SubSeq(t, 1, k)) = (IF 1 <= k THEN k - 1 + 1 ELSE 0)
        BY ONLY <3>1, <4>1, SubSeqProperties
      <4>3. k = IF 1 <= k THEN k - 1 + 1 ELSE 0
        BY ONLY <3>1
      <4> QED
        BY <4>2, <4>3
    <3>3. memory' = Put(memory, b, w) /\ w \in Memory /\ b \in Blocks
      BY <1>0, <1>1, <1>3, <2>2, <3>2 DEF Put, Memory, Cell
    <3>4. memory'[b] = w /\ memory' \in [Blocks -> Memory] /\ \A c \in Blocks : c # b => memory'[c] = memory[c]
      BY ONLY <1>0, <3>3 DEF Put
    <3> QED
      BY <1>3, <2>2, <3>2, <3>4
  <2> QED
    BY <1>0, <2>1, <2>2
<1>8. SerTypeOK'
  <2>1. obj' \in [Objects -> Object] /\ content' \in [Objects -> Memory]
    BY <1>0, <1>1, <1>5, <1>6 DEF SerTypeOK
  <2>2. suspect' \subseteq Objects
    BY <1>0, <1>1, ViewsAre DEF SerTypeOK
  <2> QED
    BY <1>0, <1>1, <1>7, <2>1, <2>2 DEF SerTypeOK, Booked
<1>9. Placed(d)'
  <2>1. b # Null => b \notin freed /\ memory'[b] # <<>>
    <3> SUFFICES ASSUME b # Null PROVE b \notin freed /\ memory'[b] # <<>>
      OBVIOUS
    <3>1. obj[o].size > 0 /\ b \in Blocks /\ memory[b] = <<>>
      BY <1>0, <1>2, <1>3
    <3>2. Len(memory'[b]) > 0
      BY <1>7, <3>1
    <3> QED
      BY <1>0, <3>1, <3>2, EmptySeq DEF FreedUsed
  <2>2. obj[o].data # Null => memory'[obj[o].data] = memory[obj[o].data] /\ memory[obj[o].data] # <<>>
    BY <1>0, <1>7 DEF Placed
  <2>3. obj[o].size > 0 => b # Null /\ Len(memory'[b]) = obj[o].size /\ obj[o].size <= Len(memory'[b])
    BY <1>0, <1>3, <1>7
  <2> QED
    BY ONLY <1>0, <1>1, <1>5, <1>6, <2>1, <2>2, <2>3 DEF Placed
<1>10. BlocksChange(d)
  <2>1. \A p \in Objects : p # d /\ obj[p].alive /\ p \notin suspect' /\ obj[p].store # Null /\ obj[o].size > 0
                             => obj[p].store # obj[o].data
    BY <1>0, <1>1 DEF NoIntruder, Safe
  <2>2. r.store = Null \/ memory[r.store] = <<>>
    BY <1>0, <1>2, <1>3, <1>5
  <2> QED
    BY ONLY <1>1, <1>5, <1>6, <1>7, <2>1, <2>2 DEF BlocksChange
<1>11. ViewsKept(d) /\ RisksGrow(d)
  BY <1>0, <1>1, ViewsAre DEF ViewsKept, RisksGrow
<1>12. Changed(d)
  <2>1. d \in suspect' /\ r.alive /\ failure' = Null
    BY <1>0, <1>1, <1>5
  <2> QED
    BY ONLY <1>6, <1>8, <1>9, <1>10, <1>11, <2>1 DEF Changed
<1> QED
  BY <1>12, ChangedInv

\* A move: the source is at risk, and what it was moved to has its storage.
LEMMA MoveToInv == ASSUME SerInv, NEW d \in Objects, NEW o \in Objects, MoveTo(d, o), Booked PROVE SerInv'
<1>0. /\ SerTypeOK /\ AllPlaced /\ StoresDiffer /\ FreedUsed /\ OwnersSafe /\ ViewsSafe /\ NoIntruder /\ Intact
      /\ failure = Null /\ obj[o].alive /\ ~obj[d].alive /\ d # o /\ obj[o] \in Object /\ Null \notin Objects
  BY Constants DEF SerInv, MoveTo, Live, SerTypeOK
<1> PICK r : r = obj'[o]
  OBVIOUS
<1>1. /\ obj' = [obj EXCEPT ![d] = obj[o], ![o] = [@ EXCEPT !.store = Null, !.size = 0]]
      /\ content' = [content EXCEPT ![d] = content[o]] /\ memory' = memory /\ freed' = freed /\ failure' = failure
      /\ suspect' = suspect \cup {o} \cup ViewsOf(o) \cup (IF o \in suspect THEN {d} ELSE {})
      /\ doomed' = doomed \cup ViewsOf(o) \cup (IF obj[o].base # Null THEN {o, d} ELSE {})
  BY DEF MoveTo
<1>2. /\ r \in Object /\ r.alive = obj[o].alive /\ r.owns = obj[o].owns /\ r.base = obj[o].base /\ r.store = Null
      /\ r.size = 0 /\ r.data = obj[o].data /\ r.offset = obj[o].offset /\ r.length = obj[o].length
      /\ r.readPos = obj[o].readPos
  <2>1. r = [obj[o] EXCEPT !.store = Null, !.size = 0]
    BY <1>0, <1>1 DEF SerTypeOK
  <2> QED
    BY ONLY <1>0, <2>1 DEF Object
<1>3. /\ obj'[o] = r /\ obj'[d] = obj[o] /\ content'[d] = content[o]
      /\ \A p \in Objects : p # d /\ p # o => obj'[p] = obj[p] /\ content'[p] = content[p]
  BY <1>0, <1>1 DEF SerTypeOK
<1>4. SerTypeOK'
  <2>1. obj' \in [Objects -> Object] /\ content' \in [Objects -> Memory]
    <3>1. obj' = [obj EXCEPT ![d] = obj[o], ![o] = r]
      BY <1>0, <1>1, <1>3 DEF SerTypeOK
    <3> QED
      BY <1>0, <1>1, <1>2, <3>1 DEF SerTypeOK
  <2>2. suspect' \subseteq Objects /\ doomed' \subseteq Objects
    BY <1>0, <1>1, ViewsAre DEF SerTypeOK
  <2> QED
    BY <1>0, <1>1, <2>1, <2>2 DEF SerTypeOK, Booked
<1>5. AllPlaced'
  <2>1. ASSUME NEW p \in Objects, obj'[p].alive PROVE Placed(p)'
    <3>1. CASE p = d
      BY <1>0, <1>1, <1>3, <3>1 DEF AllPlaced, Placed
    <3>2. CASE p = o
      BY <1>0, <1>1, <1>2, <1>3, <3>2 DEF AllPlaced, Placed
    <3>3. CASE p # d /\ p # o
      <4>1. obj'[p] = obj[p] /\ Placed(p)
        BY <1>0, <1>3, <2>1, <3>3 DEF AllPlaced
      <4>2. memory' = memory /\ freed' = freed
        BY <1>1
      <4> QED
        BY ONLY <4>1, <4>2 DEF Placed
    <3> QED
      BY <3>1, <3>2, <3>3
  <2> QED
    BY <2>1 DEF AllPlaced
<1>6. StoresDiffer' /\ FreedUsed'
  <2>1. ASSUME NEW p \in Objects, NEW q \in Objects, obj'[p].alive, obj'[q].alive,
               obj'[p].store = obj'[q].store, obj'[p].store # Null
        PROVE  p = q
    <3>1. p # o /\ q # o
      BY <1>2, <1>3, <2>1
    <3>2. CASE p = d
      BY <1>0, <1>3, <2>1, <3>1, <3>2 DEF StoresDiffer
    <3>3. CASE q = d
      BY <1>0, <1>3, <2>1, <3>1, <3>3 DEF StoresDiffer
    <3>4. CASE p # d /\ q # d
      BY <1>0, <1>3, <2>1, <3>1, <3>4 DEF StoresDiffer
    <3> QED
      BY <3>2, <3>3, <3>4
  <2>2. FreedUsed'
    BY <1>0, <1>1 DEF FreedUsed
  <2> QED
    BY <2>1, <2>2 DEF StoresDiffer
<1>7. ASSUME NEW p \in Objects, obj'[p].alive, p \notin suspect'
      PROVE  p # o /\ (p = d => o \notin suspect) /\ (p # d => p \notin suspect /\ obj'[p] = obj[p] /\ obj[p].alive)
  BY <1>0, <1>1, <1>3, <1>7
<1>8. OwnersSafe'
  <2>1. ASSUME NEW p \in Objects, Safe(p)', obj'[p].owns PROVE Own(p)'
    BY <1>0, <1>3, <1>7, <2>1 DEF OwnersSafe, Safe, Own
  <2> QED
    BY <2>1 DEF OwnersSafe
<1>9. ASSUME NEW v \in Objects, InBase(v, obj[v].base), v \notin ViewsOf(o), obj[v].alive
      PROVE  LET q == obj[v].base IN q \in Objects /\ q # o /\ q # d /\ obj'[q] = obj[q] /\ q \notin suspect'
  <2> PICK q : q = obj[v].base
    OBVIOUS
  <2>1. q \in Objects /\ obj[q].alive /\ q \notin suspect /\ obj[q].base = Null
    BY <1>9 DEF InBase
  <2>2. q # o /\ q # d
    BY <1>0, <1>9, <2>1 DEF ViewsOf
  <2>3. obj'[q] = obj[q] /\ q \notin suspect'
    BY <1>1, <1>3, <2>1, <2>2, ViewsAre
  <2> QED
    BY <2>1, <2>2, <2>3
<1>10. ViewsSafe'
  <2>1. ASSUME NEW v \in Objects, Safe(v)', ~obj'[v].owns PROVE InBase(v, obj[v].base)'
    <3>1. CASE v = d
      <4> PICK q : q = obj[o].base
        OBVIOUS
      <4>1. o \notin suspect /\ InBase(o, q) /\ obj[o].alive /\ obj[q].base = Null
        BY <1>0, <1>3, <1>7, <2>1, <3>1 DEF ViewsSafe, Safe, InBase
      <4>2. o \notin ViewsOf(o)
        BY <1>0, <4>1 DEF ViewsOf, InBase
      <4>3. q \in Objects /\ obj'[q] = obj[q] /\ q \notin suspect'
        BY <1>9, <4>1, <4>2
      <4>4. d \in doomed'
        BY <1>0, <1>1, <4>3
      <4> QED
        BY <1>3, <3>1, <4>1, <4>3, <4>4 DEF InBase
    <3>2. CASE v # d
      <4>1. v # o /\ v \notin suspect /\ obj'[v] = obj[v] /\ obj[v].alive /\ v \notin ViewsOf(o)
        BY <1>1, <1>7, <2>1, <3>2 DEF Safe
      <4> PICK q : q = obj[v].base
        OBVIOUS
      <4>2. InBase(v, q)
        BY <1>0, <2>1, <4>1 DEF ViewsSafe, Safe
      <4>3. q \in Objects /\ obj'[q] = obj[q] /\ q \notin suspect'
        BY <1>9, <4>1, <4>2
      <4>4. v \notin doomed' => v \notin doomed
        BY <1>1
      <4> QED
        BY <4>1, <4>2, <4>3, <4>4 DEF InBase, BytesLeft
    <3> QED
      BY <3>1, <3>2
  <2> QED
    BY <2>1 DEF ViewsSafe
<1>11. NoIntruder'
  <2> SUFFICES ASSUME NEW q \in Objects, NEW p \in Objects, obj'[q].alive, obj'[q].size > 0,
                      obj'[p].alive, p \notin suspect', obj'[p].store # Null, obj'[q].data = obj'[p].store
               PROVE  q = p
    BY DEF NoIntruder, Safe
  <2>1. q # o
    BY <1>2, <1>3
  <2>2. p # o /\ (p = d => o \notin suspect) /\ (p # d => p \notin suspect /\ obj'[p] = obj[p] /\ obj[p].alive)
    BY <1>7
  <2>3. CASE q = d /\ p # d
    BY <1>0, <1>3, <2>2, <2>3 DEF NoIntruder, Safe
  <2>4. CASE q # d /\ p = d
    BY <1>0, <1>3, <2>1, <2>2, <2>4 DEF NoIntruder, Safe
  <2>5. CASE q # d /\ p # d
    BY <1>0, <1>3, <2>1, <2>2, <2>5 DEF NoIntruder, Safe
  <2> QED
    BY <2>3, <2>4, <2>5
<1>12. Intact'
  <2>1. ASSUME NEW p \in Objects, obj'[p].alive, p \notin suspect'
        PROVE  \E q \in Objects : obj'[p] = obj[q] /\ content'[p] = content[q] /\ obj[q].alive /\ q \notin suspect
    BY <1>0, <1>3, <1>7, <2>1
  <2>2. ASSUME NEW p \in Objects, obj'[p].alive, p \notin suspect'
        PROVE  /\ obj'[p].readPos <= obj'[p].length /\ obj'[p].length = Len(content'[p])
               /\ obj'[p].length > 0 => obj'[p].data \notin freed /\ Bytes(memory, obj'[p]) = content'[p]
    <3> PICK q \in Objects : obj'[p] = obj[q] /\ content'[p] = content[q] /\ obj[q].alive /\ q \notin suspect
      BY <2>1, <2>2
    <3> QED
      BY <1>0 DEF Intact
  <2> QED
    BY <1>1, <2>2 DEF Intact
<1>13. FailuresExplained'
  BY <1>0, <1>1 DEF FailuresExplained
<1> QED
  BY <1>4, <1>5, <1>6, <1>8, <1>10, <1>11, <1>12, <1>13 DEF SerInv

\* o is gone, and its base may have discarded what o has read.
Leaves(o) ==
  /\ obj[o].alive /\ failure = Null /\ failure' = Null /\ Gone(o)
  /\ obj' \in [Objects -> Object] /\ ~obj'[o].alive
  /\ \A p \in Objects : p # o =>
       /\ obj'[p].alive = obj[p].alive /\ obj'[p].owns = obj[p].owns /\ obj'[p].base = obj[p].base
       /\ obj'[p].store = obj[p].store /\ obj'[p].size = obj[p].size /\ obj'[p].data = obj[p].data
       /\ obj'[p].offset = obj[p].offset /\ obj'[p].length = obj[p].length
       /\ obj'[p].readPos <= obj'[p].length \/ obj'[p].readPos = obj[p].readPos
       /\ obj'[p].readPos # obj[p].readPos => p = obj[o].base /\ obj[o].readPos > 0

LEMMA LeavesInv == ASSUME SerInv, NEW o \in Objects, Leaves(o), Booked PROVE SerInv'
<1>0. /\ SerTypeOK /\ AllPlaced /\ StoresDiffer /\ FreedUsed /\ OwnersSafe /\ ViewsSafe /\ NoIntruder /\ Intact
      /\ failure = Null /\ obj[o].alive /\ Placed(o) /\ Null \notin Objects
      /\ obj[o].store \in Blocks \cup {Null} /\ obj[o].readPos \in Nat
  BY Constants, Parts DEF SerInv, AllPlaced, Leaves
<1>1. /\ freed' = freed \cup ({obj[o].store} \ {Null}) /\ memory' = memory /\ failure' = Null
      /\ content' = [content EXCEPT ![o] = <<>>] /\ suspect' = (suspect \cup ViewsOf(o)) \ {o}
      /\ doomed' = (doomed \cup ViewsOf(o) \cup (ViewsOf(obj[o].base) \cap {v \in Objects : obj[o].readPos > 0})) \ {o}
      /\ obj' \in [Objects -> Object] /\ ~obj'[o].alive
  BY DEF Leaves, Gone
<1>2. ASSUME NEW p \in Objects, p # o
      PROVE  /\ obj'[p].alive = obj[p].alive /\ obj'[p].owns = obj[p].owns /\ obj'[p].base = obj[p].base
             /\ obj'[p].store = obj[p].store /\ obj'[p].size = obj[p].size /\ obj'[p].data = obj[p].data
             /\ obj'[p].offset = obj[p].offset /\ obj'[p].length = obj[p].length /\ content'[p] = content[p]
             /\ obj'[p].readPos <= obj'[p].length \/ obj'[p].readPos = obj[p].readPos
             /\ obj'[p].readPos # obj[p].readPos => p = obj[o].base /\ obj[o].readPos > 0
  BY <1>0, <1>1, <1>2 DEF Leaves, SerTypeOK
<1>3. SerTypeOK'
  <2>1. content' \in [Objects -> Memory]
    BY <1>0, <1>1, EmptySeq DEF SerTypeOK, Memory
  <2>2. freed' \subseteq Blocks
    BY <1>0, <1>1 DEF SerTypeOK
  <2>3. suspect' \subseteq Objects /\ doomed' \subseteq Objects
    BY <1>0, <1>1 DEF SerTypeOK, ViewsOf
  <2> QED
    BY <1>0, <1>1, <2>1, <2>2, <2>3 DEF SerTypeOK, Booked
<1>4. ASSUME NEW p \in Objects, obj'[p].alive PROVE p # o /\ obj[p].alive /\ Placed(p)
  BY <1>0, <1>1, <1>2, <1>4 DEF AllPlaced
<1>5. ASSUME NEW p \in Objects, obj'[p].alive PROVE Placed(p)'
  <2>1. p # o /\ obj[p].alive /\ Placed(p)
    BY <1>4, <1>5
  <2>2. obj[p].store # Null => obj[p].store \notin freed'
    BY <1>0, <1>1, <2>1 DEF StoresDiffer, Placed
  <2>3. obj'[p].readPos <= obj'[p].length
    BY <1>2, <2>1 DEF Placed
  <2>4. /\ obj'[p].owns = obj[p].owns /\ obj'[p].base = obj[p].base
        /\ obj'[p].store = obj[p].store /\ obj'[p].size = obj[p].size /\ obj'[p].data = obj[p].data
        /\ obj'[p].offset = obj[p].offset /\ obj'[p].length = obj[p].length /\ memory' = memory
    BY <1>1, <1>2, <2>1
  <2> QED
    BY ONLY <2>1, <2>2, <2>3, <2>4 DEF Placed
<1>6. StoresDiffer' /\ FreedUsed'
  <2>1. ASSUME NEW p \in Objects, NEW q \in Objects, obj'[p].alive, obj'[q].alive,
               obj'[p].store = obj'[q].store, obj'[p].store # Null
        PROVE  p = q
    BY <1>0, <1>2, <1>4, <2>1 DEF StoresDiffer
  <2>2. ASSUME NEW b \in freed' PROVE memory[b] # <<>>
    BY <1>0, <1>1 DEF FreedUsed, Placed
  <2> QED
    BY <1>1, <2>1, <2>2 DEF StoresDiffer, FreedUsed
<1>7. ASSUME NEW p \in Objects, Safe(p)' PROVE p # o /\ Safe(p) /\ p \notin ViewsOf(o)
  BY <1>1, <1>4, <1>7 DEF Safe
<1>8. OwnersSafe'
  <2>1. ASSUME NEW p \in Objects, Safe(p)', obj'[p].owns PROVE Own(p)'
    <3>1. p # o /\ Safe(p) /\ obj[p].owns
      BY <1>2, <1>7, <2>1
    <3>2. Own(p)
      BY <1>0, <3>1 DEF OwnersSafe
    <3> QED
      BY <1>2, <3>1, <3>2 DEF Own
  <2> QED
    BY <2>1 DEF OwnersSafe
<1>9. ViewsSafe'
  <2>1. ASSUME NEW v \in Objects, Safe(v)', ~obj'[v].owns PROVE InBase(v, obj[v].base)'
    <3> PICK q : q = obj[v].base
      OBVIOUS
    <3>1. v # o /\ Safe(v) /\ ~obj[v].owns /\ v \notin ViewsOf(o) /\ obj'[v].base = q
      BY <1>2, <1>7, <2>1
    <3>2. InBase(v, q)
      BY <1>0, <3>1 DEF ViewsSafe
    <3>3. q \in Objects /\ q # o /\ obj[q].alive /\ q \notin suspect /\ obj[q].base = Null /\ v \in ViewsOf(q)
      BY <3>1, <3>2 DEF InBase, ViewsOf, Safe
    <3>4. q \notin suspect' /\ obj'[q].alive /\ obj'[q].base = Null
      BY <1>0, <1>1, <1>2, <3>3 DEF ViewsOf
    <3>5. obj[v].length > 0 => obj'[v].data = obj'[q].data /\ obj'[v].offset + obj'[v].length <= obj'[q].length
      BY <1>2, <3>1, <3>2, <3>3 DEF InBase
    <3>6. v \notin doomed' => obj'[v].length <= obj'[q].length - obj'[q].readPos
      <4> SUFFICES ASSUME v \notin doomed' PROVE obj'[v].length <= obj'[q].length - obj'[q].readPos
        OBVIOUS
      <4>1. v \notin doomed /\ obj'[q].readPos = obj[q].readPos
        BY <1>1, <1>2, <3>1, <3>3
      <4> QED
        BY <1>2, <3>1, <3>2, <3>3, <4>1 DEF InBase, BytesLeft
    <3> QED
      BY <1>2, <3>1, <3>3, <3>4, <3>5, <3>6 DEF InBase, BytesLeft
  <2> QED
    BY <2>1 DEF ViewsSafe
<1>10. NoIntruder'
  <2> SUFFICES ASSUME NEW q \in Objects, NEW p \in Objects, obj'[q].alive, obj'[q].size > 0,
                      Safe(p)', obj'[p].store # Null, obj'[q].data = obj'[p].store
               PROVE  q = p
    BY DEF NoIntruder
  <2>1. q # o /\ obj[q].alive /\ p # o /\ Safe(p)
    BY <1>4, <1>7
  <2> QED
    BY <1>0, <1>2, <2>1 DEF NoIntruder
<1>11. Intact'
  <2>1. ASSUME NEW p \in Objects, Safe(p)'
        PROVE  /\ obj'[p].readPos <= obj'[p].length /\ obj'[p].length = Len(content'[p])
               /\ obj'[p].length > 0 => obj'[p].data \notin freed' /\ Bytes(memory', obj'[p]) = content'[p]
    <3>1. p # o /\ Safe(p) /\ p \notin ViewsOf(o) /\ Placed(p)'
      BY <1>5, <1>7, <2>1 DEF Safe
    <3>2. /\ obj[p].length = Len(content[p])
          /\ obj[p].length > 0 => obj[p].data \notin freed /\ Bytes(memory, obj[p]) = content[p]
      BY <1>0, <3>1 DEF Intact, Safe
    <3>3. obj'[p].readPos <= obj'[p].length /\ obj'[p].length = Len(content'[p])
      BY <1>2, <3>1, <3>2 DEF Placed
    <3>4. ASSUME obj[p].length > 0 PROVE obj[p].data \notin freed'
      <4>1. PICK q \in Objects :
              /\ Safe(q) /\ obj[q].owns /\ obj[q].size > 0 /\ obj[q].offset = 0 /\ obj[q].base = Null
              /\ obj[q].data = obj[q].store /\ obj[p].data = obj[q].store
              /\ obj[q].store \in Blocks /\ obj[q].store \notin freed /\ memory[obj[q].store] # <<>>
              /\ obj[p].offset + obj[p].length <= obj[q].length
              /\ q = p \/ (obj[p].base = q /\ ~obj[p].owns /\ p \in ViewsOf(q))
        BY <3>1, <3>4, Source
      <4>2. q # o
        BY <3>1, <4>1
      <4>3. obj[q].store # obj[o].store
        BY <1>0, <4>1, <4>2, Constants DEF StoresDiffer, Safe
      <4> QED
        BY <1>1, <4>1, <4>3
    <3>5. Bytes(memory', obj'[p]) = Bytes(memory, obj[p])
      BY <1>1, <1>2, <3>1 DEF Bytes
    <3> QED
      BY <1>2, <3>1, <3>2, <3>3, <3>4, <3>5
  <2> QED
    BY <2>1 DEF Intact, Safe
<1>12. FailuresExplained'
  BY <1>1 DEF FailuresExplained
<1> QED
  BY <1>3, <1>5, <1>6, <1>8, <1>9, <1>10, <1>11, <1>12 DEF SerInv, AllPlaced

LEMMA DestroyInv == ASSUME SerInv, NEW o \in Objects, Destroy(o), Booked PROVE SerInv'
<1>1. SerTypeOK /\ obj' = [obj EXCEPT ![o] = NoObject] /\ NoObject \in Object /\ ~NoObject.alive
  BY DEF SerInv, Destroy, NoObject, Object
<1>2. obj' \in [Objects -> Object] /\ obj'[o] = NoObject /\ \A p \in Objects : p # o => obj'[p] = obj[p]
  BY <1>1 DEF SerTypeOK
<1>3. Leaves(o)
  BY <1>1, <1>2 DEF Leaves, Destroy, Live
<1> QED
  BY <1>3, LeavesInv

\* The destructor of a view: its base discards what was read.
LEMMA DestroyViewInv == ASSUME SerInv, NEW v \in Objects, DestroyView(v), Booked PROVE SerInv'
<1> PICK o : o = obj[v].base
  OBVIOUS
<1>0. /\ SerTypeOK /\ failure = Null /\ obj[v].alive /\ o # Null /\ o \in Objects /\ Placed(v)
      /\ obj[v].readPos \in Nat /\ obj[v].length \in Nat /\ obj[v].owns \in BOOLEAN
  BY Parts DEF SerInv, DestroyView, Live, AllPlaced
<1>1. CASE ~obj[o].alive \/ BytesLeft(o) < obj[v].readPos
  <2>1. /\ failure' = v /\ obj' = obj /\ freed' = freed /\ content' = content /\ texts' = texts
        /\ suspect' = suspect /\ doomed' = doomed /\ memory' = memory
    BY <1>1 DEF DestroyView
  <2>2. v \in suspect \cup doomed
    <3> SUFFICES ASSUME v \notin suspect, v \notin doomed PROVE FALSE
      OBVIOUS
    <3>1. InBase(v, o) /\ obj[v].readPos <= obj[v].length
      BY <1>0 DEF SerInv, ViewsSafe, Safe, Placed
    <3>2. obj[o].alive /\ obj[v].length <= BytesLeft(o)
      BY <3>1 DEF InBase
    <3>3. BytesLeft(o) \in Int
      BY <1>0, Parts DEF BytesLeft
    <3> QED
      BY <1>0, <1>1, <3>1, <3>2, <3>3
  <2>3. SerTypeOK' /\ FailuresExplained'
    BY <1>0, <2>1, <2>2 DEF SerTypeOK, Booked, FailuresExplained
  <2> QED
    BY <2>1, <2>3
    DEF SerInv, AllPlaced, Placed, StoresDiffer, FreedUsed, OwnersSafe, Safe, Own, ViewsSafe, InBase, BytesLeft,
        NoIntruder, Intact, Bytes
<1>2. CASE ~(~obj[o].alive \/ BytesLeft(o) < obj[v].readPos)
  <2>1. /\ obj' = [obj EXCEPT ![o].readPos = @ + obj[v].readPos, ![v] = NoObject] /\ failure' = failure /\ Gone(v)
    BY <1>2 DEF DestroyView
  <2>2. NoObject \in Object /\ ~NoObject.alive
    BY DEF NoObject, Object
  <2>3. CASE o = v
    <3>1. obj'[v] = NoObject /\ \A p \in Objects : p # v => obj'[p] = obj[p]
      BY <1>0, <2>1, <2>3 DEF SerTypeOK
    <3>2. obj' = [p \in Objects |-> IF p = v THEN NoObject ELSE obj[p]]
      BY <1>0, <2>1, <3>1 DEF SerTypeOK
    <3>3. obj' \in [Objects -> Object]
      BY <1>0, <2>2, <3>2 DEF SerTypeOK
    <3>4. Leaves(v)
      BY <1>0, <2>1, <2>2, <3>1, <3>3 DEF Leaves
    <3> QED
      BY <3>4, LeavesInv
  <2>4. CASE o # v
    <3> PICK k, r : k = obj[o].readPos + obj[v].readPos /\ r = obj'[o]
      OBVIOUS
    <3>1. obj[o] \in Object /\ obj[o].readPos \in Nat /\ obj[o].length \in Nat
      BY <1>0, Parts DEF SerTypeOK
    <3>2. k \in Nat /\ k <= obj[o].length /\ (k # obj[o].readPos => obj[v].readPos > 0)
      BY <1>0, <1>2, <3>1 DEF BytesLeft
    <3>3. r = [obj[o] EXCEPT !.readPos = k]
      BY <1>0, <2>1, <2>4 DEF SerTypeOK
    <3>4. /\ r \in Object /\ r.alive = obj[o].alive /\ r.owns = obj[o].owns /\ r.base = obj[o].base
          /\ r.store = obj[o].store /\ r.size = obj[o].size /\ r.data = obj[o].data /\ r.offset = obj[o].offset
          /\ r.length = obj[o].length /\ r.readPos = k
      BY ONLY <3>1, <3>2, <3>3 DEF Object
    <3>5. obj' = [obj EXCEPT ![o] = r, ![v] = NoObject]
      BY <1>0, <2>1, <2>4, <3>3 DEF SerTypeOK
    <3>6. /\ obj' \in [Objects -> Object] /\ obj'[v] = NoObject /\ obj'[o] = r
          /\ \A p \in Objects : p # v /\ p # o => obj'[p] = obj[p]
      <4>1. obj \in [Objects -> Object] /\ NoObject \in Object /\ v # o /\ o \in Objects /\ r \in Object
        BY <1>0, <2>2, <2>4, <3>4 DEF SerTypeOK
      <4> QED
        BY ONLY <3>5, <4>1, v \in Objects
    <3>7. ASSUME NEW p \in Objects, p # v
          PROVE  /\ obj'[p].alive = obj[p].alive /\ obj'[p].owns = obj[p].owns /\ obj'[p].base = obj[p].base
                 /\ obj'[p].store = obj[p].store /\ obj'[p].size = obj[p].size /\ obj'[p].data = obj[p].data
                 /\ obj'[p].offset = obj[p].offset /\ obj'[p].length = obj[p].length
                 /\ obj'[p].readPos <= obj'[p].length \/ obj'[p].readPos = obj[p].readPos
                 /\ obj'[p].readPos # obj[p].readPos => p = obj[v].base /\ obj[v].readPos > 0
      BY <3>2, <3>4, <3>6, <3>7
    <3>8. Leaves(v)
      BY <1>0, <2>1, <2>2, <3>6, <3>7 DEF Leaves
    <3> QED
      BY <3>8, LeavesInv
  <2> QED
    BY <2>3, <2>4
<1> QED
  BY <1>1, <1>2
-----------------------------------------------------------------------------
(* The bytes of numbers.                                                     *)

\* A number of variable size is written in bytes, at least one.
LEMMA VarSizeBytes == \A n \in Nat : VarSize[n] \in Seq(Byte) /\ VarSize[n] # <<>>
<1> PICK c : c = ChunkValues
  OBVIOUS
<1>0. c \in Nat /\ c > 1 /\ Byte = 0 .. 2 * c - 1
  BY Constants DEF Byte
<1> PICK T : T = {k \in Nat : \A n \in Nat : n < k => VarSize[n] \in Seq(Byte) /\ VarSize[n] # <<>>}
  OBVIOUS
<1>1. 0 \in T
  OBVIOUS
<1>2. ASSUME NEW k \in Nat, k \in T PROVE k + 1 \in T
  <2>1. ASSUME NEW n \in Nat, n < k + 1 PROVE VarSize[n] \in Seq(Byte) /\ VarSize[n] # <<>>
    <3>1. CASE n < c
      <4>1. VarSize[n] = <<n>>
        BY <3>1, VarSizeIs
      <4>2. n \in Byte
        BY ONLY <1>0, <3>1, n \in Nat
      <4> QED
        BY ONLY <4>1, <4>2
    <3>2. CASE ~(n < c)
      <4> PICK q, r, b : q = n \div c /\ r = n % c /\ b = r + c
        OBVIOUS
      <4>1. q \in Nat /\ r \in Nat /\ r < c /\ q < n
        <5>1. n % c \in Nat /\ n % c < c /\ n \div c \in Nat /\ (n > 0 => n \div c < n)
          BY <1>0, Division
        <5> QED
          BY <1>0, <3>2, <5>1
      <4>2. b \in Byte
        BY <1>0, <4>1
      <4>3. VarSize[n] = <<b>> \o VarSize[q]
        BY <3>2, VarSizeIs
      <4>4. VarSize[q] \in Seq(Byte)
        BY <1>2, <2>1, <4>1
      <4>5. <<b>> \o VarSize[q] \in Seq(Byte) /\ Len(<<b>> \o VarSize[q]) = 1 + Len(VarSize[q])
        BY <4>2, <4>4
      <4>6. Len(<<b>> \o VarSize[q]) > 0
        BY <4>4, <4>5
      <4> QED
        BY <4>3, <4>5, <4>6, EmptySeq
    <3> QED
      BY <3>1, <3>2
  <2> QED
    BY <2>1
<1>3. Nat \subseteq T
  BY ONLY <1>1, <1>2, Induction
<1>4. ASSUME NEW n \in Nat PROVE VarSize[n] \in Seq(Byte) /\ VarSize[n] # <<>>
  <2>1. n + 1 \in Nat /\ n < n + 1
    OBVIOUS
  <2>2. n + 1 \in T
    BY ONLY <1>3, <2>1
  <2> QED
    BY <2>1, <2>2
<1> QED
  BY <1>4

\* A number has as many digits as are asked for, all below b.
LEMMA DigitsType ==
  ASSUME NEW b \in Nat, b > 1
  PROVE  \A k, n \in Nat : Digits(b)[k][n] \in Seq(0 .. b - 1) /\ Len(Digits(b)[k][n]) = k
<1> PICK d : d = Digits(b)
  OBVIOUS
<1>0. /\ \A n \in Nat : d[0][n] = <<>>
      /\ \A k, n \in Nat : d[k + 1][n] = <<n % b>> \o d[k][n \div b]
  BY DigitsAre
<1> PICK T : T = {k \in Nat : \A n \in Nat : d[k][n] \in Seq(0 .. b - 1) /\ Len(d[k][n]) = k}
  OBVIOUS
<1>1. 0 \in T
  BY <1>0, EmptySeq
<1>2. ASSUME NEW k \in Nat, k \in T PROVE k + 1 \in T
  <2> PICK j : j = k + 1
    OBVIOUS
  <2>1. ASSUME NEW n \in Nat PROVE d[j][n] \in Seq(0 .. b - 1) /\ Len(d[j][n]) = j
    <3>1. n % b \in Nat /\ n % b < b /\ n \div b \in Nat
      BY Division
    <3>2. n % b \in 0 .. b - 1
      BY <3>1
    <3>3. d[k][n \div b] \in Seq(0 .. b - 1) /\ Len(d[k][n \div b]) = k
      BY <1>2, <3>1
    <3>4. d[k + 1][n] = <<n % b>> \o d[k][n \div b]
      BY <1>0
    <3> PICK r, s, S : r = n % b /\ s = d[k][n \div b] /\ S = 0 .. b - 1
      OBVIOUS
    <3>5. r \in S /\ s \in Seq(S) /\ Len(s) = k
      BY <3>2, <3>3
    <3>6. <<r>> \o s \in Seq(S) /\ Len(<<r>> \o s) = k + 1
      BY ONLY <3>5, k \in Nat
    <3>7. d[k + 1][n] = <<r>> \o s
      BY <3>4
    <3> QED
      BY ONLY <3>6, <3>7, S = 0 .. b - 1, j = k + 1
  <2>2. j \in Nat /\ \A n \in Nat : d[j][n] \in Seq(0 .. b - 1) /\ Len(d[j][n]) = j
    BY ONLY <2>1, k \in Nat, j = k + 1
  <2> QED
    BY <2>2
<1>3. Nat \subseteq T
  BY ONLY <1>1, <1>2, Induction
<1> QED
  BY <1>3

\* An unsigned int is written in WordBytes bytes.
LEMMA WordBytesAre == \A n \in Nat : Word(n) \in Seq(Byte) /\ Len(Word(n)) = WordBytes
<1> PICK b : b = 2 * ChunkValues
  OBVIOUS
<1>1. b \in Nat /\ b > 1 /\ WordBytes \in Nat /\ Byte = 0 .. b - 1
  BY Constants DEF Byte
<1>2. \A k, n \in Nat : Digits(b)[k][n] \in Seq(0 .. b - 1) /\ Len(Digits(b)[k][n]) = k
  BY <1>1, DigitsType
<1> QED
  BY <1>1, <1>2 DEF Word

LEMMA WordValuesAre == WordValues \in Nat /\ WordValues > 0
<1> PICK b : b = 2 * ChunkValues
  OBVIOUS
<1>1. b \in Nat /\ b > 1
  BY Constants
<1>2. Power(b)[0] = 1 /\ \A k \in Nat : Power(b)[k] \in Nat /\ Power(b)[k + 1] = b * Power(b)[k]
  BY <1>1, PowerIs
<1> PICK T : T = {k \in Nat : Power(b)[k] > 0}
  OBVIOUS
<1>3. 0 \in T
  BY <1>2
<1>4. ASSUME NEW k \in Nat, k \in T PROVE k + 1 \in T
  <2> PICK p \in Nat : p = Power(b)[k]
    BY <1>2
  <2>1. p > 0 /\ Power(b)[k + 1] = b * p
    BY <1>2, <1>4
  <2>2. b * p > 0
    BY <1>1, <2>1
  <2> QED
    BY <2>1, <2>2
<1>5. Nat \subseteq T
  BY ONLY <1>3, <1>4, Induction
<1>6. WordBytes \in T
  BY <1>5, Constants
<1> QED
  BY <1>2, <1>6 DEF WordValues
-----------------------------------------------------------------------------
(* Reading texts.                                                            *)

\* The first bytes of s.
FirstOf(s, k) == SubSeq(s, 1, k)
IsFront(w, s, k) == Len(w) = k /\ \A i \in 1 .. k : w[i] = s[i]

LEMMA FrontIs ==
  ASSUME NEW S, NEW s, NEW k \in Nat, \A i \in 1 .. k : s[i] \in S, NEW w, w = FirstOf(s, k)
  PROVE  w \in Seq(S) /\ IsFront(w, s, k)
<1>1. /\ SubSeq(s, 1, k) \in Seq(S) /\ Len(SubSeq(s, 1, k)) = (IF 1 <= k THEN k - 1 + 1 ELSE 0)
      /\ \A i \in 1 .. k - 1 + 1 : SubSeq(s, 1, k)[i] = s[1 + i - 1]
  BY ONLY \A i \in 1 .. k : s[i] \in S, k \in Nat, SubSeqProperties
<1>2. w = SubSeq(s, 1, k)
  BY DEF FirstOf
<1>3. (IF 1 <= k THEN k - 1 + 1 ELSE 0) = k /\ k - 1 + 1 = k
  OBVIOUS
<1>4. ASSUME NEW i \in 1 .. k PROVE w[i] = s[i]
  <2>1. i \in 1 .. k - 1 + 1 /\ 1 + i - 1 = i
    OBVIOUS
  <2> QED
    BY <1>1, <1>2, <2>1
<1> QED
  BY <1>1, <1>2, <1>3, <1>4 DEF IsFront

\* The first k bytes were written.
Known(bytes, k) == \A i \in 1 .. Len(bytes) : i <= k => bytes[i] # Junk

LEMMA VarSizeValueIs == ASSUME NEW bytes \in Seq(Nat) PROVE VarSizeValue(bytes) \in Nat
<1> PICK c, w : c = ChunkValues /\ w = WordValues
  OBVIOUS
<1>1. c \in Nat /\ c > 0 /\ w \in Nat /\ w > 0
  BY Constants, WordValuesAre
<1> PICK f : f = [j \in DOMAIN bytes |-> bytes[j] % c]
  OBVIOUS
<1>2. f \in Seq(Nat)
  <2>1. DOMAIN bytes = 1 .. Len(bytes) /\ Len(bytes) \in Nat /\ \A j \in DOMAIN bytes : bytes[j] \in Nat
    OBVIOUS
  <2> PICK l : l = Len(bytes)
    OBVIOUS
  <2>2. f \in [1 .. l -> Nat]
    BY <1>1, <2>1
  <2>3. l \in Nat
    BY <2>1
  <2> QED
    BY ONLY <2>2, <2>3
<1>3. Number(c)[f] \in Nat
  BY ONLY <1>1, <1>2, NumberIs
<1>4. VarSizeValue(bytes) = Number(c)[f] % w
  BY DEF VarSizeValue
<1> QED
  BY ONLY <1>1, <1>3, <1>4

LEMMA WordValueIs ==
  ASSUME NEW bytes \in Seq(Cell), Len(bytes) >= WordBytes, Known(bytes, WordBytes)
  PROVE  WordValue(bytes) \in Nat
<1> PICK k, b, w : k = WordBytes /\ b = 2 * ChunkValues /\ w = FirstOf(bytes, k)
  OBVIOUS
<1>1. k \in Nat /\ b \in Nat
  BY Constants
<1>2. \A i \in 1 .. k : bytes[i] \in Nat
  <2> SUFFICES ASSUME NEW i \in 1 .. k PROVE bytes[i] \in Nat
    OBVIOUS
  <2>1. i \in 1 .. Len(bytes) /\ i <= WordBytes
    BY <1>1
  <2> QED
    BY <2>1, Constants DEF Known, Cell, Byte
<1>3. w \in Seq(Nat)
  BY ONLY <1>1, <1>2, w = FirstOf(bytes, k), FrontIs
<1>4. Number(b)[w] \in Nat
  BY ONLY <1>1, <1>3, NumberIs
<1> QED
  BY <1>4 DEF WordValue, FirstOf

\* A number ends within the bytes, or 0 says that it does not.
LEMMA VarSizeEndIs ==
  ASSUME NEW bytes \in Seq(Cell), NEW k, k = VarSizeEnd(bytes)
  PROVE  k \in Nat /\ k <= Len(bytes) /\ k <= MaxChunks
<1>1. Len(bytes) \in Nat /\ MaxChunks \in Nat
  BY Constants
<1> PICK last : last = {j \in 1 .. Len(bytes) : j <= MaxChunks /\ bytes[j] < ChunkValues}
  OBVIOUS
<1>2. k = IF last = {} THEN 0 ELSE Min(last)
  BY DEF VarSizeEnd
<1>3. last \subseteq Nat
  OBVIOUS
<1>4. last # {} => Min(last) \in last
  BY ONLY <1>3, MinIs
<1> QED
  BY <1>1, <1>2, <1>4

\* PopString moves on to a place within the bytes.
LEMMA TextEndIs ==
  ASSUME NEW bytes \in Seq(Cell), Known(bytes, MaxChunks)
  PROVE  TextEnd(bytes) \in Nat /\ TextEnd(bytes) <= Len(bytes)
<1> PICK l, k, w : l = Len(bytes) /\ k = VarSizeEnd(bytes) /\ w = FirstOf(bytes, k)
  OBVIOUS
<1>1. l \in Nat /\ MaxChunks \in Nat /\ k \in Nat /\ k <= l /\ k <= MaxChunks
  BY Constants, VarSizeEndIs
<1>2. \A i \in 1 .. k : bytes[i] \in Nat
  <2> SUFFICES ASSUME NEW i \in 1 .. k PROVE bytes[i] \in Nat
    OBVIOUS
  <2>1. i \in 1 .. Len(bytes) /\ i <= MaxChunks
    BY <1>1
  <2> QED
    BY <2>1, Constants DEF Known, Cell, Byte
<1>3. w \in Seq(Nat)
  BY ONLY <1>1, <1>2, w = FirstOf(bytes, k), FrontIs
<1> PICK v : v = VarSizeValue(w)
  OBVIOUS
<1>4. v \in Nat
  BY <1>3, VarSizeValueIs
<1>5. Min({l, MaxChunks}) = IF l <= MaxChunks THEN l ELSE MaxChunks
  BY ONLY <1>1, LesserIs
<1>6. TextEnd(bytes) = IF k = 0 THEN Min({l, MaxChunks}) ELSE IF k + v > l THEN k ELSE k + v
  BY DEF TextEnd, FirstOf
<1> QED
  BY <1>1, <1>4, <1>5, <1>6

\* So do PopLongString and SerializableArray::deserialize.
LEMMA LongTextEndsAre ==
  ASSUME NEW bytes \in Seq(Cell), Known(bytes, WordBytes)
  PROVE  /\ \A end \in LongTextEnds(bytes) : end \in Nat /\ end <= Len(bytes)
         /\ \A end \in ListEnds(bytes) : end \in Nat /\ end <= Len(bytes)
<1>1. Len(bytes) \in Nat /\ WordBytes \in Nat
  BY Constants
<1>2. CASE Len(bytes) < WordBytes
  BY <1>2 DEF LongTextEnds, ListEnds
<1>3. CASE ~(Len(bytes) < WordBytes)
  <2> PICK v, l : v = WordBytes + WordValue(bytes) /\ l = Len(bytes)
    OBVIOUS
  <2>1. v \in Nat /\ l \in Nat
    BY <1>1, <1>3, WordValueIs
  <2>2. Min({v, l}) = IF v <= l THEN v ELSE l
    BY ONLY <2>1, LesserIs
  <2>3. LongTextEnds(bytes) = (IF v > l THEN {WordBytes} ELSE {v}) /\ ListEnds(bytes) = LongTextEnds(bytes) \cup {Min({v, l})}
    BY <1>3 DEF LongTextEnds, ListEnds
  <2> QED
    BY <1>1, <1>3, <2>1, <2>2, <2>3
<1> QED
  BY <1>2, <1>3

\* What is left to read is in memory.
LEMMA UnreadIs ==
  ASSUME SerInv, NEW o \in Objects, Live(o)
  PROVE  Unread(o) \in Seq(Cell) /\ Len(Unread(o)) = BytesLeft(o) /\ BytesLeft(o) \in Nat
<1> PICK l, k, b, w : l = obj[o].length /\ k = obj[o].readPos /\ b = Bytes(memory, obj[o]) /\ w = Behind(b, k)
  OBVIOUS
<1>1. /\ SerTypeOK /\ Placed(o) /\ obj[o] \in Object /\ memory \in [Blocks -> Memory] /\ l \in Nat /\ k \in Nat /\ k <= l
  BY Parts DEF SerInv, AllPlaced, SerTypeOK, Live, Placed
<1>2. obj[o].length > 0 => obj[o].data # Null /\ obj[o].offset + obj[o].length <= Len(memory[obj[o].data])
  BY <1>1 DEF Placed
<1>3. b \in Seq(Cell) /\ Len(b) = l
  BY <1>1, <1>2, BytesAre
<1>4. w \in Seq(Cell) /\ IsBehind(w, b, k)
  BY ONLY <1>1, <1>3, w = Behind(b, k), BehindIs
<1>5. w = Unread(o)
  BY <1>3 DEF Unread, Behind
<1> QED
  BY <1>1, <1>3, <1>4, <1>5 DEF IsBehind, BytesLeft

\* Popping a text keeps the invariant.
LEMMA PopTextInv ==
  ASSUME SerInv, NEW o \in Objects, NEW k, NEW ends, PopText(o, k, ends), Booked,
         Known(Unread(o), k) => \A end \in ends : end \in Nat /\ end <= Len(Unread(o))
  PROVE  SerInv'
<1>1. Live(o) /\ BytesLeft(o) > 0 /\ BytesLeft(o) \in Nat /\ Unread(o) \in Seq(Cell) /\ Len(Unread(o)) = BytesLeft(o)
  BY UnreadIs DEF PopText
<1>2. CASE obj[o].data \in freed
  <2>1. Advance(o, 1)
    BY <1>2 DEF PopText
  <2>2. 1 <= BytesLeft(o)
    BY <1>1
  <2> QED
    BY <1>1, <2>1, <2>2, AdvanceInv
<1>3. CASE obj[o].data \notin freed
  <2>1. Known(Unread(o), k)
    BY <1>1, <1>3 DEF PopText, Known
  <2>2. PICK end \in ends : Advance(o, end)
    BY <1>3 DEF PopText
  <2>3. end \in Nat /\ end <= BytesLeft(o)
    BY <1>1, <2>1, <2>2
  <2> QED
    BY <1>1, <2>2, <2>3, AdvanceInv
<1> QED
  BY <1>2, <1>3

LEMMA PopsInv ==
  ASSUME SerInv, NEW o \in Objects, PopString(o) \/ PopLongString(o) \/ PopList(o), Booked
  PROVE  SerInv'
<1> PICK u : u = Unread(o)
  OBVIOUS
<1>1. u \in Seq(Cell)
  BY UnreadIs DEF PopString, PopLongString, PopList, PopText
<1>2. Known(u, MaxChunks) => \A end \in {TextEnd(u)} : end \in Nat /\ end <= Len(u)
  BY <1>1, TextEndIs
<1>3. Known(u, WordBytes) => /\ \A end \in LongTextEnds(u) : end \in Nat /\ end <= Len(u)
                             /\ \A end \in ListEnds(u) : end \in Nat /\ end <= Len(u)
  BY <1>1, LongTextEndsAre
<1>4. CASE PopString(o)
  <2> PICK ends : ends = {TextEnd(u)}
    OBVIOUS
  <2>1. PopText(o, MaxChunks, ends)
    BY <1>4 DEF PopString
  <2> QED
    BY <1>2, <2>1, PopTextInv
<1>5. CASE PopLongString(o)
  <2> PICK ends : ends = LongTextEnds(u)
    OBVIOUS
  <2>1. PopText(o, WordBytes, ends)
    BY <1>5 DEF PopLongString
  <2>2. Known(u, WordBytes) => \A end \in ends : end \in Nat /\ end <= Len(u)
    BY <1>3
  <2> QED
    BY <2>1, <2>2, PopTextInv
<1>6. CASE PopList(o)
  <2> PICK ends : ends = ListEnds(u)
    OBVIOUS
  <2>1. PopText(o, WordBytes, ends)
    BY <1>6 DEF PopList
  <2>2. Known(u, WordBytes) => \A end \in ends : end \in Nat /\ end <= Len(u)
    BY <1>3
  <2> QED
    BY <2>1, <2>2, PopTextInv
<1> QED
  BY <1>4, <1>5, <1>6
-----------------------------------------------------------------------------
(* The invariant is kept.                                                    *)

\* The texts of one object change.
LEMMA TextsTyped ==
  ASSUME SerTypeOK, NEW o \in Objects, operations' \in 0 .. Operations,
         NEW T, T \subseteq [kind : {"string", "counted"}, first : Nat, end : Nat], texts' = [texts EXCEPT ![o] = T]
  PROVE  Booked
BY DEF SerTypeOK, Booked

LEMMA PushTextInv ==
  ASSUME SerInv, NEW o \in Objects, NEW kind \in {"string", "counted"}, NEW length \in Seq(Byte), length # <<>>,
         NEW n \in Nat, PushText(o, kind, length, n), operations' \in 0 .. Operations
  PROVE  SerInv'
<1> PICK data : data = [i \in 1 .. n |-> 0]
  OBVIOUS
<1> PICK bytes : bytes = length \o data
  OBVIOUS
<1>1. 0 \in Byte
  BY Constants DEF Byte
<1>2. data \in Seq(Byte)
  <2>1. data \in [1 .. n -> Byte]
    BY <1>1
  <2> QED
    BY ONLY <2>1, n \in Nat
<1>3. bytes \in Seq(Byte) /\ Len(bytes) = Len(length) + Len(data)
  BY ONLY <1>2, length \in Seq(Byte), bytes = length \o data, ConcatProperties
<1>4. Len(length) \in Nat \ {0} /\ Len(data) \in Nat
  BY <1>2, EmptySeq
<1>5. bytes # <<>> /\ bytes \in Seq(Cell)
  <2>1. Byte \subseteq Cell
    BY DEF Cell
  <2>2. Len(bytes) > 0
    BY <1>3, <1>4
  <2>3. bytes \in Seq(Cell)
    BY ONLY <1>3, <2>1, SeqMonotonic
  <2>4. bytes # <<>>
    BY ONLY <2>2, EmptySeq
  <2> QED
    BY <2>3, <2>4
<1> PICK t : t = [kind |-> kind, first |-> obj[o].length, end |-> obj[o].length + Len(bytes)]
  OBVIOUS
<1>6. t \in [kind : {"string", "counted"}, first : Nat, end : Nat]
  <2>1. obj[o].length \in Nat /\ obj[o].length + Len(bytes) \in Nat
    BY <1>3, <1>4, Parts DEF SerInv
  <2> QED
    BY <2>1
<1>7. PushBytes(o, bytes) /\ texts' = [texts EXCEPT ![o] = texts[o] \cup {t}]
  BY DEF PushText
<1>8. Booked
  <2>1. texts[o] \cup {t} \subseteq [kind : {"string", "counted"}, first : Nat, end : Nat]
    BY <1>6 DEF SerInv, SerTypeOK
  <2> QED
    BY <1>7, <2>1, TextsTyped DEF SerInv
<1> QED
  BY <1>5, <1>7, <1>8, PushInv

LEMMA PushesInv ==
  ASSUME SerInv, NEW o \in Objects, operations' \in 0 .. Operations,
         \/ \E b \in RawBytes : PushUnsignedChar(o, b)
         \/ \E n \in 0 .. MaxText : PushString(o, n)
         \/ \E n \in Counts : PushLongString(o, n)
  PROVE  SerInv'
<1>1. CASE \E b \in RawBytes : PushUnsignedChar(o, b)
  <2> PICK b \in RawBytes : PushUnsignedChar(o, b)
    BY <1>1
  <2>1. b \in Cell
    BY SerializerAssumption DEF Cell
  <2>2. <<b>> \in Seq(Cell) /\ <<b>> # <<>>
    BY <2>1
  <2>3. Booked
    BY DEF Booked, PushUnsignedChar, SerInv, SerTypeOK
  <2> QED
    BY <2>2, <2>3, PushInv DEF PushUnsignedChar
<1>2. CASE \E n \in 0 .. MaxText : PushString(o, n)
  <2> PICK n \in 0 .. MaxText : PushString(o, n)
    BY <1>2
  <2>1. n \in Nat
    BY SerializerAssumption, WordValuesAre
  <2> QED
    BY <2>1, VarSizeBytes, PushTextInv DEF PushString, PushVarSize
<1>3. CASE \E n \in Counts : PushLongString(o, n)
  <2> PICK n \in Counts : PushLongString(o, n)
    BY <1>3
  <2>1. n \in Nat
    BY SerializerAssumption, WordValuesAre
  <2>2. Word(n) \in Seq(Byte) /\ Len(Word(n)) = WordBytes /\ WordBytes > 0
    BY <2>1, WordBytesAre, Constants
  <2>3. Word(n) # <<>>
    BY <2>2, EmptySeq
  <2> QED
    BY <2>1, <2>2, <2>3, PushTextInv DEF PushLongString
<1> QED
  BY <1>1, <1>2, <1>3

LEMMA ReadsInv ==
  ASSUME SerInv, NEW o \in Objects, operations' \in 0 .. Operations,
         \/ PopString(o) \/ PopLongString(o) \/ PopList(o)
         \/ \E n \in Amounts : PopRawData(o, n)
  PROVE  SerInv'
<1>1. CASE PopString(o) \/ PopLongString(o) \/ PopList(o)
  <2>1. texts' = texts
    BY <1>1 DEF PopString, PopLongString, PopList, PopText, Advance
  <2>2. Booked
    BY <2>1 DEF Booked, SerInv, SerTypeOK
  <2> QED
    BY <1>1, <2>2, PopsInv
<1>2. CASE \E n \in Amounts : PopRawData(o, n)
  <2> PICK n \in Amounts : PopRawData(o, n)
    BY <1>2
  <2>1. n \in Nat /\ Live(o) /\ n <= BytesLeft(o) /\ Advance(o, n)
    <3>1. n \in Nat /\ obj[o].length - obj[o].readPos \in Int
      BY SerializerAssumption, Parts DEF SerInv
    <3> QED
      BY <3>1 DEF PopRawData, BytesLeft
  <2>2. Booked
    BY <2>1 DEF Booked, SerInv, SerTypeOK, Advance
  <2> QED
    BY <2>1, <2>2, AdvanceInv
<1> QED
  BY <1>1, <1>2

LEMMA FillsInv ==
  ASSUME SerInv, NEW o \in Objects, operations' \in 0 .. Operations,
         \/ Construct(o) \/ Clear(o)
         \/ \E n \in Amounts, b \in RawBytes : \E k \in {n - 1, n} : ReadFromFile(o, n, k, b)
         \/ \E n \in Amounts : SetLength(o, n)
  PROVE  SerInv'
<1>0. SerTypeOK /\ texts[o] \subseteq [kind : {"string", "counted"}, first : Nat, end : Nat]
  BY DEF SerInv, SerTypeOK
<1>1. CASE Construct(o) \/ Clear(o)
  <2>1. Booked
    BY <1>0, <1>1, TextsTyped DEF Construct, Clear
  <2> QED
    BY <1>1, <2>1, ConstructInv, ClearInv
<1>2. CASE \E n \in Amounts, b \in RawBytes : \E k \in {n - 1, n} : ReadFromFile(o, n, k, b)
  <2> PICK n \in Amounts, b \in RawBytes : \E k \in {n - 1, n} : ReadFromFile(o, n, k, b)
    BY <1>2
  <2> PICK k : ReadFromFile(o, n, k, b)
    OBVIOUS
  <2>1. n \in Nat /\ b \in Cell
    BY SerializerAssumption DEF Cell
  <2>2. Booked
    BY <1>0, TextsTyped DEF ReadFromFile
  <2> QED
    BY <2>1, <2>2, ReadFromFileInv
<1>3. CASE \E n \in Amounts : SetLength(o, n)
  <2> PICK n \in Amounts : SetLength(o, n)
    BY <1>3
  <2>1. n \in Nat
    BY SerializerAssumption
  <2> PICK T : T = {t \in texts[o] : t.end <= n}
    OBVIOUS
  <2>2. texts' = [texts EXCEPT ![o] = T]
    BY DEF SetLength
  <2>3. T \subseteq texts[o]
    OBVIOUS
  <2>4. Booked
    BY <1>0, <2>2, <2>3, TextsTyped
  <2> QED
    BY <2>1, <2>4, SetLengthInv
<1> QED
  BY <1>1, <1>2, <1>3

LEMMA LivesInv ==
  ASSUME SerInv, NEW o \in Objects, operations' \in 0 .. Operations,
         \/ Destroy(o) \/ DestroyView(o)
         \/ \E d \in Objects : View(d, o) \/ Copy(d, o) \/ MoveTo(d, o)
  PROVE  SerInv'
<1>0. SerTypeOK /\ texts[o] \subseteq [kind : {"string", "counted"}, first : Nat, end : Nat]
  BY DEF SerInv, SerTypeOK
<1>1. CASE Destroy(o)
  <2>1. Booked
    BY <1>0, <1>1, TextsTyped DEF Destroy, Gone
  <2> QED
    BY <1>1, <2>1, DestroyInv
<1>2. CASE DestroyView(o)
  <2>1. texts' = texts \/ texts' = [texts EXCEPT ![o] = {}]
    BY <1>2 DEF DestroyView, Gone
  <2>2. Booked
    <3>1. CASE texts' = texts
      BY <3>1 DEF Booked, SerInv, SerTypeOK
    <3>2. CASE texts' = [texts EXCEPT ![o] = {}]
      BY <1>0, <3>2, TextsTyped
    <3> QED
      BY <2>1, <3>1, <3>2
  <2> QED
    BY <1>2, <2>2, DestroyViewInv
<1>3. ASSUME NEW d \in Objects, View(d, o) \/ Copy(d, o) \/ MoveTo(d, o) PROVE SerInv'
  <2>1. texts' = [texts EXCEPT ![d] = {}] \/ texts' = [texts EXCEPT ![d] = texts[o]]
    BY <1>3 DEF View, Copy, MoveTo
  <2>2. Booked
    BY <1>0, <2>1, TextsTyped
  <2> QED
    BY <1>3, <2>2, ViewInv, CopyInv, MoveToInv
<1> QED
  BY <1>1, <1>2, <1>3

\* Every step keeps the invariant.
LEMMA StepInv == ASSUME SerInv, SerNext PROVE SerInv'
<1>1. operations' \in 0 .. Operations
  BY SerializerAssumption DEF SerNext, SerInv, SerTypeOK
<1>2. PICK o \in Objects :
       \/ Construct(o) \/ Destroy(o) \/ DestroyView(o) \/ Clear(o)
       \/ PopString(o) \/ PopLongString(o) \/ PopList(o)
       \/ \E b \in RawBytes : PushUnsignedChar(o, b)
       \/ \E n \in 0 .. MaxText : PushString(o, n)
       \/ \E n \in Counts : PushLongString(o, n)
       \/ \E n \in Amounts, b \in RawBytes : \E k \in {n - 1, n} : ReadFromFile(o, n, k, b)
       \/ \E n \in Amounts : SetLength(o, n) \/ PopRawData(o, n)
       \/ \E d \in Objects : View(d, o) \/ Copy(d, o) \/ MoveTo(d, o)
  BY DEF SerNext
<1> QED
  BY <1>1, <1>2, PushesInv, ReadsInv, FillsInv, LivesInv

LEMMA InitInv == SerInit => SerInv
<1> SUFFICES ASSUME SerInit PROVE SerInv
  OBVIOUS
<1>1. NoObject \in Object /\ ~NoObject.alive
  BY DEF NoObject, Object
<1>2. \A o \in Objects : obj[o] = NoObject
  BY DEF SerInit
<1>3. SerTypeOK
  <2>1. obj \in [Objects -> Object]
    BY <1>1 DEF SerInit
  <2>2. memory \in [Blocks -> Memory] /\ content \in [Objects -> Memory]
    BY EmptySeq DEF SerInit, Memory
  <2>3. 0 \in 0 .. Operations
    BY SerializerAssumption
  <2> QED
    BY <2>1, <2>2, <2>3 DEF SerInit, SerTypeOK
<1> QED
  BY <1>1, <1>2, <1>3
  DEF SerInit, SerInv, AllPlaced, StoresDiffer, FreedUsed, OwnersSafe, ViewsSafe, Safe, NoIntruder, Intact, FailuresExplained

LEMMA StutterInv == SerInv /\ UNCHANGED serVars => SerInv'
BY DEF serVars, SerInv, SerTypeOK, AllPlaced, Placed, StoresDiffer, FreedUsed, OwnersSafe, ViewsSafe, InBase, BytesLeft,
       Own, Safe, NoIntruder, Intact, Bytes, FailuresExplained

\* The inductive invariant of the objects and their memory.
THEOREM SerializerInvariant == SerSpec => []SerInv
<1>1. SerInv /\ [SerNext]_serVars => SerInv'
  BY StepInv, StutterInv
<1> QED
  BY InitInv, <1>1, PTL DEF SerSpec

\* The state of the objects has its type: an object has a length and a read position, and a block that is its
\* own or none; of what views, copies and moves leave behind as well.
THEOREM SerializerTypes == SerSpec => []SerTypeOK
<1>1. SerInv => SerTypeOK
  BY DEF SerInv
<1> QED
  BY SerializerInvariant, <1>1, PTL

\* An object nobody copied or moved reads what was pushed into it, in memory that was not freed.
THEOREM DataIsIntact == SerSpec => []Intact
<1>1. SerInv => Intact
  BY DEF SerInv
<1> QED
  BY SerializerInvariant, <1>1, PTL

\* Nothing but a copy, a move or a change beside a view lets an operation use freed memory or a destructor throw.
THEOREM FailuresAreExplained == SerSpec => []FailuresExplained
<1>1. SerInv => FailuresExplained
  BY DEF SerInv
<1> QED
  BY SerializerInvariant, <1>1, PTL
-----------------------------------------------------------------------------
(* What is written as a number is read as that number.                       *)

LEMMA Monotone == ASSUME NEW a \in Nat, NEW x \in Nat, NEW y \in Nat, x <= y PROVE a * x <= a * y
<1> PICK d : d = y - x
  OBVIOUS
<1>1. d \in Nat /\ y = x + d
  OBVIOUS
<1>2. a * y = a * x + a * d /\ a * d >= 0
  BY <1>1
<1>3. a * x \in Int /\ a * d \in Int
  BY <1>1
<1> QED
  BY ONLY <1>2, <1>3

\* What is less than b * p has a quotient less than p.
LEMMA Quotient ==
  ASSUME NEW n \in Nat, NEW b \in Nat, b > 1, NEW p \in Nat, NEW w \in Nat, w = b * p, n < w
  PROVE  n \div b < p
<1> PICK q, r : q = n \div b /\ r = n % b
  OBVIOUS
<1>1. q \in Nat /\ r \in Nat /\ n = b * q + r
  BY ONLY n \in Nat, b \in Nat, b > 1, q = n \div b, r = n % b, Division
<1>2. b * q \in Int /\ b * q <= n
  BY <1>1
<1> SUFFICES ASSUME ~(q < p) PROVE FALSE
  OBVIOUS
<1>3. p <= q
  BY <1>1
<1>4. b * p <= b * q
  BY ONLY <1>1, <1>3, b \in Nat, p \in Nat, Monotone
<1> QED
  BY ONLY <1>2, <1>4, w = b * p, n < w, w \in Nat, n \in Nat

LEMMA ConsIs ==
  ASSUME NEW S, NEW d \in S, NEW s \in Seq(S), NEW w, w = <<d>> \o s
  PROVE  /\ w \in Seq(S) /\ w # <<>> /\ Len(w) = Len(s) + 1 /\ Len(s) \in Nat /\ w[1] = d
         /\ \A i \in 1 .. Len(s) : w[i + 1] = s[i]
         /\ Head(w) = d /\ Tail(w) = s
<1>1. <<d>> \in Seq(S) /\ Len(<<d>>) = 1 /\ <<d>>[1] = d
  OBVIOUS
<1>2. Len(s) \in Nat
  OBVIOUS
<1>3. /\ <<d>> \o s \in Seq(S) /\ Len(<<d>> \o s) = Len(<<d>>) + Len(s)
      /\ \A i \in 1 .. Len(<<d>>) + Len(s) : (<<d>> \o s)[i] = IF i <= Len(<<d>>) THEN <<d>>[i] ELSE s[i - Len(<<d>>)]
  BY ONLY <1>1, s \in Seq(S), ConcatProperties
<1>4. w \in Seq(S) /\ Len(w) = Len(s) + 1 /\ \A i \in 1 .. Len(s) + 1 : w[i] = IF i <= 1 THEN d ELSE s[i - 1]
  BY <1>1, <1>2, <1>3
<1>5. w[1] = d
  BY <1>2, <1>4
<1>6. ASSUME NEW i \in 1 .. Len(s) PROVE w[i + 1] = s[i]
  <2>1. i + 1 \in 1 .. Len(s) + 1 /\ ~(i + 1 <= 1) /\ (i + 1) - 1 = i
    BY <1>2
  <2> QED
    BY <1>4, <2>1
<1>7. w # <<>>
  BY <1>2, <1>4, EmptySeq
<1>8. Head(w) = d /\ Tail(w) = s
  BY ONLY d \in S, s \in Seq(S), w = <<d>> \o s
<1> QED
  BY <1>2, <1>4, <1>5, <1>6, <1>7, <1>8

\* x has the lowest digit d and y above it.
Adds(x, d, b, y) == x = d + b * y

\* The number with one more digit in front.
LEMMA NumberOfCons ==
  ASSUME NEW b \in Nat, NEW d \in Nat, NEW s \in Seq(Nat), NEW w, w = <<d>> \o s
  PROVE  Adds(Number(b)[w], d, b, Number(b)[s])
<1>1. w \in Seq(Nat) /\ w # <<>> /\ Head(w) = d /\ Tail(w) = s
  BY ConsIs
<1>2. Number(b)[w] = Head(w) + b * Number(b)[Tail(w)]
  BY <1>1, NumberIs
<1> QED
  BY <1>1, <1>2 DEF Adds

\* The digits of a number that has no more than k of them make the number.
LEMMA DigitsRead ==
  ASSUME NEW b \in Nat, b > 1
  PROVE  \A k, n \in Nat : n < Power(b)[k] => Number(b)[Digits(b)[k][n]] = n
<1> PICK d, p : d = Digits(b) /\ p = Power(b)
  OBVIOUS
<1>0. /\ \A n \in Nat : d[0][n] = <<>>
      /\ \A k, n \in Nat : d[k + 1][n] = <<n % b>> \o d[k][n \div b]
      /\ p[0] = 1 /\ \A k \in Nat : p[k] \in Nat /\ p[k + 1] = b * p[k]
      /\ Number(b)[<<>>] = 0
  BY DigitsAre, PowerIs, NumberIs
<1>1. \A k, n \in Nat : d[k][n] \in Seq(Nat)
  <2>1. \A k, n \in Nat : d[k][n] \in Seq(0 .. b - 1)
    BY DigitsType
  <2>2. 0 .. b - 1 \subseteq Nat
    OBVIOUS
  <2> QED
    BY <2>1, <2>2, SeqMonotonic
<1> PICK T : T = {k \in Nat : \A n \in Nat : n < p[k] => Number(b)[d[k][n]] = n}
  OBVIOUS
<1>2. 0 \in T
  <2>1. ASSUME NEW n \in Nat, n < p[0] PROVE Number(b)[d[0][n]] = n
    <3>1. n = 0
      BY <1>0, <2>1
    <3>2. d[0][n] = <<>>
      BY <1>0
    <3> QED
      BY ONLY <1>0, <3>1, <3>2
  <2> QED
    BY <2>1
<1>3. ASSUME NEW k \in Nat, k \in T PROVE k + 1 \in T
  <2>1. ASSUME NEW n \in Nat, n < p[k + 1] PROVE Number(b)[d[k + 1][n]] = n
    <3> PICK q, r, s : q = n \div b /\ r = n % b /\ s = d[k][q]
      OBVIOUS
    <3>1. q \in Nat /\ r \in Nat /\ n = b * q + r
      BY ONLY n \in Nat, b \in Nat, b > 1, q = n \div b, r = n % b, Division
    <3>2. q < p[k]
      <4> PICK x, w : x = p[k] /\ w = p[k + 1]
        OBVIOUS
      <4>1. x \in Nat /\ w \in Nat /\ w = b * x /\ n < w
        <5>1. k + 1 \in Nat
          OBVIOUS
        <5> QED
          BY <1>0, <2>1, <5>1
      <4> QED
        BY <4>1, Quotient
    <3>3. s \in Seq(Nat) /\ Number(b)[s] = q
      BY <1>1, <1>3, <3>1, <3>2
    <3>4. d[k + 1][n] = <<r>> \o s
      BY <1>0
    <3> PICK w : w = <<r>> \o s
      OBVIOUS
    <3>5. Number(b)[w] = r + b * q
      <4>0. r \in Nat /\ s \in Seq(Nat)
        BY <3>1, <3>3
      <4>1. Adds(Number(b)[w], r, b, Number(b)[s])
        BY ONLY <4>0, b \in Nat, w = <<r>> \o s, NumberOfCons
      <4> QED
        BY ONLY <4>1, <3>3 DEF Adds
    <3> PICK z : z = b * q
      OBVIOUS
    <3>6. z \in Nat
      BY <3>1
    <3>7. r + z = n
      BY ONLY <3>1, <3>6, z = b * q
    <3> QED
      BY ONLY <3>4, <3>5, <3>7, w = <<r>> \o s, z = b * q
  <2> PICK j : j = k + 1
    OBVIOUS
  <2>2. j \in Nat /\ \A n \in Nat : n < p[j] => Number(b)[d[j][n]] = n
    BY <2>1
  <2> QED
    BY <2>2
<1>4. Nat \subseteq T
  BY ONLY <1>2, <1>3, Induction
<1> QED
  BY <1>4

\* An unsigned int is read as what was written.
LEMMA WordRead == ASSUME NEW n \in Nat, n < WordValues PROVE Number(2 * ChunkValues)[Word(n)] = n
<1> PICK b, k : b = 2 * ChunkValues /\ k = WordBytes
  OBVIOUS
<1>1. b \in Nat /\ b > 1 /\ k \in Nat
  BY Constants
<1>2. n < Power(b)[k]
  BY DEF WordValues
<1>3. Number(b)[Digits(b)[k][n]] = n
  BY <1>1, <1>2, DigitsRead
<1> QED
  BY <1>3 DEF Word
\* The encoding of n ends where its first byte below c is, and means n.
EndsBelow(e, c) == e[Len(e)] < c /\ \A i \in 1 .. Len(e) : i < Len(e) => e[i] >= c
ChunksIn(e) == [j \in DOMAIN e |-> e[j] % ChunkValues]
Means(e, n) == EndsBelow(e, ChunkValues) /\ ChunksIn(e) \in Seq(Nat) /\ Number(ChunkValues)[ChunksIn(e)] = n

LEMMA ChunksAre ==
  ASSUME NEW e \in Seq(Byte), NEW f, f = ChunksIn(e)
  PROVE  f \in Seq(Nat) /\ Len(f) = Len(e) /\ \A i \in 1 .. Len(e) : f[i] = e[i] % ChunkValues
<1> PICK c, l : c = ChunkValues /\ l = Len(e)
  OBVIOUS
<1>1. c \in Nat /\ c > 0 /\ l \in Nat /\ DOMAIN e = 1 .. l /\ \A j \in 1 .. l : e[j] \in Nat
  BY Constants DEF Byte
<1>2. f = [j \in 1 .. l |-> e[j] % c]
  BY <1>1 DEF ChunksIn
<1>3. f \in [1 .. l -> Nat]
  BY <1>1, <1>2
<1>4. f \in Seq(Nat) /\ Len(f) = l
  BY ONLY <1>3, l \in Nat
<1> QED
  BY <1>2, <1>4

LEMMA ChunksOfCons ==
  ASSUME NEW d \in Byte, NEW s \in Seq(Byte), NEW w, w = <<d>> \o s
  PROVE  ChunksIn(w) = <<d % ChunkValues>> \o ChunksIn(s)
<1> PICK f, g, h, r : f = ChunksIn(w) /\ g = ChunksIn(s) /\ r = d % ChunkValues /\ h = <<r>> \o g
  OBVIOUS
<1>1. /\ w \in Seq(Byte) /\ Len(w) = Len(s) + 1 /\ Len(s) \in Nat /\ w[1] = d
      /\ \A i \in 1 .. Len(s) : w[i + 1] = s[i]
  BY ONLY d \in Byte, s \in Seq(Byte), w = <<d>> \o s, ConsIs
<1>2. f \in Seq(Nat) /\ Len(f) = Len(w) /\ \A i \in 1 .. Len(w) : f[i] = w[i] % ChunkValues
  BY ONLY <1>1, f = ChunksIn(w), ChunksAre
<1>3. g \in Seq(Nat) /\ Len(g) = Len(s) /\ \A i \in 1 .. Len(s) : g[i] = s[i] % ChunkValues
  BY ONLY s \in Seq(Byte), g = ChunksIn(s), ChunksAre
<1>4. r \in Nat
  BY Constants DEF Byte
<1>5. h \in Seq(Nat) /\ Len(h) = Len(g) + 1 /\ h[1] = r /\ \A i \in 1 .. Len(g) : h[i + 1] = g[i]
  BY ONLY <1>3, <1>4, h = <<r>> \o g, ConsIs
<1>6. ASSUME NEW i \in 1 .. Len(f) PROVE f[i] = h[i]
  <2>1. CASE i = 1
    BY <1>1, <1>2, <1>5, <2>1
  <2>2. CASE i # 1
    <3> PICK j : j = i - 1
      OBVIOUS
    <3>1. j \in 1 .. Len(s) /\ i = j + 1 /\ i \in 1 .. Len(w)
      BY <1>1, <1>2, <2>2
    <3>2. f[i] = w[i] % ChunkValues /\ w[i] = s[j] /\ h[i] = g[j] /\ g[j] = s[j] % ChunkValues
      BY <1>1, <1>2, <1>3, <1>5, <3>1
    <3> QED
      BY ONLY <3>2
  <2> QED
    BY <2>1, <2>2
<1>7. Len(f) = Len(h)
  BY <1>1, <1>2, <1>3, <1>5
<1>8. f = h
  BY ONLY <1>2, <1>5, <1>6, <1>7, SeqEqual
<1> QED
  BY <1>8

\* A number of variable size is read as what was written, whatever its size.
LEMMA VarSizeMeans == \A n \in Nat : Means(VarSize[n], n)
<1> PICK c : c = ChunkValues
  OBVIOUS
<1>0. c \in Nat /\ c > 1 /\ Byte = 0 .. 2 * c - 1
  BY Constants DEF Byte
<1> PICK T : T = {k \in Nat : \A n \in Nat : n < k => Means(VarSize[n], n)}
  OBVIOUS
<1>1. 0 \in T
  OBVIOUS
<1>2. ASSUME NEW k \in Nat, k \in T PROVE k + 1 \in T
  <2>1. ASSUME NEW n \in Nat, n < k + 1 PROVE Means(VarSize[n], n)
    <3> PICK e : e = VarSize[n]
      OBVIOUS
    <3>1. CASE n < c
      <4> PICK none : none = <<>>
        OBVIOUS
      <4>1. none \in Seq(Byte) /\ none \in Seq(Nat) /\ Number(c)[none] = 0 /\ Len(none) = 0 /\ ChunksIn(none) = none
        <5>1. none \in Seq(Byte) /\ none \in Seq(Nat) /\ Len(none) = 0
          BY EmptySeq
        <5>2. Number(c)[none] = 0
          BY <1>0, NumberIs
        <5>3. ChunksIn(none) \in Seq(Nat) /\ Len(ChunksIn(none)) = Len(none)
          BY <5>1, ChunksAre
        <5>4. ChunksIn(none) = none
          BY <5>1, <5>3, EmptySeq
        <5> QED
          BY <5>1, <5>2, <5>4
      <4>2. n \in Byte
        BY ONLY <1>0, <3>1, n \in Nat
      <4>3. e = <<n>> \o none
        <5>1. e = <<n>>
          BY <3>1, VarSizeIs
        <5>2. <<n>> \in Seq(Byte)
          BY <4>2
        <5> QED
          BY <5>1, <5>2, ConcatEmptySeq
      <4>4. Len(e) = 1 /\ e[1] = n
        BY <4>1, <4>2, <4>3, ConsIs
      <4>5. EndsBelow(e, c)
        BY <3>1, <4>4 DEF EndsBelow
      <4>6. n % c = n
        BY <1>0, <3>1
      <4>7. ChunksIn(e) = <<n>> \o none
        BY <4>1, <4>2, <4>3, <4>6, ChunksOfCons
      <4> PICK f : f = ChunksIn(e)
        OBVIOUS
      <4>8. Number(c)[f] = n + c * Number(c)[none]
        <5>1. f = <<n>> \o none
          BY <4>7
        <5>2. Adds(Number(c)[f], n, c, Number(c)[none])
          BY ONLY <1>0, <4>1, <5>1, n \in Nat, NumberOfCons
        <5> QED
          BY ONLY <5>2 DEF Adds
      <4>9. Number(c)[f] = n
        <5>1. Number(c)[f] = n + c * 0
          BY ONLY <4>1, <4>8
        <5> QED
          BY ONLY <1>0, <5>1, n \in Nat
      <4>10. ChunksIn(e) \in Seq(Nat)
        BY <4>1, <4>7, ConsIs
      <4> QED
        BY <4>5, <4>9, <4>10 DEF Means
    <3>2. CASE ~(n < c)
      <4> PICK q, r, b, s : q = n \div c /\ r = n % c /\ b = r + c /\ s = VarSize[q]
        OBVIOUS
      <4>1. q \in Nat /\ r \in Nat /\ r < c /\ q < n /\ n = c * q + r
        <5>1. r \in Nat /\ r < c /\ q \in Nat /\ (n > 0 => q < n) /\ n = c * q + r
          BY ONLY <1>0, n \in Nat, q = n \div c, r = n % c, Division
        <5> QED
          BY <1>0, <3>2, <5>1
      <4>2. b \in Byte /\ b >= c /\ b % c = r
        <5>1. b \in Byte /\ b >= c
          BY <1>0, <4>1
        <5>2. b % c = r
          <6>1. b = c * 1 + r
            BY <1>0, <4>1
          <6> QED
            BY ONLY <1>0, <4>1, <6>1
        <5> QED
          BY <5>1, <5>2
      <4>3. e = <<b>> \o s
        BY <3>2, VarSizeIs
      <4>4. Means(s, q) /\ s \in Seq(Byte) /\ s # <<>>
        <5>1. q \in Nat /\ q < k
          BY <2>1, <4>1
        <5> QED
          BY <1>2, <5>1, VarSizeBytes
      <4>5. EndsBelow(e, c)
        <5>1. /\ Len(e) = Len(s) + 1 /\ Len(s) \in Nat /\ e[1] = b /\ \A i \in 1 .. Len(s) : e[i + 1] = s[i]
          BY <4>2, <4>3, <4>4, ConsIs
        <5>2. Len(s) > 0
          BY <4>4, EmptySeq
        <5>3. e[Len(e)] = s[Len(s)]
          BY ONLY <5>1, <5>2
        <5>4. s[Len(s)] < c /\ \A i \in 1 .. Len(s) : i < Len(s) => s[i] >= c
          BY <4>4 DEF Means, EndsBelow
        <5>5. ASSUME NEW i \in 1 .. Len(e), i < Len(e) PROVE e[i] >= c
          <6>1. CASE i = 1
            BY <4>2, <5>1, <6>1
          <6>2. CASE i # 1
            <7> PICK j : j = i - 1
              OBVIOUS
            <7>1. j \in 1 .. Len(s) /\ j < Len(s) /\ i = j + 1
              BY <5>1, <5>5, <6>2
            <7> QED
              BY <5>1, <5>4, <7>1
          <6> QED
            BY <6>1, <6>2
        <5> QED
          BY <5>3, <5>4, <5>5 DEF EndsBelow
      <4> PICK f, g : f = ChunksIn(e) /\ g = ChunksIn(s)
        OBVIOUS
      <4>6. f = <<r>> \o g
        <5>1. ChunksIn(e) = <<b % ChunkValues>> \o ChunksIn(s)
          BY ONLY <4>2, <4>3, <4>4, ChunksOfCons
        <5>2. b % ChunkValues = r
          BY <4>2
        <5> QED
          BY <5>1, <5>2
      <4>7. g \in Seq(Nat) /\ Number(c)[g] = q
        BY <4>4 DEF Means
      <4>8. Number(c)[f] = r + c * q
        <5>0. c \in Nat /\ r \in Nat /\ g \in Seq(Nat)
          BY <1>0, <4>1, <4>7
        <5>1. Adds(Number(c)[f], r, c, Number(c)[g])
          BY ONLY <5>0, <4>6, NumberOfCons
        <5> QED
          BY ONLY <4>7, <5>1 DEF Adds
      <4> PICK z : z = c * q
        OBVIOUS
      <4>9. Number(c)[f] = n
        <5>1. z \in Nat
          BY <1>0, <4>1
        <5>2. r + z = n
          BY ONLY <4>1, <5>1, z = c * q
        <5> QED
          BY ONLY <4>8, <5>2, z = c * q
      <4>10. ChunksIn(e) \in Seq(Nat)
        <5>1. r \in Nat /\ g \in Seq(Nat)
          BY <4>1, <4>7
        <5>2. f \in Seq(Nat)
          BY ONLY <5>1, <4>6, ConsIs
        <5> QED
          BY <5>2
      <4> QED
        BY <4>5, <4>9, <4>10 DEF Means
    <3> QED
      BY <3>1, <3>2
  <2> PICK j : j = k + 1
    OBVIOUS
  <2>2. j \in Nat /\ \A n \in Nat : n < j => Means(VarSize[n], n)
    BY <2>1
  <2> QED
    BY <2>2
<1>3. Nat \subseteq T
  BY ONLY <1>1, <1>2, Induction
<1>4. ASSUME NEW n \in Nat PROVE Means(VarSize[n], n)
  <2>1. n + 1 \in Nat /\ n < n + 1
    OBVIOUS
  <2>2. n + 1 \in T
    BY ONLY <1>3, <2>1
  <2> QED
    BY <2>1, <2>2
<1> QED
  BY <1>4

\* A number that fits in a word has at most MaxChunks chunks, as many as PopVarSize takes.
LEMMA VarSizeFits == ASSUME NEW n \in Nat, n < WordValues PROVE Len(VarSize[n]) <= MaxChunks
<1> PICK c, p : c = ChunkValues /\ p = Power(ChunkValues)
  OBVIOUS
<1>0. c \in Nat /\ c > 1 /\ p[0] = 1 /\ \A k \in Nat : p[k] \in Nat /\ p[k + 1] = c * p[k]
  BY Constants, PowerIs
<1> PICK T : T = {k \in Nat : \A m \in Nat : m < p[k + 1] => Len(VarSize[m]) <= k + 1}
  OBVIOUS
<1>1. ASSUME NEW m \in Nat, m < c PROVE Len(VarSize[m]) = 1
  <2>1. VarSize[m] = <<m>>
    BY <1>1, VarSizeIs
  <2>2. Len(<<m>>) = 1
    OBVIOUS
  <2> QED
    BY ONLY <2>1, <2>2
<1>2. 0 \in T
  <2>1. p[0 + 1] = c * 1
    BY <1>0
  <2>2. p[0 + 1] = c
    BY <1>0, <2>1
  <2>3. ASSUME NEW m \in Nat, m < p[0 + 1] PROVE Len(VarSize[m]) <= 0 + 1
    <3>1. Len(VarSize[m]) = 1
      BY <1>1, <2>2, <2>3
    <3> PICK l : l = Len(VarSize[m])
      OBVIOUS
    <3>2. l <= 0 + 1
      BY ONLY <3>1, l = Len(VarSize[m])
    <3> QED
      BY <3>2
  <2> QED
    BY <2>3
<1>3. ASSUME NEW k \in Nat, k \in T PROVE k + 1 \in T
  <2> PICK j, w, x : j = k + 1 /\ w = p[j + 1] /\ x = p[j]
    OBVIOUS
  <2>1. j \in Nat /\ x \in Nat /\ w \in Nat /\ w = c * x
    <3>1. j \in Nat /\ j + 1 \in Nat
      OBVIOUS
    <3>2. p[j] \in Nat /\ p[j + 1] \in Nat /\ p[j + 1] = c * p[j]
      BY ONLY <1>0, <3>1
    <3> QED
      BY <3>1, <3>2
  <2>2. ASSUME NEW m \in Nat, m < w PROVE Len(VarSize[m]) <= j + 1
    <3>1. CASE m < c
      <4> PICK l : l = Len(VarSize[m])
        OBVIOUS
      <4>1. l = 1
        BY <1>1, <3>1
      <4>2. l <= j + 1
        BY ONLY <2>1, <4>1
      <4> QED
        BY <4>2
    <3>2. CASE ~(m < c)
      <4> PICK q, b, s : q = m \div c /\ b = (m % c) + c /\ s = VarSize[q]
        OBVIOUS
      <4>1. q \in Nat /\ b \in Nat
        <5>1. m % c \in Nat /\ m \div c \in Nat
          BY <1>0, Division
        <5> QED
          BY <1>0, <5>1
      <4>2. q < x
        BY <1>0, <2>1, <2>2, Quotient
      <4>3. Len(s) <= j
        BY <1>3, <4>1, <4>2
      <4>4. VarSize[m] = <<b>> \o s
        BY <3>2, VarSizeIs
      <4>5. s \in Seq(Nat)
        <5>1. s \in Seq(Byte)
          BY <4>1, VarSizeBytes
        <5>2. Byte \subseteq Nat
          BY DEF Byte
        <5> QED
          BY <5>1, <5>2, SeqMonotonic
      <4>6. Len(VarSize[m]) = Len(s) + 1 /\ Len(s) \in Nat
        BY ONLY <4>1, <4>4, <4>5, ConsIs
      <4> QED
        BY <2>1, <4>3, <4>6
    <3> QED
      BY <3>1, <3>2
  <2> QED
    BY <2>1, <2>2
<1>4. Nat \subseteq T
  BY ONLY <1>2, <1>3, Induction
<1> PICK k : k = MaxChunks - 1
  OBVIOUS
<1>5. k \in Nat /\ MaxChunks = k + 1
  BY Constants
<1>6. k \in T
  BY ONLY <1>4, <1>5
<1>7. n < p[k + 1]
  <2>1. WordValues <= p[MaxChunks] /\ p[MaxChunks] \in Nat /\ WordValues \in Nat
    BY <1>0, <1>5, SerializerAssumption, WordValuesAre
  <2> QED
    BY <1>5, <2>1
<1> QED
  BY <1>5, <1>6, <1>7
-----------------------------------------------------------------------------
(* The texts of an object.                                                   *)

\* What stands in front of n bytes.
Encoding(t, n) == IF t.kind = "string" THEN VarSize[n] ELSE Word(n)

\* Bytes c have the length n at the beginning of t, and n bytes behind it.
TextAt(c, t, n) ==
  /\ n \in Nat /\ n < WordValues /\ t.end = t.first + Len(Encoding(t, n)) + n /\ t.end <= Len(c)
  /\ \A i \in 1 .. Len(Encoding(t, n)) : c[t.first + i] = Encoding(t, n)[i]

\* The texts of an object that is not at risk are where they were put.
TextsHold ==
  failure = Null =>
    \A o \in Objects \ suspect : \A t \in texts[o] : \E n \in 0 .. WordValues - 1 : TextAt(content[o], t, n)

Text == [kind : {"string", "counted"}, first : Nat, end : Nat]

\* A length takes at least one byte.
LEMMA EncodingIs ==
  ASSUME NEW t, NEW n \in Nat
  PROVE  Encoding(t, n) \in Seq(Byte) /\ Len(Encoding(t, n)) \in Nat /\ Len(Encoding(t, n)) > 0
<1>1. VarSize[n] \in Seq(Byte) /\ VarSize[n] # <<>>
  BY VarSizeBytes
<1>2. Word(n) \in Seq(Byte) /\ Len(Word(n)) = WordBytes
  BY WordBytesAre
<1>3. Len(VarSize[n]) \in Nat /\ Len(VarSize[n]) > 0
  BY <1>1, EmptySeq
<1>4. Len(Word(n)) \in Nat /\ Len(Word(n)) > 0
  BY <1>2, Constants
<1> QED
  BY <1>1, <1>2, <1>3, <1>4 DEF Encoding

\* A text does not depend on what is behind it.
LEMMA TextKept ==
  ASSUME NEW c, NEW t \in Text, NEW n, TextAt(c, t, n), NEW w, t.end <= Len(w), \A i \in 1 .. t.end : w[i] = c[i]
  PROVE  TextAt(w, t, n)
<1> PICK e, l, f : e = Encoding(t, n) /\ l = Len(e) /\ f = t.first
  OBVIOUS
<1>1. /\ n \in Nat /\ n < WordValues /\ t.end = f + l + n
      /\ \A i \in 1 .. l : c[f + i] = e[i]
  BY DEF TextAt
<1>2. l \in Nat /\ f \in Nat
  BY <1>1, EncodingIs DEF Text
<1>3. ASSUME NEW i \in 1 .. l PROVE w[f + i] = e[i]
  <2>1. f + i \in 1 .. t.end
    BY <1>1, <1>2
  <2>2. w[f + i] = c[f + i]
    BY <2>1
  <2> QED
    BY <1>1, <2>2
<1> QED
  BY <1>1, <1>3 DEF TextAt

LEMMA TextsTypes ==
  ASSUME SerTypeOK, NEW o \in Objects
  PROVE  texts[o] \subseteq Text /\ content[o] \in Seq(Cell) /\ Len(content[o]) \in Nat
<1>1. texts[o] \subseteq Text /\ content[o] \in Seq(Cell)
  BY DEF SerTypeOK, Text, Memory, Cell
<1> QED
  BY <1>1

\* What becomes of the texts where nothing is written.
Carries ==
  \A p \in Objects \ suspect' :
    texts'[p] = {} \/ \E q \in Objects \ suspect : texts'[p] = texts[q] /\ content'[p] = content[q]

LEMMA CarriesHold == ASSUME TextsHold, failure = Null, Carries PROVE TextsHold'
<1> SUFFICES ASSUME NEW p \in Objects, p \notin suspect', NEW t \in texts'[p]
             PROVE  \E n \in 0 .. WordValues - 1 : TextAt(content'[p], t, n)
  BY DEF TextsHold
<1>1. PICK q \in Objects \ suspect : texts'[p] = texts[q] /\ content'[p] = content[q]
  BY DEF Carries
<1>2. \E n \in 0 .. WordValues - 1 : TextAt(content[q], t, n)
  BY <1>1 DEF TextsHold
<1> QED
  BY <1>1, <1>2

\* The bytes are behind what was there.
Behinds(w, c, bytes) ==
  /\ Len(w) = Len(c) + Len(bytes) /\ \A i \in 1 .. Len(c) : w[i] = c[i]
  /\ \A i \in 1 .. Len(bytes) : w[Len(c) + i] = bytes[i]

LEMMA BehindsAre ==
  ASSUME NEW S, NEW c \in Seq(S), NEW bytes \in Seq(S), NEW w, w = c \o bytes
  PROVE  Behinds(w, c, bytes)
<1> PICK l, k : l = Len(c) /\ k = Len(bytes)
  OBVIOUS
<1>1. l \in Nat /\ k \in Nat
  OBVIOUS
<1>2. /\ c \o bytes \in Seq(S) /\ Len(c \o bytes) = Len(c) + Len(bytes)
      /\ \A i \in 1 .. Len(c) + Len(bytes) : (c \o bytes)[i] = IF i <= Len(c) THEN c[i] ELSE bytes[i - Len(c)]
  BY ONLY c \in Seq(S), bytes \in Seq(S), ConcatProperties
<1>3. Len(w) = l + k /\ \A i \in 1 .. l + k : w[i] = IF i <= l THEN c[i] ELSE bytes[i - l]
  BY <1>2
<1>4. \A i \in 1 .. l : w[i] = c[i]
  BY <1>1, <1>3
<1>5. ASSUME NEW i \in 1 .. k PROVE w[l + i] = bytes[i]
  <2>1. l + i \in 1 .. l + k /\ ~(l + i <= l) /\ (l + i) - l = i
    BY <1>1
  <2> QED
    BY <1>3, <2>1
<1> QED
  BY <1>3, <1>4, <1>5 DEF Behinds

\* Pushing leaves the bytes that were there in front.
LEMMA PushKeeps ==
  ASSUME SerInv, TextsHold, NEW o \in Objects, NEW bytes \in Seq(Cell), PushBytes(o, bytes), failure' = Null
  PROVE  /\ suspect \subseteq suspect' /\ \A p \in Objects : p # o => content'[p] = content[p]
         /\ Behinds(content'[o], content[o], bytes) /\ Len(content[o]) \in Nat
         /\ o \notin suspect => /\ Len(content[o]) = obj[o].length
                                /\ \A t \in texts[o] : \E n \in 0 .. WordValues - 1 : TextAt(content'[o], t, n)
<1> PICK c, w : c = content[o] /\ w = content[o] \o bytes
  OBVIOUS
<1>1. failure = Null /\ obj[o].alive /\ SerTypeOK /\ c \in Seq(Cell) /\ texts[o] \subseteq Text /\ Len(c) \in Nat
  BY TextsTypes DEF SerInv, PushBytes, Live
<1>2. content' = [content EXCEPT ![o] = w]
  BY Constants DEF PushBytes
<1>3. content'[o] = w /\ \A p \in Objects : p # o => content'[p] = content[p]
  BY <1>1, <1>2 DEF SerTypeOK
<1>4. Behinds(w, c, bytes)
  BY <1>1, BehindsAre
<1>5. suspect \subseteq suspect'
  BY DEF PushBytes
<1>6. o \notin suspect => Len(c) = obj[o].length
  BY <1>1 DEF SerInv, Intact
<1>7. ASSUME o \notin suspect, NEW t \in texts[o] PROVE \E n \in 0 .. WordValues - 1 : TextAt(w, t, n)
  <2>1. PICK n \in 0 .. WordValues - 1 : TextAt(c, t, n)
    BY <1>1, <1>7 DEF TextsHold
  <2>2. t \in Text /\ t.end \in Nat /\ t.end <= Len(c)
    BY <1>1, <2>1 DEF Text, TextAt
  <2>3. t.end <= Len(w) /\ \A i \in 1 .. t.end : w[i] = c[i]
    <3>1. Len(bytes) \in Nat
      OBVIOUS
    <3> QED
      BY <1>1, <1>4, <2>2, <3>1 DEF Behinds
  <2>4. TextAt(w, t, n)
    BY <2>1, <2>2, <2>3, TextKept
  <2> QED
    BY <2>4
<1> QED
  BY <1>1, <1>3, <1>4, <1>5, <1>6, <1>7

\* A text that is pushed is where its entry says.
LEMMA PushTextHolds ==
  ASSUME SerInv, TextsHold, NEW o \in Objects, NEW kind \in {"string", "counted"}, NEW n \in Nat, n < WordValues,
         NEW length, length = (IF kind = "string" THEN VarSize[n] ELSE Word(n)), PushText(o, kind, length, n)
  PROVE  TextsHold'
<1> SUFFICES ASSUME failure' = Null, NEW p \in Objects, p \notin suspect', NEW t \in texts'[p]
             PROVE  \E k \in 0 .. WordValues - 1 : TextAt(content'[p], t, k)
  BY DEF TextsHold
<1> PICK data : data = [i \in 1 .. n |-> 0]
  OBVIOUS
<1> PICK bytes : bytes = length \o data
  OBVIOUS
<1> PICK u : u = [kind |-> kind, first |-> obj[o].length, end |-> obj[o].length + Len(bytes)]
  OBVIOUS
<1>1. PushBytes(o, bytes) /\ texts' = [texts EXCEPT ![o] = texts[o] \cup {u}]
  BY DEF PushText
<1>2. length \in Seq(Byte) /\ data \in Seq(Byte) /\ Len(data) = n
  <2>1. length \in Seq(Byte)
    BY VarSizeBytes, WordBytesAre
  <2>2. 0 \in Byte
    BY Constants DEF Byte
  <2>3. data \in [1 .. n -> Byte]
    BY <2>2
  <2>4. data \in Seq(Byte) /\ Len(data) = n
    BY ONLY <2>3, n \in Nat
  <2> QED
    BY <2>1, <2>4
<1>3. Behinds(bytes, length, data) /\ bytes \in Seq(Byte)
  <2>1. Behinds(bytes, length, data)
    BY <1>2, BehindsAre
  <2>2. bytes \in Seq(Byte)
    BY ONLY <1>2, bytes = length \o data, ConcatProperties
  <2> QED
    BY <2>1, <2>2
<1>4. bytes \in Seq(Cell)
  <2>1. Byte \subseteq Cell
    BY DEF Cell
  <2> QED
    BY <1>3, <2>1, SeqMonotonic
<1>5. /\ suspect \subseteq suspect' /\ \A q \in Objects : q # o => content'[q] = content[q]
      /\ Behinds(content'[o], content[o], bytes) /\ Len(content[o]) \in Nat
      /\ o \notin suspect => /\ Len(content[o]) = obj[o].length
                             /\ \A x \in texts[o] : \E k \in 0 .. WordValues - 1 : TextAt(content'[o], x, k)
  BY ONLY <1>1, <1>4, SerInv, TextsHold, o \in Objects, failure' = Null, PushKeeps
<1>6. failure = Null /\ p \notin suspect /\ SerTypeOK
  BY <1>1, <1>5 DEF PushBytes, Live, SerInv
<1>7. CASE p # o
  <2>1. texts'[p] = texts[p] /\ content'[p] = content[p]
    BY <1>1, <1>5, <1>6, <1>7 DEF SerTypeOK
  <2>2. \E k \in 0 .. WordValues - 1 : TextAt(content[p], t, k)
    BY <1>6, <2>1 DEF TextsHold
  <2> QED
    BY <2>1, <2>2
<1>8. CASE p = o /\ t # u
  <2>1. t \in texts[o]
    BY <1>1, <1>6, <1>8 DEF SerTypeOK
  <2> QED
    BY <1>5, <1>6, <1>8, <2>1
<1>9. CASE p = o /\ t = u
  <2> PICK f, w, l : f = obj[o].length /\ w = content'[o] /\ l = Len(length)
    OBVIOUS
  <2>1. f \in Nat /\ l \in Nat /\ Len(bytes) = l + n /\ Behinds(w, content[o], bytes) /\ Len(content[o]) = f
    <3>1. l \in Nat
      BY <1>2
    <3>2. Len(bytes) = l + n
      BY <1>2, <1>3 DEF Behinds
    <3> QED
      BY <1>5, <1>6, <1>9, <3>1, <3>2
  <2>2. Len(w) = f + Len(bytes)
    BY <2>1 DEF Behinds
  <2>3. ASSUME NEW i \in 1 .. l PROVE w[f + i] = length[i]
    <3>1. i \in 1 .. Len(bytes)
      BY <2>1
    <3>2. w[f + i] = bytes[i]
      BY <2>1, <3>1 DEF Behinds
    <3>3. bytes[i] = length[i]
      BY <1>3 DEF Behinds
    <3> QED
      BY <3>2, <3>3
  <2>4. t.first = f /\ t.end = f + Len(bytes) /\ t.kind = kind
    BY <1>9
  <2>5. Encoding(t, n) = length
    BY <2>4 DEF Encoding
  <2>6. t.end = t.first + l + n /\ t.end <= Len(w)
    BY <2>1, <2>2, <2>4
  <2>7. TextAt(w, t, n)
    BY <2>3, <2>4, <2>5, <2>6 DEF TextAt
  <2>8. n \in 0 .. WordValues - 1
    BY WordValuesAre
  <2> QED
    BY <1>9, <2>7, <2>8
<1> QED
  BY <1>7, <1>8, <1>9
LEMMA PushesHold ==
  ASSUME SerInv, TextsHold, NEW o \in Objects,
         \/ \E b \in RawBytes : PushUnsignedChar(o, b)
         \/ \E n \in 0 .. MaxText : PushString(o, n)
         \/ \E n \in Counts : PushLongString(o, n)
  PROVE  TextsHold'
<1>1. CASE \E b \in RawBytes : PushUnsignedChar(o, b)
  <2> PICK b \in RawBytes : PushUnsignedChar(o, b)
    BY <1>1
  <2> PICK bytes : bytes = <<b>>
    OBVIOUS
  <2>1. PushBytes(o, bytes) /\ texts' = texts /\ bytes \in Seq(Cell)
    <3>1. b \in Cell
      BY SerializerAssumption DEF Cell
    <3> QED
      BY <3>1 DEF PushUnsignedChar
  <2> SUFFICES ASSUME failure' = Null, NEW p \in Objects, p \notin suspect', NEW t \in texts[p]
               PROVE  \E k \in 0 .. WordValues - 1 : TextAt(content'[p], t, k)
    BY <2>1 DEF TextsHold
  <2>2. /\ suspect \subseteq suspect' /\ \A q \in Objects : q # o => content'[q] = content[q]
        /\ o \notin suspect => \A x \in texts[o] : \E k \in 0 .. WordValues - 1 : TextAt(content'[o], x, k)
    BY ONLY <2>1, SerInv, TextsHold, o \in Objects, failure' = Null, PushKeeps
  <2>3. failure = Null /\ p \notin suspect
    BY <2>1, <2>2 DEF PushBytes, Live
  <2>4. \E k \in 0 .. WordValues - 1 : TextAt(content[p], t, k)
    BY <2>3 DEF TextsHold
  <2> QED
    BY <2>2, <2>3, <2>4
<1>2. CASE \E n \in 0 .. MaxText : PushString(o, n)
  <2> PICK n \in 0 .. MaxText : PushString(o, n)
    BY <1>2
  <2>1. n \in Nat /\ n < WordValues
    BY SerializerAssumption, WordValuesAre
  <2>2. PushText(o, "string", VarSize[n], n)
    BY DEF PushString, PushVarSize
  <2> QED
    BY <2>1, <2>2, PushTextHolds
<1>3. CASE \E n \in Counts : PushLongString(o, n)
  <2> PICK n \in Counts : PushLongString(o, n)
    BY <1>3
  <2>1. n \in Nat /\ n < WordValues
    BY SerializerAssumption, WordValuesAre
  <2>2. PushText(o, "counted", Word(n), n)
    BY DEF PushLongString
  <2> QED
    BY <2>1, <2>2, PushTextHolds
<1> QED
  BY <1>1, <1>2, <1>3

\* Truncation keeps the bytes up to the new length.
LEMMA SetLengthHolds == ASSUME SerInv, SerInv', TextsHold, NEW o \in Objects, NEW n \in Nat, SetLength(o, n) PROVE TextsHold'
<1> SUFFICES ASSUME failure' = Null, NEW p \in Objects, p \notin suspect', NEW t \in texts'[p]
             PROVE  \E k \in 0 .. WordValues - 1 : TextAt(content'[p], t, k)
  BY DEF TextsHold
<1> PICK c, w : c = content[o] /\ w = content'[o]
  OBVIOUS
<1>1. failure = Null /\ obj[o].alive /\ SerTypeOK /\ c \in Seq(Cell) /\ texts[o] \subseteq Text /\ Len(c) \in Nat
  BY TextsTypes DEF SerInv, SetLength, Live
<1>2. texts' = [texts EXCEPT ![o] = {x \in texts[o] : x.end <= n}] /\ p \notin suspect
  BY DEF SetLength
<1>3. CASE p # o
  <2>1. texts'[p] = texts[p]
    BY <1>1, <1>2, <1>3 DEF SerTypeOK
  <2>2. content'[p] = content[p]
    <3>1. \E x : content' = [content EXCEPT ![o] = x]
      BY DEF SetLength
    <3> QED
      BY <1>1, <1>3, <3>1 DEF SerTypeOK
  <2>3. \E k \in 0 .. WordValues - 1 : TextAt(content[p], t, k)
    BY <1>1, <1>2, <2>1 DEF TextsHold
  <2> QED
    BY <2>2, <2>3
<1>4. CASE p = o
  <2>1. t \in texts[o] /\ t.end <= n
    BY <1>1, <1>2, <1>4 DEF SerTypeOK
  <2>2. PICK k \in 0 .. WordValues - 1 : TextAt(c, t, k)
    BY <1>1, <1>2, <1>4, <2>1 DEF TextsHold
  <2>3. t \in Text /\ t.end \in Nat /\ t.end > 0 /\ t.end <= Len(c)
    <3>1. t \in Text /\ t.first \in Nat /\ t.end \in Nat
      BY <1>1, <2>1 DEF Text
    <3>2. k \in Nat
      BY WordValuesAre
    <3>3. t.end = t.first + Len(Encoding(t, k)) + k /\ t.end <= Len(c)
      BY <2>2 DEF TextAt
    <3>4. Len(Encoding(t, k)) \in Nat /\ Len(Encoding(t, k)) > 0
      BY <3>2, EncodingIs
    <3> QED
      BY <3>1, <3>2, <3>3, <3>4
  <2> PICK r, s : r = obj'[o] /\ s = obj[o]
    OBVIOUS
  <2>4. r \in Object /\ r.alive /\ r.length = n
    <3>1. s \in Object /\ s.alive
      BY <1>1 DEF SerTypeOK
    <3>2. r = Resized(Ensured(s, n), n)
      BY <1>1 DEF SetLength, SerTypeOK
    <3> PICK y : y = Ensured(s, n)
      OBVIOUS
    <3>3. DOMAIN y = DOMAIN s /\ y.alive = s.alive
      BY <3>1 DEF Ensured, Object
    <3>4. "length" \in DOMAIN s /\ "alive" \in DOMAIN s
      BY <3>1 DEF Object
    <3>5. r.length = n /\ r.alive
      BY <3>1, <3>2, <3>3, <3>4 DEF Resized
    <3>6. r \in Object
      BY DEF SerInv, SerTypeOK
    <3> QED
      BY <3>5, <3>6
  <2>5. n > 0 /\ r.data \notin freed' /\ Len(w) = n
    <3>1. n > 0
      BY <2>1, <2>3
    <3> QED
      BY <1>4, <2>4, <3>1 DEF SerInv, Intact
  <2> PICK b : b = Bytes(memory', r)
    OBVIOUS
  <2>6. content' = [content EXCEPT ![o] = Pieces(c, b, n)]
    <3>1. ~(obj'[o].data \in freed' \/ n = 0)
      BY <2>5
    <3>2. IF obj'[o].data \in freed' \/ n = 0
            THEN content' = [content EXCEPT ![o] = <<>>]
            ELSE content' = [content EXCEPT ![o] = Pieces(content[o], Bytes(memory', obj'[o]), n)]
      BY DEF SetLength, Pieces
    <3> QED
      BY <3>1, <3>2
  <2>7. w = Pieces(c, b, n)
    BY <1>1, <2>6 DEF SerTypeOK
  <2>8. b \in Seq(Cell) /\ Len(b) = n
    <3>1. memory' \in [Blocks -> Memory]
      BY DEF SerInv, SerTypeOK
    <3>2. r.length > 0 => r.data # Null /\ r.offset + r.length <= Len(memory'[r.data])
      <4>1. Placed(o)'
        BY <2>4 DEF SerInv, AllPlaced
      <4> QED
        BY <4>1 DEF Placed
    <3> QED
      BY <2>4, <3>1, <3>2, BytesAre
  <2>9. Pieced(w, c, b, n)
    BY <1>1, <2>7, <2>8, PiecesAre
  <2>10. ASSUME NEW i \in 1 .. t.end PROVE w[i] = c[i]
    <3>1. i \in 1 .. n /\ i <= Len(c)
      BY <1>1, <2>1, <2>3
    <3> QED
      BY <2>9, <3>1 DEF Pieced
  <2>11. TextAt(w, t, k)
    BY <2>1, <2>2, <2>3, <2>5, <2>10, TextKept
  <2> QED
    BY <1>4, <2>11
<1> QED
  BY <1>3, <1>4

\* A step that adds no text leaves those that are not at risk where they are.
LEMMA OthersCarry ==
  ASSUME SerInv, failure' = Null, NEW o \in Objects,
         \/ Construct(o) \/ Destroy(o) \/ DestroyView(o) \/ Clear(o)
         \/ PopString(o) \/ PopLongString(o) \/ PopList(o)
         \/ \E n \in Amounts, b \in RawBytes : \E k \in {n - 1, n} : ReadFromFile(o, n, k, b)
         \/ \E n \in Amounts : PopRawData(o, n)
         \/ \E d \in Objects : View(d, o) \/ Copy(d, o) \/ MoveTo(d, o)
  PROVE  failure = Null /\ Carries
<1>0. SerTypeOK
  BY DEF SerInv
<1>1. CASE Construct(o) \/ Clear(o) \/ \E n \in Amounts, b \in RawBytes : \E k \in {n - 1, n} : ReadFromFile(o, n, k, b)
  <2>1. failure = Null /\ suspect \subseteq suspect' /\ texts' = [texts EXCEPT ![o] = {}]
    BY <1>1 DEF Construct, Clear, ReadFromFile, Live
  <2>2. \E x : content' = [content EXCEPT ![o] = x]
    BY <1>1 DEF Construct, Clear, ReadFromFile
  <2> QED
    BY <1>0, <2>1, <2>2 DEF Carries, SerTypeOK
<1>2. CASE PopString(o) \/ PopLongString(o) \/ PopList(o) \/ \E n \in Amounts : PopRawData(o, n)
  <2>1. failure = Null /\ suspect' = suspect /\ texts' = texts /\ content' = content
    BY <1>2 DEF PopString, PopLongString, PopList, PopText, PopRawData, Advance, Live
  <2> QED
    BY <2>1 DEF Carries
<1>3. CASE Destroy(o) \/ DestroyView(o)
  <2>1. failure = Null /\ Gone(o)
    BY <1>3, Constants DEF Destroy, DestroyView, Live
  <2>2. /\ suspect \subseteq suspect' \cup {o}
        /\ texts' = [texts EXCEPT ![o] = {}] /\ content' = [content EXCEPT ![o] = <<>>]
    BY <2>1 DEF Gone
  <2>3. ASSUME NEW p \in Objects \ suspect'
        PROVE  texts'[p] = {} \/ \E q \in Objects \ suspect : texts'[p] = texts[q] /\ content'[p] = content[q]
    <3>1. CASE p = o
      BY <1>0, <2>2, <3>1 DEF SerTypeOK
    <3>2. CASE p # o
      <4>1. p \in Objects \ suspect /\ texts'[p] = texts[p] /\ content'[p] = content[p]
        BY <1>0, <2>2, <3>2 DEF SerTypeOK
      <4> QED
        BY <4>1
    <3> QED
      BY <3>1, <3>2
  <2> QED
    BY <2>1, <2>3 DEF Carries
<1>4. ASSUME NEW d \in Objects, View(d, o) PROVE failure = Null /\ Carries
  <2>1. failure = Null /\ suspect \subseteq suspect' /\ texts' = [texts EXCEPT ![d] = {}]
    BY <1>4 DEF View, Live
  <2>2. \E x : content' = [content EXCEPT ![d] = x]
    BY <1>4 DEF View
  <2> QED
    BY <1>0, <2>1, <2>2 DEF Carries, SerTypeOK
<1>5. ASSUME NEW d \in Objects, Copy(d, o) \/ MoveTo(d, o) PROVE failure = Null /\ Carries
  <2>1. /\ failure = Null /\ (d \in suspect' \/ o \notin suspect)
        /\ texts' = [texts EXCEPT ![d] = texts[o]] /\ content' = [content EXCEPT ![d] = content[o]]
    BY <1>5 DEF Copy, MoveTo, Live
  <2>2. suspect \subseteq suspect'
    BY <1>5 DEF Copy, MoveTo
  <2> QED
    BY <1>0, <2>1, <2>2 DEF Carries, SerTypeOK
<1> QED
  BY <1>1, <1>2, <1>3, <1>4, <1>5

\* Every step keeps the texts.
LEMMA StepHolds == ASSUME SerInv, TextsHold, SerNext PROVE TextsHold'
<1>0. SerInv'
  BY StepInv
<1>1. PICK o \in Objects :
       \/ Construct(o) \/ Destroy(o) \/ DestroyView(o) \/ Clear(o)
       \/ PopString(o) \/ PopLongString(o) \/ PopList(o)
       \/ \E b \in RawBytes : PushUnsignedChar(o, b)
       \/ \E n \in 0 .. MaxText : PushString(o, n)
       \/ \E n \in Counts : PushLongString(o, n)
       \/ \E n \in Amounts, b \in RawBytes : \E k \in {n - 1, n} : ReadFromFile(o, n, k, b)
       \/ \E n \in Amounts : SetLength(o, n) \/ PopRawData(o, n)
       \/ \E d \in Objects : View(d, o) \/ Copy(d, o) \/ MoveTo(d, o)
  BY DEF SerNext
<1>2. CASE \/ \E b \in RawBytes : PushUnsignedChar(o, b)
           \/ \E n \in 0 .. MaxText : PushString(o, n)
           \/ \E n \in Counts : PushLongString(o, n)
  BY <1>2, PushesHold
<1>3. CASE \E n \in Amounts : SetLength(o, n)
  <2> PICK n \in Amounts : SetLength(o, n)
    BY <1>3
  <2>1. n \in Nat
    BY SerializerAssumption
  <2> QED
    BY <1>0, <2>1, SetLengthHolds
<1>4. CASE \/ Construct(o) \/ Destroy(o) \/ DestroyView(o) \/ Clear(o)
           \/ PopString(o) \/ PopLongString(o) \/ PopList(o)
           \/ \E n \in Amounts, b \in RawBytes : \E k \in {n - 1, n} : ReadFromFile(o, n, k, b)
           \/ \E n \in Amounts : PopRawData(o, n)
           \/ \E d \in Objects : View(d, o) \/ Copy(d, o) \/ MoveTo(d, o)
  <2>1. CASE failure' # Null
    BY <2>1 DEF TextsHold
  <2>2. CASE failure' = Null
    BY <1>4, <2>2, OthersCarry, CarriesHold
  <2> QED
    BY <2>1, <2>2
<1> QED
  BY <1>1, <1>2, <1>3, <1>4

LEMMA InitHolds == SerInit => TextsHold
BY DEF SerInit, TextsHold

LEMMA StutterHolds == TextsHold /\ UNCHANGED serVars => TextsHold'
BY DEF TextsHold, serVars
\* The unread bytes begin with t, whose length is n.
Ahead(u, t, n) ==
  /\ n \in Nat /\ n < WordValues /\ t.end = t.first + Len(Encoding(t, n)) + n
  /\ u \in Seq(Cell) /\ Len(Encoding(t, n)) + n <= Len(u)
  /\ \A i \in 1 .. Len(Encoding(t, n)) : u[i] = Encoding(t, n)[i]

LEMMA TextIsAhead ==
  ASSUME SerInv, TextsHold, NEW o \in Objects, o \notin suspect, NEW t \in texts[o], obj[o].readPos = t.first,
         Live(o), BytesLeft(o) > 0
  PROVE  obj[o].data \notin freed /\ \E n : Ahead(Unread(o), t, n)
<1> PICK c, u, f : c = content[o] /\ u = Unread(o) /\ f = t.first
  OBVIOUS
<1>1. SerTypeOK /\ t \in Text /\ c \in Seq(Cell) /\ Len(c) \in Nat /\ f \in Nat /\ failure = Null /\ obj[o].alive
  BY TextsTypes DEF SerInv, Text, Live
<1>2. obj[o].length = Len(c) /\ f <= Len(c) /\ obj[o].length > 0
  <2>1. obj[o].length = Len(c) /\ obj[o].readPos <= obj[o].length
    BY <1>1 DEF SerInv, Intact
  <2> QED
    BY <1>1, <2>1 DEF BytesLeft
<1>3. obj[o].data \notin freed /\ Bytes(memory, obj[o]) = c
  BY <1>1, <1>2 DEF SerInv, Intact
<1>4. u = Behind(c, f)
  BY <1>2, <1>3 DEF Unread, Behind
<1>5. u \in Seq(Cell) /\ Len(u) = Len(c) - f /\ \A i \in 1 .. Len(c) - f : u[i] = c[f + i]
  <2>1. u \in Seq(Cell) /\ IsBehind(u, c, f)
    BY ONLY <1>1, <1>4, BehindIs
  <2> QED
    BY <1>2, <2>1 DEF IsBehind
<1>6. PICK n \in 0 .. WordValues - 1 : TextAt(c, t, n)
  BY <1>1 DEF TextsHold
<1> PICK e, l : e = Encoding(t, n) /\ l = Len(e)
  OBVIOUS
<1>7. /\ n \in Nat /\ n < WordValues /\ t.end = f + l + n /\ t.end <= Len(c)
      /\ \A i \in 1 .. l : c[f + i] = e[i]
  BY <1>6 DEF TextAt
<1>8. l \in Nat
  BY <1>7, EncodingIs
<1>9. l + n <= Len(u)
  BY <1>1, <1>5, <1>7, <1>8
<1>10. ASSUME NEW i \in 1 .. l PROVE u[i] = e[i]
  <2>1. i \in 1 .. Len(c) - f
    BY <1>1, <1>7, <1>8
  <2> QED
    BY <1>5, <1>7, <2>1
<1>11. Ahead(u, t, n)
  BY <1>5, <1>7, <1>9, <1>10 DEF Ahead
<1> QED
  BY <1>3, <1>11

\* PopString ends behind the string it begins with.
LEMMA StringEnd ==
  ASSUME NEW u, NEW t, NEW n, Ahead(u, t, n), t.kind = "string"
  PROVE  TextEnd(u) = Len(Encoding(t, n)) + n
<1> PICK e, l, c, h : e = VarSize[n] /\ l = Len(e) /\ c = ChunkValues /\ h = Len(u)
  OBVIOUS
<1>1. /\ n \in Nat /\ n < WordValues /\ u \in Seq(Cell) /\ l + n <= h
      /\ \A i \in 1 .. l : u[i] = e[i]
      /\ Encoding(t, n) = e
  BY DEF Ahead, Encoding
<1>2. /\ e \in Seq(Byte) /\ l \in Nat /\ l > 0 /\ h \in Nat /\ l <= MaxChunks /\ MaxChunks \in Nat /\ c \in Nat
      /\ \A i \in 1 .. l : e[i] \in Byte
  <2>1. e \in Seq(Byte) /\ e # <<>>
    BY <1>1, VarSizeBytes
  <2>2. Len(e) \in Nat \ {0}
    BY <2>1, EmptySeq
  <2>3. h \in Nat
    BY <1>1
  <2>4. \A i \in 1 .. l : e[i] \in Byte
    BY <2>1
  <2> QED
    BY <1>1, <2>1, <2>2, <2>3, <2>4, VarSizeFits, Constants
<1>3. Means(e, n)
  BY <1>1, VarSizeMeans
<1>4. e[l] < c /\ \A i \in 1 .. l : i < l => e[i] >= c
  BY <1>3 DEF Means, EndsBelow
<1> PICK last : last = {j \in 1 .. Len(u) : j <= MaxChunks /\ u[j] < ChunkValues}
  OBVIOUS
<1>5. l \in last
  BY <1>1, <1>2, <1>4
<1> PICK k : k = Min(last)
  OBVIOUS
<1>6. k \in last /\ k <= l
  <2>1. last \subseteq Nat /\ last # {}
    BY <1>5
  <2>2. Min(last) \in last /\ \A y \in last : Min(last) <= y
    BY ONLY <2>1, MinIs
  <2> QED
    BY <1>5, <2>2
<1>7. k = l
  <2> SUFFICES ASSUME k # l PROVE FALSE
    OBVIOUS
  <2>1. k \in 1 .. l /\ k < l /\ u[k] < c
    BY <1>2, <1>6
  <2>2. e[k] >= c /\ u[k] = e[k] /\ e[k] \in Nat
    BY <1>1, <1>2, <1>4, <2>1 DEF Byte
  <2> QED
    BY <1>2, <2>1, <2>2
<1>8. VarSizeEnd(u) = l
  BY <1>5, <1>7 DEF VarSizeEnd
<1> PICK w : w = FirstOf(u, l)
  OBVIOUS
<1>9. w = e
  <2>1. \A i \in 1 .. l : u[i] \in Byte
    BY <1>1, <1>2
  <2>2. w \in Seq(Byte) /\ IsFront(w, u, l)
    BY ONLY <1>2, <2>1, w = FirstOf(u, l), FrontIs
  <2>3. Len(w) = Len(e) /\ \A i \in 1 .. Len(w) : w[i] = e[i]
    BY <1>1, <2>2 DEF IsFront
  <2> QED
    BY ONLY <1>2, <2>2, <2>3, SeqEqual
<1>10. VarSizeValue(e) = n
  <2>1. Number(c)[ChunksIn(e)] = n
    BY <1>3 DEF Means
  <2>2. VarSizeValue(e) = Number(c)[ChunksIn(e)] % WordValues
    BY DEF VarSizeValue, ChunksIn
  <2>3. n % WordValues = n
    BY ONLY <1>1, WordValuesAre
  <2> QED
    BY ONLY <2>1, <2>2, <2>3
<1>11. TextEnd(u) = IF l = 0 THEN Min({h, MaxChunks}) ELSE IF l + n > h THEN l ELSE l + n
  BY <1>8, <1>9, <1>10 DEF TextEnd, FirstOf
<1> QED
  BY <1>1, <1>2, <1>11

\* PopLongString and SerializableArray::deserialize end behind what they begin with.
LEMMA CountedEnd ==
  ASSUME NEW u, NEW t, NEW n, Ahead(u, t, n), t.kind # "string"
  PROVE  /\ LongTextEnds(u) = {Len(Encoding(t, n)) + n}
         /\ ListEnds(u) = {Len(Encoding(t, n)) + n}
<1> PICK e, k, h, x : e = Word(n) /\ k = WordBytes /\ h = Len(u) /\ x = k + n
  OBVIOUS
<1>1. e \in Seq(Byte) /\ Len(e) = k /\ k \in Nat
  BY WordBytesAre, Constants DEF Ahead
<1>2. /\ n \in Nat /\ n < WordValues /\ u \in Seq(Cell) /\ k + n <= h
      /\ \A i \in 1 .. k : u[i] = e[i]
      /\ Encoding(t, n) = e
  BY <1>1 DEF Ahead, Encoding
<1> PICK w : w = FirstOf(u, k)
  OBVIOUS
<1>3. w = e
  <2>1. \A i \in 1 .. k : u[i] \in Byte
    BY <1>1, <1>2
  <2>2. w \in Seq(Byte) /\ IsFront(w, u, k)
    BY ONLY <1>1, <2>1, w = FirstOf(u, k), FrontIs
  <2>3. Len(w) = Len(e) /\ \A i \in 1 .. Len(w) : w[i] = e[i]
    BY <1>1, <1>2, <2>2 DEF IsFront
  <2> QED
    BY ONLY <1>1, <2>2, <2>3, SeqEqual
<1>4. WordValue(u) = n
  <2>1. WordValue(u) = Number(2 * ChunkValues)[w]
    BY DEF WordValue, FirstOf
  <2>2. Number(2 * ChunkValues)[Word(n)] = n
    BY <1>2, WordRead
  <2> QED
    BY <1>3, <2>1, <2>2
<1>5. h \in Nat /\ x \in Nat /\ ~(h < k) /\ ~(x > h)
  BY <1>1, <1>2
<1>6. LongTextEnds(u) = {x}
  BY <1>4, <1>5 DEF LongTextEnds
<1>7. Min({x, h}) = x
  BY ONLY <1>5, LesserIs
<1>8. ListEnds(u) = {x}
  BY <1>4, <1>5, <1>6, <1>7 DEF ListEnds
<1> QED
  BY <1>1, <1>2, <1>6, <1>8

\* From where a text was put, reading goes to its end.
LEMMA ReadsText ==
  ASSUME SerInv, TextsHold, NEW o \in Objects, o \notin suspect, NEW t \in texts[o], obj[o].readPos = t.first,
         IF t.kind = "string" THEN PopString(o) ELSE PopLongString(o) \/ PopList(o)
  PROVE  obj'[o].readPos = t.end
<1> PICK u : u = Unread(o)
  OBVIOUS
<1>1. Live(o) /\ BytesLeft(o) > 0
  BY DEF PopString, PopLongString, PopList, PopText
<1>2. obj[o].data \notin freed /\ \E n : Ahead(u, t, n)
  BY <1>1, TextIsAhead
<1>3. PICK n : Ahead(u, t, n)
  BY <1>2
<1> PICK x : x = Len(Encoding(t, n)) + n
  OBVIOUS
<1>4. Advance(o, x)
  <2>1. CASE t.kind = "string"
    <3>1. TextEnd(u) = x
      BY <1>3, <2>1, StringEnd
    <3> QED
      BY <1>2, <2>1, <3>1 DEF PopString, PopText
  <2>2. CASE t.kind # "string"
    <3>1. LongTextEnds(u) = {x} /\ ListEnds(u) = {x}
      BY <1>3, <2>2, CountedEnd
    <3> QED
      BY <1>2, <2>2, <3>1 DEF PopLongString, PopList, PopText
  <2> QED
    BY <2>1, <2>2
<1>5. t.end = t.first + x
  <2>1. n \in Nat /\ t.first \in Nat /\ t.end = t.first + Len(Encoding(t, n)) + n
    BY <1>3, TextsTypes DEF Ahead, Text, SerInv
  <2>2. Len(Encoding(t, n)) \in Nat
    BY <2>1, EncodingIs
  <2> QED
    BY <2>1, <2>2
<1>6. obj[o] \in Object /\ obj \in [Objects -> Object]
  BY DEF SerInv, SerTypeOK
<1>7. obj' = [obj EXCEPT ![o] = [obj[o] EXCEPT !.readPos = obj[o].readPos + x]]
  BY <1>2, <1>4 DEF Advance
<1>8. obj'[o] = [obj[o] EXCEPT !.readPos = obj[o].readPos + x]
  BY <1>6, <1>7
<1>9. obj'[o].readPos = obj[o].readPos + x
  <2>1. "readPos" \in DOMAIN obj[o]
    BY <1>6 DEF Object
  <2> QED
    BY <1>8, <2>1
<1> QED
  BY <1>5, <1>9

\* A string or a list is read from where it was put to its end, whatever its length, the values of the bytes
\* around it, and the operations between writing and reading: both sides take the length in front for the same.
THEOREM StringsAreAligned == SerSpec => StringsAligned
<1>1. SerInv /\ TextsHold /\ [SerNext]_serVars => (SerInv /\ TextsHold)'
  BY StepInv, StutterInv, StepHolds, StutterHolds
<1>2. SerInv /\ TextsHold =>
        \A o \in Objects : \A t \in texts[o] :
          /\ o \notin suspect /\ obj[o].readPos = t.first /\ failure' = Null
          /\ IF t.kind = "string" THEN PopString(o) ELSE PopLongString(o) \/ PopList(o)
          => obj'[o].readPos = t.end
  BY ReadsText
<1> QED
  BY InitInv, InitHolds, <1>1, <1>2, PTL DEF SerSpec, StringsAligned
=============================================================================
