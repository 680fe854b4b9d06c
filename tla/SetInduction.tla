----------------------------- MODULE SetInduction -----------------------------
(* Induction over the natural numbers and recursion over what a measure      *)
(* makes smaller, stated about sets and functions, from the theorem on       *)
(* minimal elements of well-founded relations: the theorems of the library   *)
(* that take an operator cannot be applied by the provers.                   *)
EXTENDS Integers, WellFoundedInduction, TLAPS

\* A set of natural numbers that is not empty has a least element.
LEMMA Least == ASSUME NEW T, T \subseteq Nat, T # {} PROVE \E x \in T : \A y \in T : x <= y
<1> PICK R : R = OpToRel(<, Nat)
  OBVIOUS
<1>1. IsWellFoundedOn(R, Nat)
  BY NatLessThanWellFounded
<1>2. PICK x \in T : \A y \in T : ~(<<y, x>> \in R)
  BY <1>1, WFMin
<1>3. ASSUME NEW y \in T PROVE x <= y
  <2>1. x \in Nat /\ y \in Nat
    OBVIOUS
  <2>2. y < x => <<y, x>> \in R
    BY <2>1 DEF OpToRel
  <2>3. ~(<<y, x>> \in R)
    BY <1>2
  <2>4. ~(y < x)
    BY ONLY <2>2, <2>3
  <2> QED
    BY ONLY <2>1, <2>4
<1> QED
  BY <1>3

\* Induction over the natural numbers, for the set of those that have the property.
LEMMA Induction == ASSUME NEW S, 0 \in S, \A n \in Nat : n \in S => n + 1 \in S PROVE Nat \subseteq S
<1> SUFFICES ASSUME ~(Nat \subseteq S) PROVE FALSE
  OBVIOUS
<1> PICK T : T = Nat \ S
  OBVIOUS
<1>1. T \subseteq Nat /\ T # {}
  OBVIOUS
<1>2. PICK x \in T : \A y \in T : x <= y
  BY <1>1, Least
<1>3. x \in Nat /\ x # 0 /\ x - 1 \in Nat /\ x = (x - 1) + 1 /\ ~(x <= x - 1)
  BY <1>1
<1> QED
  BY <1>2, <1>3

\* f is what the recursion h computes, for what is smaller than n.
Solves(f, h, S, size, n) == \A x \in S : size[x] < n => f[x] = h[x][f]

\* The value of h at x only depends on values at what is smaller.
Recursive(h, S, V, size) ==
  /\ \A x \in S, f \in [S -> V] : h[x][f] \in V
  /\ \A x \in S, f, g \in [S -> V] : (\A y \in S : size[y] < size[x] => f[y] = g[y]) => h[x][f] = h[x][g]

\* A function is what h says of it.
Solved(h, S, V) == \E f \in [S -> V] : \A x \in S : f[x] = h[x][f]

LEMMA SolvedUpTo ==
  ASSUME NEW S, NEW V, V # {}, NEW size \in [S -> Nat], NEW h, Recursive(h, S, V, size)
  PROVE  \A n \in Nat : \E f \in [S -> V] : Solves(f, h, S, size, n)
<1> PICK T : T = {n \in Nat : \E f \in [S -> V] : Solves(f, h, S, size, n)}
  OBVIOUS
<1>1. 0 \in T
  <2> PICK v \in V : TRUE
    OBVIOUS
  <2> PICK f : f = [x \in S |-> v]
    OBVIOUS
  <2>1. f \in [S -> V]
    OBVIOUS
  <2>2. Solves(f, h, S, size, 0)
    BY DEF Solves
  <2> QED
    BY <2>1, <2>2
<1>2. ASSUME NEW n \in Nat, n \in T PROVE n + 1 \in T
  <2> PICK f \in [S -> V] : Solves(f, h, S, size, n)
    BY <1>2
  <2> PICK g : g = [x \in S |-> h[x][f]]
    OBVIOUS
  <2>1. g \in [S -> V]
    BY DEF Recursive
  <2>2. ASSUME NEW x \in S, size[x] < n + 1 PROVE g[x] = h[x][g]
    <3>1. ASSUME NEW y \in S, size[y] < size[x] PROVE g[y] = f[y]
      <4>1. size[y] < n
        BY <2>2, <3>1
      <4> QED
        BY <4>1 DEF Solves
    <3>2. h[x][g] = h[x][f]
      BY <2>1, <3>1 DEF Recursive
    <3> QED
      BY <3>2
  <2>3. Solves(g, h, S, size, n + 1)
    BY <2>2 DEF Solves
  <2> QED
    BY <2>1, <2>3
<1>3. Nat \subseteq T
  BY ONLY <1>1, <1>2, Induction
<1> QED
  BY <1>3

LEMMA SolvedOnce ==
  ASSUME NEW S, NEW V, NEW size \in [S -> Nat], NEW h, Recursive(h, S, V, size),
         NEW f \in [S -> V], NEW g \in [S -> V], NEW n \in Nat, Solves(f, h, S, size, n), Solves(g, h, S, size, n)
  PROVE  \A x \in S : size[x] < n => f[x] = g[x]
<1> PICK T : T = {k \in Nat : \A x \in S : size[x] < k /\ size[x] < n => f[x] = g[x]}
  OBVIOUS
<1>1. 0 \in T
  OBVIOUS
<1>2. ASSUME NEW k \in Nat, k \in T PROVE k + 1 \in T
  <2>1. ASSUME NEW x \in S, size[x] < k + 1, size[x] < n PROVE f[x] = g[x]
    <3>1. ASSUME NEW y \in S, size[y] < size[x] PROVE f[y] = g[y]
      <4>1. size[y] < k /\ size[y] < n
        BY <2>1, <3>1
      <4> QED
        BY <1>2, <4>1
    <3>2. h[x][f] = h[x][g]
      BY <3>1 DEF Recursive
    <3> QED
      BY <2>1, <3>2 DEF Solves
  <2> QED
    BY <2>1
<1>3. Nat \subseteq T
  BY ONLY <1>1, <1>2, Induction
<1>4. n \in T
  BY <1>3
<1> QED
  BY <1>4

\* What a recursion over what is smaller computes is there.
LEMMA Recursion ==
  ASSUME NEW S, NEW V, V # {}, NEW size \in [S -> Nat], NEW h, Recursive(h, S, V, size)
  PROVE  Solved(h, S, V)
<1> PICK part : part = [n \in Nat |-> CHOOSE f \in [S -> V] : Solves(f, h, S, size, n)]
  OBVIOUS
<1>1. ASSUME NEW n \in Nat PROVE part[n] \in [S -> V] /\ Solves(part[n], h, S, size, n)
  BY SolvedUpTo
<1> PICK f : f = [x \in S |-> part[size[x] + 1][x]]
  OBVIOUS
<1>2. ASSUME NEW x \in S PROVE size[x] + 1 \in Nat /\ part[size[x] + 1] \in [S -> V]
  BY <1>1
<1>3. f \in [S -> V]
  BY <1>2
<1>4. ASSUME NEW x \in S PROVE f[x] = h[x][f]
  <2> PICK n, p : n = size[x] + 1 /\ p = part[n]
    OBVIOUS
  <2>1. n \in Nat /\ p \in [S -> V] /\ Solves(p, h, S, size, n) /\ size[x] < n
    BY <1>1
  <2>2. ASSUME NEW y \in S, size[y] < size[x] PROVE f[y] = p[y]
    <3> PICK m, q : m = size[y] + 1 /\ q = part[m]
      OBVIOUS
    <3>1. m \in Nat /\ q \in [S -> V] /\ Solves(q, h, S, size, m) /\ size[y] < m /\ m <= n
      BY <1>1, <2>1, <2>2
    <3>2. Solves(p, h, S, size, m)
      BY <2>1, <3>1 DEF Solves
    <3>3. \A z \in S : size[z] < m => p[z] = q[z]
      BY ONLY <2>1, <3>1, <3>2, SolvedOnce, size \in [S -> Nat], Recursive(h, S, V, size)
    <3> QED
      BY <3>1, <3>3
  <2>3. \A y \in S : size[y] < size[x] => f[y] = p[y]
    BY <2>2
  <2>4. h[x][f] = h[x][p]
    BY ONLY <1>3, <2>1, <2>3, x \in S, Recursive(h, S, V, size) DEF Recursive
  <2>5. p[x] = h[x][p]
    BY <2>1 DEF Solves
  <2> QED
    BY <2>4, <2>5, <2>1, <2>2
<1> QED
  BY <1>3, <1>4 DEF Solved
=============================================================================
