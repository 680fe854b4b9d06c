----------------------- MODULE SingletonLifetime_proofs ----------------------
(* Destruction once, of all, and in the order of longevity, for any          *)
(* singletons, policies, longevities and numbers of uses.                    *)
EXTENDS SingletonLifetime, FiniteSetTheorems, SequenceTheorems, WellFoundedInduction, TLAPS

USE LifetimeAssumption DEF LifetimeAssumption

WithLongevity == {s \in Singletons : Policy[s] = "longevity"}

Lives(s) == me[s] /\ ~isDestroyed[s]

Dtor(i, s) == stack[i].kind = "dtor" /\ stack[i].of = s
Dying(s) == \E i \in DOMAIN stack : Dtor(i, s)

\* The tracker's destructor runs at the bottom of the stack.
TrackerDies == stack # <<>> /\ Dtor(1, Tracker)

Registered(s) == \E i \in DOMAIN handlers : handlers[i] = s
Tracked(s) == \E i \in cursor + 1 .. Len(items) : items[i] = s

\* A destructor is called by the process, or by the tracker's destructor for the item it has reached.
DtorsInPlace ==
  \A i \in DOMAIN stack : stack[i].kind = "dtor" =>
    /\ phase # "running"
    /\ Lives(stack[i].of)
    /\ \/ i = 1 /\ stack[i].of \notin WithLongevity
       \/ i = 2 /\ TrackerDies /\ cursor > 0 /\ stack[i].of = items[cursor]

\* What is being constructed is not there yet, and is constructed once.
CtorsInPlace ==
  \A i \in DOMAIN stack : stack[i].kind = "ctor" =>
    /\ stack[i].of \in Singletons
    /\ ~me[stack[i].of] /\ ~isDestroyed[stack[i].of]
    /\ \A j \in DOMAIN stack : stack[j].kind = "ctor" /\ stack[j].of = stack[i].of => i = j

HandlersInOrder ==
  \A i \in DOMAIN handlers :
    /\ handlers[i] \notin WithLongevity
    /\ Lives(handlers[i]) /\ ~Dying(handlers[i])
    /\ \A j \in DOMAIN handlers : handlers[i] = handlers[j] => i = j

\* The tracker has each singleton once, sorted; those its destructor has not reached live.
ItemsInOrder ==
  /\ cursor <= Len(items)
  /\ \A i \in DOMAIN items :
       /\ items[i] \in WithLongevity
       /\ me[items[i]] \/ isDestroyed[items[i]]
       /\ i > cursor => Lives(items[i])
       /\ \A j \in DOMAIN items : items[i] = items[j] => i = j
       /\ \A j \in DOMAIN items : i < j => Longevity[items[i]] <= Longevity[items[j]]

\* Every instance but the late ones is to be destroyed, and so is the tracker while it has items.
AllScheduled ==
  /\ \A s \in Singletons :
       me[s] /\ ~late[s] /\ ~(Policy[s] = "phoenix" /\ failed[s])
         => Registered(s) \/ Tracked(s) \/ Dying(s)
  /\ me[Tracker] => Registered(Tracker) \/ TrackerDies
  /\ cursor < Len(items) => me[Tracker]

\* Before the exit only failed constructors have marked anything destroyed.
NoDeathsBeforeExit ==
  phase = "running" =>
    /\ cursor = 0 /\ ~isDestroyed[Tracker]
    /\ \A s \in Singletons : isDestroyed[s] \/ destroyedOnce[s] => failed[s]

\* A singleton with a longevity has died in its place of the order.
DeadInOrder ==
  \A s \in WithLongevity : isDestroyed[s] /\ ~failed[s] => \E i \in 1 .. cursor : items[i] = s

EndOfLife ==
  /\ phase = "ended" => stack = <<>> /\ handlers = <<>>
  /\ phase = "terminated" => raised

LifeInv ==
  /\ TypeOK
  /\ \A s \in All : me[s] => ~isDestroyed[s]
  /\ DtorsInPlace /\ CtorsInPlace
  /\ HandlersInOrder /\ ItemsInOrder
  /\ AllScheduled /\ NoDeathsBeforeExit /\ DeadInOrder
  /\ EndOfLife
  /\ LongerLivedUsable

-----------------------------------------------------------------------------
(* Sequences: the end of the stack and of the handlers, and the tracker's items. *)

LEMMA FrontFacts ==
  ASSUME NEW S, NEW q \in Seq(S), q # <<>>
  PROVE  /\ Front(q) \in Seq(S) /\ Len(Front(q)) = Len(q) - 1 /\ Len(q) - 1 \in Nat
         /\ \A i \in 1 .. Len(q) - 1 : Front(q)[i] = q[i]
         /\ Last(q) = q[Len(q)] /\ Len(q) \in DOMAIN q /\ q[Len(q)] \in S
<1>1. Len(q) \in Nat /\ Len(q) >= 1 /\ DOMAIN q = 1 .. Len(q)
  OBVIOUS
<1>2. /\ SubSeq(q, 1, Len(q) - 1) \in Seq(S) /\ Len(SubSeq(q, 1, Len(q) - 1)) = Len(q) - 1
      /\ \A i \in 1 .. Len(q) - 1 : SubSeq(q, 1, Len(q) - 1)[i] = q[i]
  BY <1>1
<1>3. q[Len(q)] \in S
  BY <1>1
<1> QED
  BY <1>1, <1>2, <1>3 DEF Front, Last

LEMMA AppendFacts ==
  ASSUME NEW S, NEW q \in Seq(S), NEW e \in S
  PROVE  /\ Append(q, e) \in Seq(S) /\ Len(Append(q, e)) = Len(q) + 1
         /\ \A i \in 1 .. Len(q) : Append(q, e)[i] = q[i]
         /\ Append(q, e)[Len(q) + 1] = e
OBVIOUS

LEMMA InsertFacts ==
  ASSUME NEW S, NEW q \in Seq(S), NEW p \in 1 .. Len(q) + 1, NEW e \in S
  PROVE  /\ InsertAt(q, p, e) \in Seq(S) /\ Len(InsertAt(q, p, e)) = Len(q) + 1
         /\ InsertAt(q, p, e)[p] = e
         /\ \A i \in 1 .. Len(q) : i < p => InsertAt(q, p, e)[i] = q[i]
         /\ \A i \in 1 .. Len(q) : i >= p => InsertAt(q, p, e)[i + 1] = q[i]
<1> DEFINE u == SubSeq(q, 1, p - 1)
           v == SubSeq(q, p, Len(q))
           w == u \o <<e>>
<1>1. u \in Seq(S) /\ Len(u) = p - 1 /\ \A i \in 1 .. p - 1 : u[i] = q[i]
  OBVIOUS
<1>2. /\ v \in Seq(S) /\ Len(v) = Len(q) + 1 - p
      /\ \A i \in 1 .. Len(q) + 1 - p : v[i] = q[i + p - 1]
  OBVIOUS
<1>3. <<e>> \in Seq(S) /\ Len(<<e>>) = 1 /\ <<e>>[1] = e
  OBVIOUS
<1> HIDE DEF u, v
<1>4. /\ w \in Seq(S) /\ Len(w) = p
      /\ \A i \in 1 .. p - 1 : w[i] = q[i]
      /\ w[p] = e
  <2>1. w \in Seq(S) /\ Len(w) = Len(u) + 1
    BY <1>1, <1>3, ConcatProperties
  <2>2. \A i \in 1 .. Len(u) + 1 : w[i] = IF i <= Len(u) THEN u[i] ELSE <<e>>[i - Len(u)]
    BY <1>1, <1>3, ConcatProperties
  <2> HIDE DEF w
  <2>3. \A i \in 1 .. p - 1 : w[i] = q[i]
    BY <1>1, <2>2
  <2>4. w[p] = e
    <3>1. p - Len(u) = 1 /\ p \in 1 .. Len(u) + 1 /\ ~(p <= Len(u))
      BY <1>1
    <3> QED
      BY <1>3, <2>2, <3>1
  <2> QED
    BY <1>1, <2>1, <2>3, <2>4
<1> HIDE DEF w
<1>5. w \o v \in Seq(S) /\ Len(w \o v) = Len(w) + Len(v)
  BY <1>2, <1>4, ConcatProperties
<1>6. \A i \in 1 .. Len(w) + Len(v) : (w \o v)[i] = IF i <= Len(w) THEN w[i] ELSE v[i - Len(w)]
  BY <1>2, <1>4, ConcatProperties
<1>7. InsertAt(q, p, e) = w \o v
  BY DEF InsertAt, w, u, v
<1> DEFINE r == w \o v
<1>8. r \in Seq(S) /\ Len(r) = Len(q) + 1
  BY <1>2, <1>4, <1>5
<1> HIDE DEF r
<1>9. \A i \in 1 .. p : r[i] = w[i]
  BY <1>2, <1>4, <1>6 DEF r
<1>10. ASSUME NEW i \in 1 .. Len(q), i >= p PROVE r[i + 1] = q[i]
  <2>1. r[i + 1] = v[(i + 1) - Len(w)]
    BY <1>2, <1>4, <1>6, <1>10 DEF r
  <2>2. (i + 1) - Len(w) \in 1 .. Len(q) + 1 - p /\ ((i + 1) - Len(w)) + p - 1 = i
    BY <1>4, <1>10
  <2> QED
    BY <1>2, <2>1, <2>2
<1> QED
  BY <1>4, <1>7, <1>8, <1>9, <1>10 DEF r

Sorted(q) == \A i, j \in DOMAIN q : i < j => Longevity[q[i]] <= Longevity[q[j]]

\* A sorted multiset has a place behind the items that are not longer-lived.
LEMMA PlaceFacts ==
  ASSUME NEW q \in Seq(Singletons), Sorted(q), NEW n \in Nat
  PROVE  /\ Place(q, n) \in 1 .. Len(q) + 1
         /\ \A i \in DOMAIN q : i < Place(q, n) <=> Longevity[q[i]] <= n
<1> DEFINE Longer == {i \in DOMAIN q : ~(Longevity[q[i]] <= n)}
           Here(p) == \A i \in DOMAIN q : i < p <=> Longevity[q[i]] <= n
<1>1. Len(q) \in Nat /\ DOMAIN q = 1 .. Len(q) /\ \A i \in DOMAIN q : Longevity[q[i]] \in Nat
  BY SMTT(30)
<1>2. \E p \in 1 .. Len(q) + 1 : Here(p)
  <2>1. CASE Longer = {}
    BY <1>1, <2>1
  <2>2. CASE Longer # {}
    <3>1. Longer \subseteq Nat
      BY <1>1
    <3>2. PICK p \in Longer : \A i \in Longer : ~(<<i, p>> \in OpToRel(<, Nat))
      <4> HIDE DEF Longer
      <4> QED
        BY <2>2, <3>1, NatLessThanWellFounded, WFMin
    <3>3. \A i \in Longer : ~(i < p)
      BY <3>1, <3>2 DEF OpToRel
    <3>4. ASSUME NEW i \in DOMAIN q PROVE i < p <=> Longevity[q[i]] <= n
      <4>1. CASE i < p
        BY <3>3, <4>1
      <4>2. CASE ~(i < p)
        <5>1. i = p \/ p < i
          BY <1>1, <4>2
        <5>2. Longevity[q[p]] <= Longevity[q[i]]
          BY <1>1, <5>1 DEF Sorted
        <5> QED
          BY <1>1, <4>2, <5>2
      <4> QED
        BY <4>1, <4>2
    <3> QED
      BY <1>1, <3>4
  <2> QED
    BY <2>1, <2>2
<1>3. Place(q, n) = CHOOSE p \in 1 .. Len(q) + 1 : Here(p)
  BY DEF Place
<1> HIDE DEF Here
<1>4. Place(q, n) \in 1 .. Len(q) + 1 /\ Here(Place(q, n))
  BY <1>2, <1>3
<1> QED
  BY <1>4 DEF Here

LEMMA StackFacts ==
  ASSUME TypeOK
  PROVE  /\ stack \in Seq(Frame) /\ Len(stack) \in Nat /\ DOMAIN stack = 1 .. Len(stack)
         /\ stack # <<>> <=> Len(stack) >= 1
         /\ \A i \in DOMAIN stack : stack[i].kind \in {"ctor", "dtor"} /\ stack[i].of \in All
<1>1. stack \in Seq(Frame)
  BY DEF TypeOK
<1>2. \A i \in DOMAIN stack : stack[i] \in Frame
  BY <1>1
<1> QED
  BY <1>1, <1>2 DEF Frame

LEMMA QueueFacts ==
  ASSUME TypeOK
  PROVE  /\ DOMAIN handlers = 1 .. Len(handlers) /\ Len(handlers) \in Nat
         /\ DOMAIN items = 1 .. Len(items) /\ Len(items) \in Nat /\ cursor \in Nat
         /\ \A i \in DOMAIN items : items[i] \in Singletons
         /\ \A i \in DOMAIN handlers : handlers[i] \in All
BY DEF TypeOK

\* No two destructors run for the same singleton.
LEMMA DtorsDiffer ==
  ASSUME LifeInv, NEW i \in DOMAIN stack, NEW j \in DOMAIN stack, NEW s, Dtor(i, s), Dtor(j, s)
  PROVE  i = j
<1>1. CASE i = 2 /\ j = 1
  BY <1>1, QueueFacts DEF LifeInv, DtorsInPlace, ItemsInOrder, Dtor
<1>2. CASE i = 1 /\ j = 2
  BY <1>2, QueueFacts DEF LifeInv, DtorsInPlace, ItemsInOrder, Dtor
<1> QED
  BY <1>1, <1>2 DEF LifeInv, DtorsInPlace, Dtor

-----------------------------------------------------------------------------
LEMMA InitLife == Init => LifeInv
<1> SUFFICES ASSUME Init PROVE LifeInv
  OBVIOUS
<1>1. TypeOK
  <2>1. me \in [All -> BOOLEAN] /\ isDestroyed \in [All -> BOOLEAN]
    BY DEF Init
  <2>2. /\ destroyedOnce \in [Singletons -> BOOLEAN]
        /\ late \in [Singletons -> BOOLEAN] /\ failed \in [Singletons -> BOOLEAN]
    BY DEF Init
  <2>3. stack \in Seq(Frame) /\ handlers \in Seq(All) /\ items \in Seq(Singletons)
    BY DEF Init
  <2>4. budget \in 0 .. MainUses /\ cursor \in Nat
    BY DEF Init
  <2>5. /\ phase \in {"running", "exiting", "ended", "terminated"} /\ raised \in BOOLEAN
        /\ missed \subseteq Singletons \X Singletons
    BY Zenon DEF Init
  <2> QED
    BY <2>1, <2>2, <2>3, <2>4, <2>5, Zenon DEF TypeOK
<1>2. /\ Len(items) = 0 /\ DOMAIN items = {} /\ DOMAIN stack = {} /\ DOMAIN handlers = {}
  BY DEF Init
<1>3. /\ \A s \in All : ~me[s] /\ ~isDestroyed[s]
      /\ \A s \in Singletons : ~destroyedOnce[s]
      /\ Singletons \subseteq All /\ Tracker \in All
  BY DEF Init, All
<1>4. DtorsInPlace /\ CtorsInPlace /\ HandlersInOrder
  BY <1>2 DEF DtorsInPlace, CtorsInPlace, HandlersInOrder
<1>5. ItemsInOrder
  BY <1>2 DEF ItemsInOrder, Init
<1>6. AllScheduled /\ NoDeathsBeforeExit /\ DeadInOrder
  BY <1>2, <1>3 DEF AllScheduled, NoDeathsBeforeExit, DeadInOrder, WithLongevity, Init
<1>7. EndOfLife /\ LongerLivedUsable
  BY DEF EndOfLife, LongerLivedUsable, Init
<1> QED
  BY <1>1, <1>3, <1>4, <1>5, <1>6, <1>7 DEF LifeInv

-----------------------------------------------------------------------------
(* The first n frames stay what they are.                                    *)
Kept(n) == \A i \in 1 .. n : stack'[i].kind = stack[i].kind /\ stack'[i].of = stack[i].of

\* inst() costs the caller one of its uses and nothing else.
LEMMA UsedFacts ==
  ASSUME TypeOK, CanUse
  PROVE  /\ Used \in Seq(Frame) /\ Len(Used) = Len(stack)
         /\ \A i \in 1 .. Len(stack) : Used[i].kind = stack[i].kind /\ Used[i].of = stack[i].of
         /\ Spend => budget' \in 0 .. MainUses
<1>1. stack \in Seq(Frame) /\ budget \in 0 .. MainUses
  BY DEF TypeOK
<1>2. CASE stack = <<>>
  BY <1>1, <1>2 DEF CanUse, Used, Spend
<1>3. CASE stack # <<>>
  <2> DEFINE n == Len(stack)
             f == [stack[n] EXCEPT !.uses = @ - 1]
  <2>1. n \in Nat /\ n >= 1 /\ n \in DOMAIN stack /\ DOMAIN stack = 1 .. n
    BY <1>1, <1>3
  <2>2. stack[n] \in Frame
    BY <1>1, <2>1
  <2>3. stack[n].uses \in 0 .. FrameUses /\ stack[n].uses > 0
    BY <1>3, <2>2 DEF CanUse, Top, Frame
  <2>4. f \in Frame /\ f.kind = stack[n].kind /\ f.of = stack[n].of
    BY <2>2, <2>3 DEF Frame
  <2>5. Used = [stack EXCEPT ![n] = f]
    BY <1>3 DEF Used
  <2> HIDE DEF f
  <2>6. Used \in Seq(Frame) /\ Len(Used) = n
    BY <1>1, <2>1, <2>4, <2>5
  <2>7. \A i \in 1 .. n : Used[i] = IF i = n THEN f ELSE stack[i]
    BY <1>1, <2>1, <2>5
  <2>8. Spend => budget' \in 0 .. MainUses
    BY <1>1, <1>3 DEF Spend
  <2> QED
    BY <2>4, <2>6, <2>7, <2>8
<1> QED
  BY <1>2, <1>3


LEMMA TopFacts ==
  ASSUME TypeOK, stack # <<>>
  PROVE  /\ Top = stack[Len(stack)] /\ Len(stack) \in DOMAIN stack
         /\ Top.kind \in {"ctor", "dtor"} /\ Top.of \in All
BY StackFacts DEF Top

\* The constructors that run, and the destructors but for the top, after a push.
LEMMA KeptFrames ==
  ASSUME TypeOK, TypeOK', NEW n \in Nat, n <= Len(stack), n <= Len(stack'), Kept(n)
  PROVE  /\ \A i \in 1 .. n : i \in DOMAIN stack /\ i \in DOMAIN stack'
         /\ \A i \in 1 .. n : \A s : Dtor(i, s)' <=> Dtor(i, s)
BY StackFacts DEF Kept, Dtor

LEMMA SameDying ==
  ASSUME TypeOK, TypeOK', Len(stack') = Len(stack), Kept(Len(stack))
  PROVE  /\ \A s : Dying(s)' <=> Dying(s)
         /\ TrackerDies' <=> TrackerDies
<1>1. /\ DOMAIN stack' = DOMAIN stack
      /\ \A i \in DOMAIN stack : \A s : Dtor(i, s)' <=> Dtor(i, s)
  BY StackFacts DEF Kept, Dtor
<1>2. stack' # <<>> <=> stack # <<>>
  BY StackFacts
<1>3. stack # <<>> => 1 \in DOMAIN stack
  BY StackFacts
<1> QED
  BY <1>1, <1>2, <1>3 DEF Dying, TrackerDies

\* Steps that neither make nor destroy anything: uses, exceptions, and the phases of the process.
LEMMA QuietSteps ==
  ASSUME LifeInv, TypeOK', EndOfLife', LongerLivedUsable',
         Len(stack') = Len(stack), Kept(Len(stack)), phase' = "running" => phase = "running",
         UNCHANGED <<me, isDestroyed, destroyedOnce, handlers, items, cursor, late, failed>>
  PROVE  LifeInv'
<1>1. /\ TypeOK /\ DOMAIN stack' = DOMAIN stack /\ DOMAIN stack = 1 .. Len(stack)
      /\ \A i \in DOMAIN stack : stack'[i].kind = stack[i].kind /\ stack'[i].of = stack[i].of
  BY StackFacts DEF LifeInv, Kept
<1>2. \A s : Dying(s)' <=> Dying(s)
  BY <1>1, SameDying DEF LifeInv
<1>3. TrackerDies' <=> TrackerDies
  BY <1>1, SameDying DEF LifeInv
<1>4. DtorsInPlace'
  <2> SUFFICES ASSUME NEW i \in DOMAIN stack', stack'[i].kind = "dtor"
               PROVE  /\ phase' # "running"
                      /\ Lives(stack[i].of)
                      /\ \/ i = 1 /\ stack[i].of \notin WithLongevity
                         \/ i = 2 /\ TrackerDies /\ cursor > 0 /\ stack[i].of = items[cursor]
    BY <1>1, <1>3 DEF DtorsInPlace, Lives, WithLongevity
  <2> QED
    BY <1>1 DEF LifeInv, DtorsInPlace
<1>5. CtorsInPlace'
  BY <1>1 DEF LifeInv, CtorsInPlace
<1>6. HandlersInOrder'
  BY <1>2 DEF LifeInv, HandlersInOrder, Lives, WithLongevity
<1>7. ItemsInOrder'
  BY DEF LifeInv, ItemsInOrder, Lives, WithLongevity
<1>8. AllScheduled'
  BY <1>2, <1>3 DEF LifeInv, AllScheduled, Registered, Tracked
<1>9. NoDeathsBeforeExit' /\ DeadInOrder'
  BY DEF LifeInv, NoDeathsBeforeExit, DeadInOrder, WithLongevity
<1>10. (\A s \in All : me[s] => ~isDestroyed[s])'
  BY DEF LifeInv
<1> QED
  BY <1>4, <1>5, <1>6, <1>7, <1>8, <1>9, <1>10 DEF LifeInv

LEMMA UseInstanceKeeps ==
  ASSUME LifeInv, NEW s \in Singletons, UseInstance(s)
  PROVE  LifeInv'
<1>1. TypeOK'
  <2>1. stack' \in Seq(Frame) /\ budget' \in 0 .. MainUses
    BY UsedFacts DEF LifeInv, UseInstance
  <2> QED
    BY <2>1 DEF LifeInv, UseInstance, TypeOK
<1>2. Len(stack') = Len(stack) /\ Kept(Len(stack))
  BY UsedFacts DEF LifeInv, UseInstance, Kept
<1>3. EndOfLife' /\ LongerLivedUsable'
  <2>1. stack' = <<>> <=> stack = <<>>
    BY <1>1, <1>2, StackFacts DEF LifeInv
  <2> QED
    BY <2>1 DEF LifeInv, EndOfLife, LongerLivedUsable, UseInstance
<1> QED
  BY <1>1, <1>2, <1>3, QuietSteps DEF UseInstance

\* The destructor of a longer-lived singleton cannot have run before this one.
LEMMA DeadBeforeDying ==
  ASSUME LifeInv, stack # <<>>, Top.kind = "dtor", Top.of \in WithLongevity,
         NEW s \in WithLongevity, isDestroyed[s], ~failed[s]
  PROVE  Longevity[s] <= Longevity[Top.of]
<1>1. /\ Len(stack) \in DOMAIN stack /\ Top = stack[Len(stack)]
  BY TopFacts DEF LifeInv
<1>2. cursor > 0 /\ Top.of = items[cursor]
  BY <1>1 DEF LifeInv, DtorsInPlace
<1>3. PICK i \in 1 .. cursor : items[i] = s
  BY DEF LifeInv, DeadInOrder
<1>4. i \in DOMAIN items /\ cursor \in DOMAIN items /\ cursor \in Nat
  BY <1>2, QueueFacts DEF LifeInv, ItemsInOrder
<1>5. CASE i = cursor
  BY <1>2, <1>3, <1>5 DEF WithLongevity
<1>6. CASE i # cursor
  <2>1. i < cursor
    BY <1>4, <1>6
  <2> QED
    BY <1>2, <1>3, <1>4, <2>1 DEF LifeInv, ItemsInOrder
<1> QED
  BY <1>5, <1>6

LEMMA UseDeadKeeps ==
  ASSUME LifeInv, NEW s \in Singletons, UseDead(s)
  PROVE  LifeInv'
<1>1. ASSUME InFrame("dtor")
      PROVE  missed' \subseteq Singletons \X Singletons /\ LongerLivedUsable'
  <2>1. Top.of \in Singletons
    BY <1>1, TopFacts DEF LifeInv, UseDead, CanUse, InFrame, All
  <2>2. missed' = missed \cup {<<Top.of, s>>}
    BY <1>1 DEF UseDead
  <2>3. ASSUME Policy[Top.of] = "longevity", Policy[s] = "longevity",
               Longevity[Top.of] < Longevity[s]
        PROVE  failed[s]
    <3>1. Top.of \in WithLongevity /\ s \in WithLongevity
      BY <2>1, <2>3 DEF WithLongevity
    <3>2. ~failed[s] => Longevity[s] <= Longevity[Top.of]
      BY <1>1, <3>1, DeadBeforeDying DEF InFrame, UseDead
    <3>3. Longevity[s] \in Nat /\ Longevity[Top.of] \in Nat
      BY <2>1
    <3> QED
      BY <2>3, <3>2, <3>3
  <2>4. missed' \subseteq Singletons \X Singletons
    BY <2>1, <2>2 DEF LifeInv, TypeOK
  <2>5. LongerLivedUsable'
    <3>1. \A p \in missed : Policy[p[1]] = "longevity" /\ Policy[p[2]] = "longevity"
                              /\ Longevity[p[1]] < Longevity[p[2]] => failed[p[2]]
      BY DEF LifeInv, LongerLivedUsable
    <3>2. failed' = failed
      BY DEF UseDead
    <3> QED
      BY <2>2, <2>3, <3>1, <3>2 DEF LongerLivedUsable
  <2> QED
    BY <2>4, <2>5
<1>2. ASSUME ~InFrame("dtor")
      PROVE  missed' \subseteq Singletons \X Singletons /\ LongerLivedUsable'
  <2>1. missed' = missed /\ failed' = failed
    BY <1>2 DEF UseDead
  <2> QED
    BY <2>1 DEF LifeInv, LongerLivedUsable, TypeOK
<1>3. TypeOK'
  <2>1. stack' \in Seq(Frame) /\ budget' \in 0 .. MainUses
    BY UsedFacts DEF LifeInv, UseDead
  <2> QED
    BY <1>1, <1>2, <2>1 DEF LifeInv, UseDead, TypeOK
<1>4. Len(stack') = Len(stack) /\ Kept(Len(stack))
  BY UsedFacts DEF LifeInv, UseDead, Kept
<1>5. EndOfLife'
  BY DEF LifeInv, EndOfLife, UseDead, CanUse
<1> QED
  BY <1>1, <1>2, <1>3, <1>4, <1>5, QuietSteps DEF UseDead


\* Catch, Terminate, Exit and End.
LEMMA PhasesKeep ==
  ASSUME LifeInv, Catch \/ Terminate \/ Exit \/ End
  PROVE  LifeInv'
<1>1. UNCHANGED <<stack, budget, me, isDestroyed, destroyedOnce, handlers, items, cursor, late,
                  failed, missed>>
  BY DEF Catch, Terminate, Exit, End
<1>2. phase' \in {"running", "exiting", "ended", "terminated"} /\ raised' \in BOOLEAN
  BY DEF LifeInv, TypeOK, Catch, Terminate, Exit, End
<1>3. TypeOK'
  BY <1>1, <1>2 DEF LifeInv, TypeOK
<1>4. EndOfLife'
  BY DEF LifeInv, EndOfLife, Catch, Terminate, Exit, End
<1>5. phase' = "running" => phase = "running"
  BY DEF Catch, Terminate, Exit, End
<1>6. LongerLivedUsable' /\ Len(stack') = Len(stack) /\ Kept(Len(stack))
  BY <1>1 DEF LifeInv, LongerLivedUsable, Kept
<1> QED
  BY <1>1, <1>3, <1>4, <1>5, <1>6, QuietSteps

-----------------------------------------------------------------------------
(* Construction.                                                             *)

\* A frame on top of those that run.
LEMMA PushedFrames ==
  ASSUME TypeOK, TypeOK', NEW f \in Frame, Len(stack') = Len(stack) + 1, Kept(Len(stack)),
         stack'[Len(stack) + 1].kind = f.kind, stack'[Len(stack) + 1].of = f.of
  PROVE  /\ DOMAIN stack' = 1 .. Len(stack) + 1 /\ stack' # <<>>
         /\ \A i \in DOMAIN stack : i \in DOMAIN stack' /\ i # Len(stack) + 1
         /\ \A i \in DOMAIN stack' : i \in DOMAIN stack \/ i = Len(stack) + 1
         /\ \A s : Dying(s)' <=> Dying(s) \/ (f.kind = "dtor" /\ f.of = s)
         /\ TrackerDies => TrackerDies'
<1> DEFINE n == Len(stack)
<1>1. /\ n \in Nat /\ DOMAIN stack = 1 .. n /\ DOMAIN stack' = 1 .. n + 1 /\ stack' # <<>>
  BY StackFacts
<1>2. \A i \in 1 .. n : \A s : Dtor(i, s)' <=> Dtor(i, s)
  BY DEF Kept, Dtor
<1>3. \A i \in {n + 1} : \A s : Dtor(i, s)' <=> f.kind = "dtor" /\ f.of = s
  BY DEF Dtor
<1>4. \A i \in 1 .. n + 1 : i \in 1 .. n \/ i = n + 1
  BY <1>1
<1>5. \A i \in 1 .. n : i \in 1 .. n + 1 /\ i # n + 1
  BY <1>1
<1> HIDE DEF n
<1>6. \A s : Dying(s)' <=> Dying(s) \/ (f.kind = "dtor" /\ f.of = s)
  <2> TAKE s
  <2>1. Dying(s)' <=> \E i \in 1 .. n + 1 : Dtor(i, s)'
    BY <1>1 DEF Dying, Dtor
  <2>2. Dying(s) <=> \E i \in 1 .. n : Dtor(i, s)
    BY <1>1 DEF Dying
  <2>3. n + 1 \in 1 .. n + 1
    BY <1>1
  <2> QED
    BY <1>2, <1>3, <1>4, <1>5, <2>1, <2>2, <2>3
<1>7. TrackerDies => TrackerDies'
  <2>1. stack # <<>> => 1 \in 1 .. n
    BY StackFacts, <1>1
  <2> QED
    BY <1>1, <1>2, <2>1 DEF TrackerDies
<1> QED
  BY <1>1, <1>4, <1>5, <1>6, <1>7 DEF n

LEMMA UseFirstKeeps ==
  ASSUME LifeInv, NEW s \in Singletons, UseFirst(s)
  PROVE  LifeInv'
<1> DEFINE f == [kind |-> "ctor", of |-> s, uses |-> FrameUses]
           n == Len(stack)
<1>1. /\ UNCHANGED <<phase, raised, me, handlers, items, cursor, late, failed, missed>>
      /\ CanUse /\ ~me[s] /\ ~Constructing(s) /\ stack' = Append(Used, f) /\ Spend
      /\ isDestroyed' = [isDestroyed EXCEPT ![s] = FALSE]
      /\ destroyedOnce' = [destroyedOnce EXCEPT ![s] = @ \/ isDestroyed[s]]
  BY DEF UseFirst
<1>2. f \in Frame /\ f.kind = "ctor" /\ f.of = s
  BY DEF Frame, All
<1>3. /\ Used \in Seq(Frame) /\ Len(Used) = n /\ budget' \in 0 .. MainUses
      /\ \A i \in 1 .. n : Used[i].kind = stack[i].kind /\ Used[i].of = stack[i].of
  BY <1>1, UsedFacts DEF LifeInv
<1> HIDE DEF f
<1>4. /\ stack' \in Seq(Frame) /\ Len(stack') = n + 1 /\ stack'[n + 1] = f
      /\ \A i \in 1 .. n : stack'[i] = Used[i]
  <2> HIDE DEF n
  <2> QED
    BY <1>1, <1>2, <1>3, AppendFacts
<1>5. TypeOK'
  <2>1. isDestroyed' \in [All -> BOOLEAN] /\ destroyedOnce' \in [Singletons -> BOOLEAN]
    BY <1>1 DEF LifeInv, TypeOK
  <2> QED
    BY <1>1, <1>3, <1>4, <2>1 DEF LifeInv, TypeOK
<1>6. /\ Kept(n)
      /\ \A t \in All : isDestroyed'[t] = IF t = s THEN FALSE ELSE isDestroyed[t]
      /\ \A t \in Singletons : destroyedOnce'[t] =
            IF t = s THEN destroyedOnce[s] \/ isDestroyed[s] ELSE destroyedOnce[t]
  BY <1>1, <1>3, <1>4 DEF LifeInv, TypeOK, Kept, All
<1>7. /\ DOMAIN stack' = 1 .. n + 1 /\ DOMAIN stack = 1 .. n /\ n \in Nat /\ stack' # <<>>
      /\ \A i \in DOMAIN stack : i \in DOMAIN stack' /\ i # n + 1
      /\ \A i \in DOMAIN stack' : i \in DOMAIN stack \/ i = n + 1
      /\ \A t : Dying(t)' <=> Dying(t)
      /\ TrackerDies => TrackerDies'
  BY <1>2, <1>4, <1>5, <1>6, PushedFrames, StackFacts DEF LifeInv
<1>8. \A i \in DOMAIN stack : stack'[i].kind = stack[i].kind /\ stack'[i].of = stack[i].of
  BY <1>6, <1>7 DEF Kept
<1>9. stack'[n + 1].kind = "ctor" /\ stack'[n + 1].of = s
  BY <1>2, <1>4
<1>10. \A t \in All : Lives(t) => Lives(t)'
  BY <1>1, <1>6 DEF Lives
<1>11. s \in All /\ \A t \in Singletons : t \in All
  BY DEF All
<1> HIDE DEF n
<1>12. DtorsInPlace'
  <2> SUFFICES ASSUME NEW i \in DOMAIN stack', stack'[i].kind = "dtor"
               PROVE  /\ phase # "running"
                      /\ Lives(stack[i].of)'
                      /\ \/ i = 1 /\ stack'[i].of \notin WithLongevity
                         \/ i = 2 /\ TrackerDies' /\ cursor > 0 /\ stack'[i].of = items[cursor]
    BY <1>1 DEF DtorsInPlace, Lives, WithLongevity
  <2>1. i \in DOMAIN stack /\ stack[i].kind = "dtor" /\ stack[i].of \in All
    BY <1>7, <1>8, <1>9, StackFacts DEF LifeInv
  <2> QED
    BY <1>7, <1>8, <1>10, <2>1 DEF LifeInv, DtorsInPlace
<1>13. CtorsInPlace'
  <2>1. ASSUME NEW i \in DOMAIN stack, stack[i].kind = "ctor"
        PROVE  stack[i].of \in Singletons /\ stack[i].of # s /\ ~me[stack[i].of]
               /\ ~isDestroyed[stack[i].of]
    BY <1>1, <1>7, <2>1 DEF LifeInv, CtorsInPlace, Constructing, n
  <2>2. \A i, j \in DOMAIN stack :
          stack[i].kind = "ctor" /\ stack[j].kind = "ctor" /\ stack[i].of = stack[j].of => i = j
    BY DEF LifeInv, CtorsInPlace
  <2>3. ASSUME NEW i \in DOMAIN stack', stack'[i].kind = "ctor"
        PROVE  /\ stack'[i].of \in Singletons /\ ~me[stack'[i].of] /\ ~isDestroyed'[stack'[i].of]
               /\ i # n + 1 => stack'[i].of # s
    <3>1. CASE i = n + 1
      BY <1>1, <1>6, <1>9, <1>11, <3>1
    <3>2. CASE i # n + 1
      <4>1. i \in DOMAIN stack /\ stack'[i].of = stack[i].of /\ stack[i].kind = "ctor"
        BY <1>7, <1>8, <2>3, <3>2
      <4> QED
        BY <1>1, <1>6, <1>11, <2>1, <4>1
    <3> QED
      BY <3>1, <3>2
  <2>4. \A i, j \in DOMAIN stack' :
          stack'[i].kind = "ctor" /\ stack'[j].kind = "ctor" /\ stack'[i].of = stack'[j].of => i = j
    BY <1>7, <1>8, <1>9, <2>2, <2>3
  <2> QED
    BY <1>1, <2>3, <2>4 DEF CtorsInPlace
<1>14. HandlersInOrder'
  BY <1>1, <1>7, <1>10, QueueFacts DEF LifeInv, HandlersInOrder, WithLongevity
<1>15. ItemsInOrder'
  <2>1. \A i \in DOMAIN items : items[i] \in All
    BY <1>11, QueueFacts DEF LifeInv
  <2>2. \A i \in DOMAIN items : me[items[i]] \/ isDestroyed'[items[i]]
    <3>1. Policy[s] = "longevity" => ~isDestroyed[s]
      BY DEF UseFirst
    <3>2. \A i \in DOMAIN items : items[i] \in WithLongevity /\ (me[items[i]] \/ isDestroyed[items[i]])
      BY DEF LifeInv, ItemsInOrder
    <3> QED
      BY <1>6, <2>1, <3>1, <3>2 DEF WithLongevity
  <2> QED
    BY <1>1, <1>10, <2>1, <2>2 DEF LifeInv, ItemsInOrder, WithLongevity
<1>16. AllScheduled'
  BY <1>1, <1>7 DEF LifeInv, AllScheduled, Registered, Tracked
<1>17. NoDeathsBeforeExit'
  <2>1. Tracker # s /\ Tracker \in All
    BY DEF All
  <2> QED
    BY <1>1, <1>6, <1>11, <2>1 DEF LifeInv, NoDeathsBeforeExit
<1>18. DeadInOrder'
  BY <1>1, <1>6, <1>11 DEF LifeInv, DeadInOrder, WithLongevity
<1>19. EndOfLife' /\ LongerLivedUsable'
  BY <1>1 DEF LifeInv, EndOfLife, LongerLivedUsable, CanUse
<1>20. (\A t \in All : me[t] => ~isDestroyed[t])'
  BY <1>1, <1>6 DEF LifeInv
<1> QED
  BY <1>5, <1>12, <1>13, <1>14, <1>15, <1>16, <1>17, <1>18, <1>19, <1>20 DEF LifeInv


\* The frames that are left when the top returns.
LEMMA PoppedFrames ==
  ASSUME TypeOK, stack # <<>>, stack' = Front(stack)
  PROVE  /\ stack' \in Seq(Frame) /\ DOMAIN stack' = 1 .. Len(stack) - 1
         /\ \A i \in DOMAIN stack' : i \in DOMAIN stack /\ i # Len(stack) /\ stack'[i] = stack[i]
         /\ \A i \in DOMAIN stack : i \in DOMAIN stack' \/ i = Len(stack)
         /\ \A s : Dying(s) <=> Dying(s)' \/ Dtor(Len(stack), s)
         /\ TrackerDies => TrackerDies' \/ (Len(stack) = 1 /\ Dtor(Len(stack), Tracker))
<1> DEFINE n == Len(stack)
<1>1. /\ stack \in Seq(Frame) /\ n \in Nat /\ n >= 1 /\ DOMAIN stack = 1 .. n
  BY StackFacts
<1>2. /\ stack' \in Seq(Frame) /\ Len(stack') = n - 1 /\ \A i \in 1 .. n - 1 : stack'[i] = stack[i]
  BY <1>1, FrontFacts
<1>3. DOMAIN stack' = 1 .. n - 1
  BY <1>2
<1> HIDE DEF n
<1>4. \A i \in 1 .. n - 1 : i \in 1 .. n /\ i # n
  BY <1>1
<1>5. \A i \in 1 .. n : i \in 1 .. n - 1 \/ i = n
  BY <1>1
<1>6. \A s : Dying(s) <=> Dying(s)' \/ Dtor(n, s)
  <2> TAKE s
  <2>1. Dying(s)' <=> \E i \in 1 .. n - 1 : Dtor(i, s)
    BY <1>2, <1>3 DEF Dying, Dtor
  <2>2. Dying(s) <=> \E i \in 1 .. n : Dtor(i, s)
    BY <1>1 DEF Dying
  <2> QED
    BY <1>1, <1>4, <1>5, <2>1, <2>2
<1>7. TrackerDies => TrackerDies' \/ (n = 1 /\ Dtor(n, Tracker))
  <2>1. CASE n = 1
    BY <2>1 DEF TrackerDies
  <2>2. CASE n # 1
    <3>1. 1 \in 1 .. n - 1 /\ Len(stack') # 0
      BY <1>1, <1>2, <2>2
    <3> QED
      BY <1>2, <3>1 DEF TrackerDies, Dtor
  <2> QED
    BY <2>1, <2>2
<1> QED
  BY <1>1, <1>2, <1>3, <1>4, <1>5, <1>6, <1>7 DEF n

\* A constructor on top is that of a singleton that does not exist yet.
LEMMA BeingConstructed ==
  ASSUME LifeInv, InFrame("ctor")
  PROVE  /\ stack # <<>> /\ Top.of \in Singletons /\ ~me[Top.of] /\ ~isDestroyed[Top.of]
         /\ ~Dying(Top.of) /\ ~Registered(Top.of) /\ \A i \in DOMAIN items : items[i] # Top.of
         /\ \A i \in DOMAIN stack : stack[i].kind = "ctor" /\ i # Len(stack) => stack[i].of # Top.of
         /\ \A i \in DOMAIN stack : stack[i].kind = "dtor" => i # Len(stack)
         /\ phase # "ended"
<1>1. /\ stack # <<>> /\ Top = stack[Len(stack)] /\ Top.kind = "ctor" /\ Len(stack) \in DOMAIN stack
  BY TopFacts DEF LifeInv, InFrame
<1>2. Top.of \in Singletons /\ ~me[Top.of] /\ ~isDestroyed[Top.of]
  BY <1>1 DEF LifeInv, CtorsInPlace
<1>3. ~Dying(Top.of)
  BY <1>2 DEF LifeInv, DtorsInPlace, Dying, Dtor, Lives
<1>4. ~Registered(Top.of)
  BY <1>2 DEF LifeInv, HandlersInOrder, Registered, Lives
<1>5. \A i \in DOMAIN items : items[i] # Top.of
  BY <1>2 DEF LifeInv, ItemsInOrder
<1>6. \A i \in DOMAIN stack : stack[i].kind = "ctor" /\ i # Len(stack) => stack[i].of # Top.of
  BY <1>1 DEF LifeInv, CtorsInPlace
<1> QED
  BY <1>1, <1>2, <1>3, <1>4, <1>5, <1>6 DEF LifeInv, EndOfLife

\* What the return of a constructor leaves, however its singleton is scheduled: the items may have
\* grown, but the one the tracker has reached is where its destructor looks for it.
LEMMA CtorDone ==
  ASSUME LifeInv, TypeOK', InFrame("ctor"), ~raised, stack' = Front(stack),
         UNCHANGED <<phase, budget, isDestroyed, destroyedOnce, failed, missed>>,
         \A t \in All : me[t] => me'[t],
         \A t \in All : me'[t] => me[t] \/ t = Top.of \/ (t = Tracker /\ ~isDestroyed[t]),
         cursor > 0 => cursor' > 0 /\ items'[cursor'] = items[cursor]
  PROVE  /\ DtorsInPlace' /\ CtorsInPlace' /\ EndOfLife' /\ LongerLivedUsable'
         /\ (\A t \in All : me[t] => ~isDestroyed[t])'
         /\ \A t : Dying(t)' <=> Dying(t)
         /\ TrackerDies => TrackerDies'
         /\ \A t \in All : Lives(t) => Lives(t)'
<1> DEFINE s == Top.of
           n == Len(stack)
<1>1. /\ s \in Singletons /\ s \in All /\ ~me[s] /\ ~isDestroyed[s] /\ phase # "ended"
      /\ stack # <<>>
      /\ \A i \in DOMAIN stack : stack[i].kind = "ctor" /\ i # n => stack[i].of # s
      /\ \A i \in DOMAIN stack : stack[i].kind = "dtor" => i # n
  BY BeingConstructed DEF All
<1>2. /\ \A i \in DOMAIN stack' : i \in DOMAIN stack /\ i # n /\ stack'[i] = stack[i]
      /\ n \in DOMAIN stack
      /\ \A t : Dying(t) <=> Dying(t)' \/ Dtor(n, t)
      /\ TrackerDies => TrackerDies' \/ Dtor(n, Tracker)
  BY <1>1, PoppedFrames, TopFacts DEF LifeInv
<1>3. \A t : ~Dtor(n, t)
  BY <1>1, <1>2 DEF Dtor
<1> HIDE DEF s, n
<1>4. \A t \in All : Lives(t) => Lives(t)'
  BY DEF Lives
<1>5. DtorsInPlace'
  <2> SUFFICES ASSUME NEW i \in DOMAIN stack', stack'[i].kind = "dtor"
               PROVE  /\ phase # "running"
                      /\ Lives(stack[i].of)'
                      /\ \/ i = 1 /\ stack[i].of \notin WithLongevity
                         \/ i = 2 /\ TrackerDies' /\ cursor' > 0 /\ stack[i].of = items'[cursor']
    BY <1>2 DEF DtorsInPlace, Lives, WithLongevity
  <2>1. i \in DOMAIN stack /\ stack[i].kind = "dtor" /\ stack[i].of \in All
    BY <1>2, StackFacts DEF LifeInv
  <2>2. phase # "running" /\ Lives(stack[i].of)
    BY <2>1 DEF LifeInv, DtorsInPlace
  <2>3. \/ i = 1 /\ stack[i].of \notin WithLongevity
        \/ i = 2 /\ TrackerDies /\ cursor > 0 /\ stack[i].of = items[cursor]
    BY <2>1 DEF LifeInv, DtorsInPlace
  <2>4. Lives(stack[i].of)'
    BY <1>2, <2>1, <2>2 DEF Lives
  <2> QED
    BY <1>2, <1>3, <2>2, <2>3, <2>4
<1>6. CtorsInPlace'
  <2>1. ASSUME NEW i \in DOMAIN stack', stack'[i].kind = "ctor"
        PROVE  stack[i].of \in Singletons /\ ~me'[stack[i].of] /\ ~isDestroyed[stack[i].of]
    <3>1. i \in DOMAIN stack /\ stack[i].kind = "ctor" /\ stack[i].of # s
      BY <1>1, <1>2, <2>1
    <3>2. stack[i].of \in Singletons /\ ~me[stack[i].of] /\ ~isDestroyed[stack[i].of]
      BY <3>1 DEF LifeInv, CtorsInPlace
    <3>3. stack[i].of \in All /\ stack[i].of # Tracker
      BY <3>2 DEF All
    <3> QED
      BY <3>1, <3>2, <3>3 DEF s
  <2>2. \A i, j \in DOMAIN stack' :
          stack'[i].kind = "ctor" /\ stack'[j].kind = "ctor" /\ stack'[i].of = stack'[j].of => i = j
    BY <1>2 DEF LifeInv, CtorsInPlace
  <2> QED
    BY <1>2, <2>1, <2>2 DEF CtorsInPlace
<1>7. EndOfLife' /\ LongerLivedUsable'
  BY <1>1 DEF LifeInv, EndOfLife, LongerLivedUsable
<1>8. (\A t \in All : me[t] => ~isDestroyed[t])'
  BY <1>1 DEF LifeInv, s
<1> QED
  BY <1>2, <1>3, <1>4, <1>5, <1>6, <1>7, <1>8

\* Handlers stay in order when one is registered for what was just made.
LEMMA RegisterKeeps ==
  ASSUME LifeInv, TypeOK', NEW s \in All, ~Registered(s), s \notin WithLongevity, Lives(s)', ~Dying(s),
         handlers' = Append(handlers, s),
         \A t : Dying(t)' <=> Dying(t), \A t \in All : Lives(t) => Lives(t)'
  PROVE  /\ HandlersInOrder'
         /\ Registered(s)' /\ \A t : Registered(t) => Registered(t)'
<1> DEFINE k == Len(handlers)
<1>1. /\ k \in Nat /\ DOMAIN handlers = 1 .. k /\ DOMAIN handlers' = 1 .. k + 1
      /\ \A i \in 1 .. k : handlers'[i] = handlers[i]
      /\ handlers'[k + 1] = s
  BY DEF LifeInv, TypeOK
<1>2. \A i \in 1 .. k : handlers[i] # s /\ handlers[i] \in All
  BY <1>1, QueueFacts DEF Registered, LifeInv
<1> HIDE DEF k
<1>3. \A i \in 1 .. k + 1 : i \in 1 .. k \/ i = k + 1
  BY <1>1
<1>4. \A i \in 1 .. k : i \in 1 .. k + 1
  BY <1>1
<1>5. \A i \in 1 .. k : /\ handlers[i] \notin WithLongevity /\ Lives(handlers[i])
                        /\ ~Dying(handlers[i])
                        /\ \A j \in 1 .. k : handlers[i] = handlers[j] => i = j
  BY <1>1 DEF LifeInv, HandlersInOrder
<1>6. ASSUME NEW i \in 1 .. k + 1
      PROVE  /\ handlers'[i] \notin WithLongevity
             /\ \A t : t = handlers'[i] => Lives(t)' /\ ~Dying(t)'
             /\ \A j \in 1 .. k + 1 : handlers'[i] = handlers'[j] => i = j
  BY <1>1, <1>2, <1>3, <1>5
<1>7. HandlersInOrder'
  BY <1>1, <1>6 DEF HandlersInOrder, WithLongevity, Lives, Dying, Dtor
<1>8. Registered(s)' /\ \A t : Registered(t) => Registered(t)'
  <2>1. k + 1 \in 1 .. k + 1
    BY <1>1
  <2> QED
    BY <1>1, <1>4, <2>1 DEF Registered
<1> QED
  BY <1>7, <1>8


LEMMA CtorReturnsType ==
  ASSUME LifeInv, CtorReturns, handlers' \in Seq(All), items' \in Seq(Singletons), cursor' \in Nat,
         me' \in [All -> BOOLEAN], raised' \in BOOLEAN
  PROVE  TypeOK'
<1>1. stack' \in Seq(Frame)
  BY BeingConstructed, PoppedFrames DEF LifeInv, CtorReturns
<1>2. late' \in [Singletons -> BOOLEAN]
  BY DEF LifeInv, TypeOK, CtorReturns
<1> QED
  BY <1>1, <1>2 DEF LifeInv, TypeOK, CtorReturns

\* What a constructor made is late or will be destroyed; the rest of the schedule is as before.
LEMMA AllStillScheduled ==
  ASSUME LifeInv, CtorReturns, NEW s \in Singletons, s = Top.of,
         \A t \in All : me'[t] => me[t] \/ t = s \/ (t = Tracker /\ Registered(t)'),
         \A t \in Singletons : Registered(t) \/ Tracked(t) => Registered(t)' \/ Tracked(t)',
         Registered(Tracker) => Registered(Tracker)',
         \A t : Dying(t)' <=> Dying(t), TrackerDies => TrackerDies',
         cursor' < Len(items') => me'[Tracker],
         \/ Registered(s)' \/ Tracked(s)' \/ phase # "running"
         \/ Policy[s] = "phoenix" /\ failed[s]
  PROVE  AllScheduled'
<1>1. /\ \A t \in Singletons : late'[t] = IF t = s THEN phase = "exiting" ELSE late[t]
      /\ failed' = failed /\ phase \in {"running", "exiting"}
  BY BeingConstructed DEF LifeInv, TypeOK, CtorReturns, EndOfLife
<1>2. \A t \in Singletons : t \in All /\ t # Tracker
  BY DEF All
<1>3. ASSUME NEW t \in Singletons, me'[t], ~late'[t], ~(Policy[t] = "phoenix" /\ failed'[t])
      PROVE  Registered(t)' \/ Tracked(t)' \/ Dying(t)'
  <2>1. CASE t = s
    BY <1>1, <1>3, <2>1
  <2>2. CASE t # s
    <3>1. me[t] /\ ~late[t] /\ ~(Policy[t] = "phoenix" /\ failed[t])
      BY <1>1, <1>2, <1>3, <2>2
    <3> QED
      BY <3>1 DEF LifeInv, AllScheduled
  <2> QED
    BY <2>1, <2>2
<1>4. me'[Tracker] => Registered(Tracker)' \/ TrackerDies'
  <2>1. Tracker \in All /\ Tracker # s
    BY <1>2 DEF All
  <2> QED
    BY <2>1 DEF LifeInv, AllScheduled
<1> QED
  BY <1>3, <1>4 DEF AllScheduled

\* The default policy, a Phoenix in either life, and a longevity after the tracker's death.
LEMMA OtherPolicies ==
  ASSUME LifeInv, CtorReturns, NEW s \in Singletons, s = Top.of, raised' \in BOOLEAN,
         me' = [me EXCEPT ![s] = TRUE], UNCHANGED <<items, cursor>>,
         \/ handlers' = Append(handlers, s) /\ s \notin WithLongevity
         \/ handlers' = handlers /\ (phase # "running" \/ (Policy[s] = "phoenix" /\ failed[s]))
  PROVE  LifeInv'
<1>1. /\ s \in All /\ ~me[s] /\ ~isDestroyed[s] /\ ~Dying(s) /\ ~Registered(s)
      /\ InFrame("ctor") /\ ~raised
      /\ \A i \in DOMAIN items : items[i] # s
  BY BeingConstructed DEF CtorReturns, All
<1>2. TypeOK'
  <2>1. handlers' \in Seq(All)
    <3>1. handlers \in Seq(All)
      BY DEF LifeInv, TypeOK
    <3>2. Append(handlers, s) \in Seq(All)
      BY <1>1, <3>1
    <3> QED
      BY <3>1, <3>2
  <2>2. me' \in [All -> BOOLEAN]
    BY DEF LifeInv, TypeOK
  <2> QED
    BY <2>1, <2>2, CtorReturnsType DEF LifeInv, TypeOK
<1>3. /\ \A t \in All : me[t] => me'[t]
      /\ \A t \in All : me'[t] => me[t] \/ t = s
      /\ me'[s]
  BY <1>1 DEF LifeInv, TypeOK
<1>4. /\ UNCHANGED <<phase, budget, isDestroyed, destroyedOnce, failed, missed>>
      /\ stack' = Front(stack)
  BY DEF CtorReturns
<1>5. /\ DtorsInPlace' /\ CtorsInPlace' /\ EndOfLife' /\ LongerLivedUsable'
      /\ (\A t \in All : me[t] => ~isDestroyed[t])'
      /\ \A t : Dying(t)' <=> Dying(t)
      /\ TrackerDies => TrackerDies'
      /\ \A t \in All : Lives(t) => Lives(t)'
  BY <1>1, <1>2, <1>3, <1>4, CtorDone
<1>6. Lives(s)'
  BY <1>1, <1>3, <1>4 DEF Lives
<1>7. HandlersInOrder' /\ \A t : Registered(t) => Registered(t)'
  <2>1. CASE handlers' = Append(handlers, s) /\ s \notin WithLongevity
    BY <1>1, <1>2, <1>5, <1>6, <2>1, RegisterKeeps
  <2>2. CASE handlers' = handlers
    <3>1. \A i \in DOMAIN handlers : handlers[i] \in All
      BY QueueFacts DEF LifeInv
    <3> QED
      BY <1>5, <2>2, <3>1 DEF LifeInv, HandlersInOrder, Registered, WithLongevity
  <2> QED
    BY <2>1, <2>2
<1>8. ItemsInOrder'
  <2>1. \A i \in DOMAIN items : items[i] \in All
    BY QueueFacts DEF LifeInv, All
  <2> QED
    BY <1>3, <1>4, <1>5, <2>1 DEF LifeInv, ItemsInOrder, WithLongevity
<1>9. AllScheduled'
  <2>1. \A t : Tracked(t)' <=> Tracked(t)
    BY DEF Tracked
  <2>2. handlers' = Append(handlers, s) => Registered(s)'
    BY <1>1, <1>2, <1>5, <1>6, RegisterKeeps
  <2>3. cursor' < Len(items') => me'[Tracker]
    BY <1>3 DEF LifeInv, AllScheduled, All
  <2> QED
    BY <1>3, <1>5, <1>7, <2>1, <2>2, <2>3, AllStillScheduled
<1>10. NoDeathsBeforeExit' /\ DeadInOrder'
  BY <1>4 DEF LifeInv, NoDeathsBeforeExit, DeadInOrder, WithLongevity
<1> QED
  BY <1>2, <1>5, <1>7, <1>8, <1>9, <1>10 DEF LifeInv

\* LifetimeTracker::add puts what was just made into its place.
LEMMA AddItemFacts ==
  ASSUME LifeInv, NEW s \in WithLongevity, \A i \in DOMAIN items : items[i] # s, AddItem(s)
  PROVE  \E p \in 1 .. Len(items) + 1 :
           /\ items' = InsertAt(items, p, s)
           /\ cursor' = IF p <= cursor THEN cursor + 1 ELSE cursor
           /\ \A i \in DOMAIN items : i < p <=> Longevity[items[i]] <= Longevity[s]
<1>1. items \in Seq(Singletons) /\ s \in Singletons /\ Longevity[s] \in Nat
  BY DEF LifeInv, TypeOK, WithLongevity
<1>2. Sorted(items)
  BY DEF LifeInv, ItemsInOrder, Sorted
<1>3. RemoveFirst(items, s) = items
  <2>1. ~\E i \in 1 .. Len(items) : items[i] = s
    BY <1>1
  <2> QED
    BY <2>1 DEF RemoveFirst
<1>4. /\ items' = InsertAt(items, Place(items, Longevity[s]), s)
      /\ cursor' = IF Place(items, Longevity[s]) <= cursor THEN cursor + 1 ELSE cursor
  BY <1>3 DEF AddItem
<1> QED
  BY <1>1, <1>2, <1>4, PlaceFacts


LEMMA AddKeeps ==
  ASSUME LifeInv, NEW s \in WithLongevity, \A i \in DOMAIN items : items[i] # s, AddItem(s),
         Lives(s)', \A t \in All : Lives(t) => Lives(t)', \A t \in All : me[t] => me'[t],
         UNCHANGED <<isDestroyed, failed>>
  PROVE  /\ items' \in Seq(Singletons) /\ cursor' \in Nat
         /\ ItemsInOrder' /\ DeadInOrder'
         /\ cursor > 0 => cursor' > 0 /\ items'[cursor'] = items[cursor]
         /\ cursor = 0 => cursor' = 0
         /\ \A t \in All : Tracked(t) => Tracked(t)'
         /\ Tracked(s)' \/ cursor > 0
<1> DEFINE k == Len(items)
<1>1. PICK p \in 1 .. k + 1 :
        /\ items' = InsertAt(items, p, s)
        /\ cursor' = IF p <= cursor THEN cursor + 1 ELSE cursor
        /\ \A i \in DOMAIN items : i < p <=> Longevity[items[i]] <= Longevity[s]
  BY AddItemFacts
<1>2. /\ k \in Nat /\ cursor \in 0 .. k /\ DOMAIN items = 1 .. k /\ items \in Seq(Singletons)
      /\ \A i \in 1 .. k : items[i] \in All /\ Longevity[items[i]] \in Nat
      /\ s \in Singletons /\ Longevity[s] \in Nat
  BY QueueFacts DEF LifeInv, ItemsInOrder, TypeOK, WithLongevity, All
<1>3. /\ items' \in Seq(Singletons) /\ Len(items') = k + 1 /\ DOMAIN items' = 1 .. k + 1
      /\ items'[p] = s
      /\ \A i \in 1 .. k : i < p => items'[i] = items[i]
      /\ \A i \in 1 .. k : i >= p => items'[i + 1] = items[i]
  <2> DEFINE r == InsertAt(items, p, s)
  <2>1. /\ r \in Seq(Singletons) /\ Len(r) = k + 1 /\ r[p] = s
        /\ \A i \in 1 .. k : i < p => r[i] = items[i]
        /\ \A i \in 1 .. k : i >= p => r[i + 1] = items[i]
    <3>1. items \in Seq(Singletons) /\ s \in Singletons /\ p \in 1 .. Len(items) + 1
      BY <1>2
    <3> QED
      BY ONLY <3>1, InsertFacts
  <2> HIDE DEF r
  <2>2. DOMAIN r = 1 .. Len(r)
    BY <2>1
  <2> QED
    BY <1>1, <2>1, <2>2 DEF r
<1>4. cursor' \in 0 .. k + 1
  BY <1>1, <1>2
<1> HIDE DEF k
<1> PICK at : at = [i \in 1 .. k |-> IF i < p THEN i ELSE i + 1]
  OBVIOUS
<1>5. \A i \in 1 .. k : at[i] \in 1 .. k + 1 /\ at[i] # p /\ items'[at[i]] = items[i]
  BY <1>2, <1>3, SMTT(30)
<1>6. \A j \in 1 .. k + 1 : j # p => \E i \in 1 .. k : j = at[i]
  <2> SUFFICES ASSUME NEW j \in 1 .. k + 1, j # p PROVE \E i \in 1 .. k : j = at[i]
    OBVIOUS
  <2>1. CASE j < p
    <3>1. j \in 1 .. k
      BY <1>2, <2>1
    <3>2. at[j] = j
      BY <2>1, <3>1
    <3> QED
      BY <3>1, <3>2
  <2>2. CASE j > p
    <3>1. j - 1 \in 1 .. k /\ ~(j - 1 < p) /\ (j - 1) + 1 = j
      BY <1>2, <2>2
    <3>2. at[j - 1] = j
      BY <3>1
    <3> QED
      BY <3>1, <3>2
  <2> QED
    BY <1>2, <2>1, <2>2
<1>7. \A i, j \in 1 .. k : at[i] < at[j] <=> i < j
  BY <1>2
<1>8. \A i \in 1 .. k : at[i] > cursor' <=> i > cursor
  BY <1>1, <1>2
<1>9. \A i \in 1 .. k : /\ at[i] < p => Longevity[items[i]] <= Longevity[s]
                        /\ p < at[i] => Longevity[s] <= Longevity[items[i]]
  BY <1>1, <1>2
<1>10. cursor > 0 => cursor' > 0 /\ items'[cursor'] = items[cursor]
  BY <1>1, <1>2, <1>3
<1>11. cursor = 0 => cursor' = 0
  BY <1>1, <1>2
<1>12. ASSUME NEW t, Tracked(t) PROVE Tracked(t)'
  <2> PICK i \in cursor + 1 .. k : items[i] = t
    BY <1>12 DEF Tracked, k
  <2>1. i \in 1 .. k /\ i > cursor
    BY <1>2
  <2>2. at[i] \in 1 .. k + 1 /\ at[i] > cursor' /\ items'[at[i]] = t
    BY <1>5, <1>8, <2>1
  <2>3. at[i] \in cursor' + 1 .. Len(items')
    BY <1>2, <1>3, <1>4, <2>2, SMTT(30)
  <2> QED
    BY <2>2, <2>3 DEF Tracked
<1>13. Tracked(s)' \/ cursor > 0
  <2>1. ASSUME cursor = 0 PROVE Tracked(s)'
    <3>1. p \in cursor' + 1 .. Len(items')
      BY <1>2, <1>3, <1>11, <2>1
    <3> QED
      BY <1>3, <3>1 DEF Tracked
  <2> QED
    BY <1>2, <2>1
<1>14. ASSUME NEW j \in 1 .. k + 1
       PROVE  /\ items'[j] \in WithLongevity
              /\ me'[items'[j]] \/ isDestroyed'[items'[j]]
              /\ j > cursor' => me'[items'[j]] /\ ~isDestroyed'[items'[j]]
  <2>1. CASE j = p
    BY <1>3, <2>1 DEF Lives
  <2>2. CASE j # p
    <3> PICK i \in 1 .. k : j = at[i]
      BY <1>6, <2>2
    <3>1. /\ items[i] \in WithLongevity /\ (me[items[i]] \/ isDestroyed[items[i]])
          /\ i > cursor => me[items[i]] /\ ~isDestroyed[items[i]]
      BY <1>2 DEF LifeInv, ItemsInOrder, Lives
    <3>2. items[i] \in All /\ items'[j] = items[i] /\ (j > cursor' <=> i > cursor)
      BY <1>2, <1>5, <1>8
    <3> QED
      BY <3>1, <3>2
  <2> QED
    BY <2>1, <2>2
<1>15. ASSUME NEW i \in 1 .. k + 1, NEW j \in 1 .. k + 1
       PROVE  /\ items'[i] = items'[j] => i = j
              /\ i < j => Longevity[items'[i]] <= Longevity[items'[j]]
  <2>1. \A a, b \in 1 .. k : /\ items[a] = items[b] => a = b
                             /\ a < b => Longevity[items[a]] <= Longevity[items[b]]
    BY <1>2 DEF LifeInv, ItemsInOrder
  <2>2. \A a \in 1 .. k : items[a] # s
    BY <1>2
  <2>3. CASE i = p /\ j = p
    BY <1>2, <1>3, <2>3
  <2>4. CASE i = p /\ j # p
    <3> PICK b \in 1 .. k : j = at[b]
      BY <1>6, <2>4
    <3> QED
      BY <1>3, <1>5, <1>9, <2>2, <2>4
  <2>5. CASE i # p /\ j = p
    <3> PICK a \in 1 .. k : i = at[a]
      BY <1>6, <2>5
    <3> QED
      BY <1>3, <1>5, <1>9, <2>2, <2>5
  <2>6. CASE i # p /\ j # p
    <3> PICK a \in 1 .. k : i = at[a]
      BY <1>6, <2>6
    <3> PICK b \in 1 .. k : j = at[b]
      BY <1>6, <2>6
    <3> QED
      BY <1>5, <1>7, <2>1, SMTT(30)
  <2> QED
    BY <2>3, <2>4, <2>5, <2>6
<1>16. ItemsInOrder'
  BY <1>3, <1>4, <1>14, <1>15 DEF ItemsInOrder, WithLongevity, Lives
<1>17. DeadInOrder'
  <2> SUFFICES ASSUME NEW t \in WithLongevity, isDestroyed[t], ~failed[t]
               PROVE  \E j \in 1 .. cursor' : items'[j] = t
    BY DEF DeadInOrder, WithLongevity
  <2> PICK i \in 1 .. cursor : items[i] = t
    BY DEF LifeInv, DeadInOrder
  <2>1. i \in 1 .. k /\ ~(i > cursor)
    BY <1>2
  <2>2. at[i] \in 1 .. k + 1 /\ ~(at[i] > cursor') /\ items'[at[i]] = t
    BY <1>5, <1>8, <2>1
  <2>3. at[i] \in 1 .. cursor'
    BY <1>4, <2>2
  <2> QED
    BY <2>2, <2>3
<1> QED
  BY <1>3, <1>4, <1>10, <1>11, <1>12, <1>13, <1>16, <1>17

\* SetLongevity, and with it the creation of the tracker.
LEMMA ByLongevityKeeps ==
  ASSUME LifeInv, CtorReturns, NEW s \in Singletons, s = Top.of, ScheduleByLongevity(s)
  PROVE  LifeInv'
<1>1. /\ s \in All /\ ~me[s] /\ ~isDestroyed[s] /\ ~Dying(s)
      /\ InFrame("ctor") /\ ~raised /\ s \in WithLongevity
      /\ \A i \in DOMAIN items : items[i] # s
      /\ Tracker \in All /\ Tracker # s /\ Tracker \notin WithLongevity
  BY BeingConstructed DEF CtorReturns, All, WithLongevity, ScheduleByLongevity
<1>2. /\ AddItem(s) /\ raised' = raised
      /\ isDestroyed[Tracker] => me[Tracker]
      /\ handlers' = IF me[Tracker] THEN handlers ELSE Append(handlers, Tracker)
      /\ me' = [me EXCEPT ![s] = TRUE, ![Tracker] = TRUE]
  BY DEF ScheduleByLongevity
<1>3. /\ \A t \in All : me[t] => me'[t]
      /\ \A t \in All : me'[t] => me[t] \/ t = s \/ t = Tracker
      /\ me'[s] /\ me'[Tracker] /\ me' \in [All -> BOOLEAN]
  BY <1>1, <1>2 DEF LifeInv, TypeOK
<1>4. /\ UNCHANGED <<phase, budget, isDestroyed, destroyedOnce, failed, missed>>
      /\ stack' = Front(stack)
  BY DEF CtorReturns
<1>5. ~isDestroyed[Tracker]
  BY <1>1, <1>2 DEF LifeInv
<1>6. Lives(s)' /\ Lives(Tracker)' /\ \A t \in All : Lives(t) => Lives(t)'
  BY <1>1, <1>3, <1>4, <1>5 DEF Lives
<1>7. /\ items' \in Seq(Singletons) /\ cursor' \in Nat
      /\ ItemsInOrder' /\ DeadInOrder'
      /\ cursor > 0 => cursor' > 0 /\ items'[cursor'] = items[cursor]
      /\ cursor = 0 => cursor' = 0
      /\ \A t \in All : Tracked(t) => Tracked(t)'
      /\ Tracked(s)' \/ cursor > 0
  BY <1>1, <1>2, <1>3, <1>4, <1>6, AddKeeps
<1>8. TypeOK'
  <2>1. handlers \in Seq(All) /\ Append(handlers, Tracker) \in Seq(All)
    BY <1>1 DEF LifeInv, TypeOK
  <2>2. handlers' \in Seq(All) /\ raised' \in BOOLEAN
    BY <1>2, <2>1 DEF LifeInv, TypeOK
  <2> QED
    BY <1>3, <1>7, <2>2, CtorReturnsType
<1>9. /\ DtorsInPlace' /\ CtorsInPlace' /\ EndOfLife' /\ LongerLivedUsable'
      /\ (\A t \in All : me[t] => ~isDestroyed[t])'
      /\ \A t : Dying(t)' <=> Dying(t)
      /\ TrackerDies => TrackerDies'
  BY <1>1, <1>3, <1>4, <1>5, <1>7, <1>8, CtorDone
<1>10. /\ HandlersInOrder' /\ \A t : Registered(t) => Registered(t)'
       /\ ~me[Tracker] => Registered(Tracker)'
  <2>1. CASE me[Tracker]
    <3>1. \A i \in DOMAIN handlers : handlers[i] \in All
      BY QueueFacts DEF LifeInv
    <3> QED
      BY <1>2, <1>6, <1>9, <2>1, <3>1 DEF LifeInv, HandlersInOrder, Registered, WithLongevity
  <2>2. CASE ~me[Tracker]
    <3>1. ~Registered(Tracker) /\ ~Dying(Tracker)
      BY <2>2 DEF LifeInv, HandlersInOrder, DtorsInPlace, Registered, Dying, Dtor, Lives
    <3> QED
      BY <1>1, <1>2, <1>6, <1>8, <1>9, <2>2, <3>1, RegisterKeeps
  <2> QED
    BY <2>1, <2>2
<1>11. AllScheduled'
  <2>1. \A t \in All : me'[t] => me[t] \/ t = s \/ (t = Tracker /\ Registered(t)')
    BY <1>3, <1>10
  <2>2. \A t \in Singletons : Registered(t) \/ Tracked(t) => Registered(t)' \/ Tracked(t)'
    BY <1>7, <1>10 DEF All
  <2>3. Tracked(s)' \/ phase # "running"
    BY <1>7 DEF LifeInv, NoDeathsBeforeExit
  <2> QED
    BY <1>3, <1>9, <1>10, <2>1, <2>2, <2>3, AllStillScheduled
<1>12. NoDeathsBeforeExit'
  BY <1>4, <1>7 DEF LifeInv, NoDeathsBeforeExit
<1> QED
  BY <1>7, <1>8, <1>9, <1>10, <1>11, <1>12 DEF LifeInv

LEMMA CtorReturnsKeeps == ASSUME LifeInv, CtorReturns PROVE LifeInv'
<1> PICK s \in Singletons : s = Top.of
  BY BeingConstructed DEF CtorReturns
<1>1. /\ InFrame("ctor") /\ ~raised /\ s \in All
      /\ ScheduleAtExit(s) \/ ScheduleNothing(s) \/ ScheduleByLongevity(s) \/ ScheduleTooLate(s)
  BY DEF CtorReturns, All
<1>2. CASE ScheduleAtExit(s)
  <2>1. s \notin WithLongevity /\ raised' \in BOOLEAN
    BY <1>2 DEF ScheduleAtExit, WithLongevity, LifeInv, TypeOK
  <2> QED
    BY <1>2, <2>1, OtherPolicies DEF ScheduleAtExit
<1>3. CASE ScheduleNothing(s)
  <2>1. phase # "running" \/ (Policy[s] = "phoenix" /\ failed[s])
    BY <1>3 DEF ScheduleNothing, LifeInv, NoDeathsBeforeExit
  <2>2. raised' \in BOOLEAN
    BY <1>3 DEF ScheduleNothing, LifeInv, TypeOK
  <2> QED
    BY <1>3, <2>1, <2>2, OtherPolicies DEF ScheduleNothing
<1>4. CASE ScheduleByLongevity(s)
  BY <1>4, ByLongevityKeeps
<1>5. CASE ScheduleTooLate(s)
  <2>1. phase # "running" /\ raised' \in BOOLEAN
    BY <1>5 DEF ScheduleTooLate, LifeInv, NoDeathsBeforeExit
  <2> QED
    BY <1>5, <2>1, OtherPolicies DEF ScheduleTooLate
<1> QED
  BY <1>1, <1>2, <1>3, <1>4, <1>5


\* A constructor that throws marks a singleton destroyed which nobody waits for.
LEMMA CtorThrowsKeeps == ASSUME LifeInv, CtorThrows PROVE LifeInv'
<1> PICK s \in Singletons : s = Top.of
  BY BeingConstructed DEF CtorThrows
<1> DEFINE n == Len(stack)
<1>1. /\ s \in All /\ ~me[s] /\ phase # "ended" /\ stack # <<>> /\ s # Tracker
      /\ \A i \in DOMAIN stack : stack[i].kind = "ctor" /\ i # n => stack[i].of # s
      /\ \A i \in DOMAIN stack : stack[i].kind = "dtor" => i # n
  BY BeingConstructed DEF CtorThrows, All
<1>2. /\ UNCHANGED <<phase, budget, me, destroyedOnce, handlers, items, cursor, late, missed>>
      /\ stack' = Front(stack) /\ raised'
      /\ isDestroyed' = [isDestroyed EXCEPT ![s] = TRUE]
      /\ failed' = [failed EXCEPT ![s] = TRUE]
  BY DEF CtorThrows
<1>3. /\ stack' \in Seq(Frame)
      /\ \A i \in DOMAIN stack' : i \in DOMAIN stack /\ i # n /\ stack'[i] = stack[i]
      /\ n \in DOMAIN stack
      /\ \A t : Dying(t) <=> Dying(t)' \/ Dtor(n, t)
      /\ TrackerDies => TrackerDies' \/ Dtor(n, Tracker)
  BY <1>1, <1>2, PoppedFrames, TopFacts DEF LifeInv
<1>4. (\A t : Dying(t) <=> Dying(t)') /\ (TrackerDies => TrackerDies')
  <2>1. \A t : ~Dtor(n, t)
    BY <1>1, <1>3 DEF Dtor
  <2> QED
    BY <1>3, <2>1
<1> HIDE DEF n
<1>5. /\ isDestroyed' \in [All -> BOOLEAN] /\ failed' \in [Singletons -> BOOLEAN]
      /\ \A t \in All : isDestroyed'[t] <=> isDestroyed[t] \/ t = s
      /\ \A t \in Singletons : failed'[t] <=> failed[t] \/ t = s
  BY <1>1, <1>2 DEF LifeInv, TypeOK
<1>6. TypeOK'
  <2>1. raised' \in BOOLEAN
    BY DEF CtorThrows
  <2> QED
    BY <1>2, <1>3, <1>5, <2>1 DEF LifeInv, TypeOK
<1>7. \A t \in All : Lives(t) => me'[t] /\ ~isDestroyed'[t]
  BY <1>1, <1>2, <1>5 DEF Lives
<1>8. DtorsInPlace'
  <2> SUFFICES ASSUME NEW i \in DOMAIN stack', stack'[i].kind = "dtor"
               PROVE  /\ phase # "running"
                      /\ me'[stack[i].of] /\ ~isDestroyed'[stack[i].of]
                      /\ \/ i = 1 /\ stack[i].of \notin WithLongevity
                         \/ i = 2 /\ TrackerDies' /\ cursor > 0 /\ stack[i].of = items[cursor]
    BY <1>2, <1>3 DEF DtorsInPlace, Lives, WithLongevity
  <2>1. i \in DOMAIN stack /\ stack[i].kind = "dtor" /\ stack[i].of \in All
    BY <1>3, StackFacts DEF LifeInv
  <2> QED
    BY <1>4, <1>7, <2>1 DEF LifeInv, DtorsInPlace
<1>9. CtorsInPlace'
  <2>1. ASSUME NEW i \in DOMAIN stack', stack'[i].kind = "ctor"
        PROVE  stack[i].of \in Singletons /\ ~me[stack[i].of] /\ ~isDestroyed'[stack[i].of]
    <3>1. i \in DOMAIN stack /\ stack[i].kind = "ctor" /\ stack[i].of # s
      BY <1>1, <1>3, <2>1
    <3> QED
      BY <1>5, <3>1 DEF LifeInv, CtorsInPlace, All
  <2>2. \A i, j \in DOMAIN stack' :
          stack'[i].kind = "ctor" /\ stack'[j].kind = "ctor" /\ stack'[i].of = stack'[j].of => i = j
    BY <1>3 DEF LifeInv, CtorsInPlace
  <2> QED
    BY <1>2, <1>3, <2>1, <2>2 DEF CtorsInPlace
<1>10. HandlersInOrder'
  <2>1. \A i \in DOMAIN handlers : handlers[i] \in All
    BY QueueFacts DEF LifeInv
  <2> QED
    BY <1>2, <1>4, <1>7, <2>1 DEF LifeInv, HandlersInOrder, WithLongevity, Lives
<1>11. ItemsInOrder'
  <2>1. \A i \in DOMAIN items : items[i] \in All
    BY QueueFacts DEF LifeInv, All
  <2> QED
    BY <1>2, <1>5, <1>7, <2>1 DEF LifeInv, ItemsInOrder, WithLongevity, Lives
<1>12. AllScheduled'
  BY <1>2, <1>4, <1>5 DEF LifeInv, AllScheduled, Registered, Tracked
<1>13. NoDeathsBeforeExit' /\ DeadInOrder'
  <2>1. Tracker \in All /\ \A t \in Singletons : t \in All
    BY DEF All
  <2> QED
    BY <1>1, <1>2, <1>5, <2>1 DEF LifeInv, NoDeathsBeforeExit, DeadInOrder, WithLongevity
<1>14. EndOfLife'
  BY <1>1, <1>2 DEF EndOfLife
<1>15. LongerLivedUsable'
  <2>1. \A q \in missed : q[2] \in Singletons
    BY DEF LifeInv, TypeOK
  <2> QED
    BY <1>2, <1>5, <2>1 DEF LifeInv, LongerLivedUsable
<1>16. (\A t \in All : me[t] => ~isDestroyed[t])'
  BY <1>1, <1>2, <1>5 DEF LifeInv
<1> QED
  BY <1>6, <1>8, <1>9, <1>10, <1>11, <1>12, <1>13, <1>14, <1>15, <1>16 DEF LifeInv

-----------------------------------------------------------------------------
(* Destruction.                                                              *)

\* A destructor on top of the constructors and destructors that run.
LEMMA DtorCalled ==
  ASSUME LifeInv, TypeOK', NEW s \in All, Lives(s), phase # "running",
         stack' = Append(stack, [kind |-> "dtor", of |-> s, uses |-> FrameUses]),
         UNCHANGED <<phase, me, isDestroyed, destroyedOnce, late, failed, missed, items, raised>>,
         \/ stack = <<>> /\ s \notin WithLongevity /\ cursor' = cursor
         \/ Len(stack) = 1 /\ TrackerDies /\ cursor' > 0 /\ s = items[cursor']
  PROVE  /\ DtorsInPlace' /\ CtorsInPlace'
         /\ \A t : Dying(t)' <=> Dying(t) \/ t = s
         /\ TrackerDies => TrackerDies'
         /\ stack = <<>> /\ s = Tracker => TrackerDies'
<1> DEFINE n == Len(stack)
<1> PICK f \in Frame : f = [kind |-> "dtor", of |-> s, uses |-> FrameUses]
  BY DEF Frame
<1>1. f.kind = "dtor" /\ f.of = s
  OBVIOUS
<1>2. /\ n \in Nat /\ Len(stack') = n + 1 /\ stack'[n + 1] = f
      /\ \A i \in 1 .. n : stack'[i] = stack[i]
  BY StackFacts, AppendFacts DEF LifeInv
<1>3. /\ DOMAIN stack' = 1 .. n + 1 /\ stack' # <<>>
      /\ \A i \in DOMAIN stack : i \in DOMAIN stack' /\ i # n + 1
      /\ \A i \in DOMAIN stack' : i \in DOMAIN stack \/ i = n + 1
      /\ \A t : Dying(t)' <=> Dying(t) \/ f.of = t
      /\ TrackerDies => TrackerDies'
  <2>1. Kept(n)
    BY <1>2 DEF Kept
  <2> QED
    BY <1>1, <1>2, <2>1, PushedFrames DEF LifeInv
<1>4. \A i \in DOMAIN stack : stack'[i] = stack[i]
  BY <1>2, StackFacts DEF LifeInv
<1>5. stack = <<>> => n = 0 /\ DOMAIN stack = {}
  BY StackFacts DEF LifeInv
<1>6. stack = <<>> /\ s = Tracker => TrackerDies'
  BY <1>1, <1>2, <1>3, <1>5 DEF TrackerDies, Dtor
<1> HIDE DEF n
<1>7. ASSUME NEW i \in DOMAIN stack', stack'[i].kind = "dtor"
      PROVE  /\ \A t : t = stack'[i].of => Lives(t)
             /\ \/ i = 1 /\ stack'[i].of \notin WithLongevity
                \/ i = 2 /\ TrackerDies' /\ cursor' > 0 /\ stack'[i].of = items[cursor']
  <2>1. CASE i = n + 1
    <3>1. stack'[i].of = s
      BY <1>1, <1>2, <2>1
    <3>2. CASE stack = <<>>
      <4>1. i = 1 /\ s \notin WithLongevity
        BY <1>5, <2>1, <3>2 DEF n
      <4> QED
        BY <3>1, <4>1
    <3>3. CASE stack # <<>>
      <4>1. n = 1 /\ TrackerDies /\ cursor' > 0 /\ s = items[cursor']
        BY <3>3 DEF n
      <4>2. i = 2
        BY <2>1, <4>1
      <4> QED
        BY <1>3, <3>1, <4>1, <4>2
    <3> QED
      BY <3>2, <3>3
  <2>2. CASE i \in DOMAIN stack
    <3>1. stack[i].kind = "dtor" /\ stack'[i].of = stack[i].of
      BY <1>4, <1>7, <2>2
    <3>2. stack # <<>> /\ n = 1 /\ i = 1
      BY <1>5, <2>2, StackFacts DEF LifeInv, n
    <3> QED
      BY <2>2, <3>1, <3>2 DEF LifeInv, DtorsInPlace
  <2> QED
    BY <1>3, <2>1, <2>2
<1>8. DtorsInPlace'
  BY <1>7 DEF DtorsInPlace, Lives, WithLongevity
<1>9. CtorsInPlace'
  <2>1. \A i \in DOMAIN stack' : stack'[i].kind = "ctor" => i \in DOMAIN stack /\ stack'[i] = stack[i]
    BY <1>1, <1>2, <1>3, <1>4
  <2> QED
    BY <2>1 DEF LifeInv, CtorsInPlace
<1> QED
  BY <1>1, <1>3, <1>6, <1>8, <1>9

LEMMA RunHandlerKeeps == ASSUME LifeInv, RunHandler PROVE LifeInv'
<1> DEFINE k == Len(handlers)
<1>1. /\ handlers \in Seq(All) /\ k \in Nat /\ k >= 1 /\ DOMAIN handlers = 1 .. k
      /\ handlers # <<>>
  BY DEF LifeInv, TypeOK, RunHandler
<1> PICK h \in All : h = Last(handlers) /\ h = handlers[k]
  BY <1>1 DEF Last
<1>2. /\ UNCHANGED <<phase, raised, budget, me, isDestroyed, destroyedOnce, items, cursor, late,
                     failed, missed>>
      /\ phase = "exiting" /\ stack = <<>>
      /\ stack' = Append(stack, [kind |-> "dtor", of |-> h, uses |-> FrameUses])
      /\ handlers' = Front(handlers)
  BY DEF RunHandler, Push
<1>3. /\ handlers' \in Seq(All) /\ DOMAIN handlers' = 1 .. k - 1
      /\ \A i \in 1 .. k - 1 : handlers'[i] = handlers[i]
  BY <1>1, <1>2, FrontFacts
<1>4. stack' \in Seq(Frame)
  BY <1>2 DEF LifeInv, TypeOK, Frame
<1>5. TypeOK'
  BY <1>2, <1>3, <1>4 DEF LifeInv, TypeOK
<1> HIDE DEF k
<1>6. /\ \A i \in 1 .. k - 1 : i \in 1 .. k /\ i # k
      /\ \A i \in 1 .. k : i \in 1 .. k - 1 \/ i = k
      /\ k \in 1 .. k
  BY <1>1
<1>7. \A i \in 1 .. k : /\ handlers[i] \notin WithLongevity
                        /\ Lives(handlers[i]) /\ ~Dying(handlers[i]) /\ handlers[i] \in All
                        /\ \A j \in 1 .. k : handlers[i] = handlers[j] => i = j
  BY <1>1, QueueFacts DEF LifeInv, HandlersInOrder
<1>8. /\ DtorsInPlace' /\ CtorsInPlace'
      /\ \A t : Dying(t)' <=> Dying(t) \/ t = h
      /\ TrackerDies => TrackerDies'
      /\ h = Tracker => TrackerDies'
  BY <1>2, <1>5, <1>6, <1>7, DtorCalled
<1>9. HandlersInOrder'
  <2>1. ASSUME NEW i \in 1 .. k - 1
        PROVE  /\ handlers[i] \notin WithLongevity
               /\ \A t : t = handlers[i] => Lives(t) /\ ~Dying(t)'
               /\ \A j \in 1 .. k - 1 : handlers[i] = handlers[j] => i = j
    BY <1>6, <1>7, <1>8
  <2> QED
    BY <1>2, <1>3, <2>1 DEF HandlersInOrder, WithLongevity, Lives, Dying, Dtor
<1>10. \A t : Registered(t) => Registered(t)' \/ t = h
  BY <1>1, <1>3, <1>6 DEF Registered
<1>11. AllScheduled'
  <2>1. \A t : Tracked(t)' <=> Tracked(t)
    BY <1>2 DEF Tracked
  <2> QED
    BY <1>2, <1>8, <1>10, <2>1 DEF LifeInv, AllScheduled
<1>12. ItemsInOrder' /\ NoDeathsBeforeExit' /\ DeadInOrder'
  BY <1>2 DEF LifeInv, ItemsInOrder, NoDeathsBeforeExit, DeadInOrder, WithLongevity, Lives
<1>13. EndOfLife' /\ LongerLivedUsable' /\ (\A t \in All : me[t] => ~isDestroyed[t])'
  BY <1>2 DEF LifeInv, EndOfLife, LongerLivedUsable
<1> QED
  BY <1>5, <1>8, <1>9, <1>11, <1>12, <1>13 DEF LifeInv

LEMMA NextItemKeeps == ASSUME LifeInv, NextItem PROVE LifeInv'
<1>1. /\ UNCHANGED <<phase, raised, budget, me, isDestroyed, destroyedOnce, handlers, items, late,
                     failed, missed>>
      /\ cursor' = cursor + 1 /\ cursor < Len(items)
      /\ stack # <<>> /\ Top.kind = "dtor" /\ Top.of = Tracker
  BY DEF NextItem, InFrame
<1>2. /\ cursor \in Nat /\ Len(items) \in Nat /\ DOMAIN items = 1 .. Len(items)
      /\ cursor' \in DOMAIN items /\ cursor' > cursor /\ cursor' > 0 /\ cursor' <= Len(items)
  BY <1>1, QueueFacts DEF LifeInv
<1> PICK s \in Singletons : s = items[cursor + 1]
  BY <1>1, <1>2, QueueFacts DEF LifeInv
<1>3. /\ s \in All /\ s = items[cursor'] /\ s \in WithLongevity /\ Lives(s)
      /\ \A i \in DOMAIN items : items[i] = s => i = cursor'
  BY <1>1, <1>2 DEF LifeInv, ItemsInOrder, All
<1>4. Tracker \in All /\ Tracker \notin WithLongevity
  BY DEF All, WithLongevity
<1>5. /\ Len(stack) = 1 /\ TrackerDies /\ phase # "running"
  <2>1. Len(stack) \in DOMAIN stack /\ Dtor(Len(stack), Tracker)
    BY <1>1, TopFacts DEF LifeInv, Dtor
  <2>2. Len(stack) # 2
    <3>1. cursor > 0 => items[cursor] \in WithLongevity
      BY <1>1, <1>2 DEF LifeInv, ItemsInOrder
    <3>2. ASSUME Len(stack) = 2 PROVE cursor > 0 /\ items[cursor] = Tracker
      BY <2>1, <3>2 DEF LifeInv, DtorsInPlace, Dtor
    <3> QED
      BY <1>4, <3>1, <3>2
  <2> QED
    BY <1>1, <2>1, <2>2 DEF LifeInv, DtorsInPlace, Dtor, TrackerDies
<1>6. stack' = Append(stack, [kind |-> "dtor", of |-> s, uses |-> FrameUses])
  BY DEF NextItem, Push
<1>7. TypeOK'
  <2>1. stack' \in Seq(Frame)
    BY <1>3, <1>6 DEF LifeInv, TypeOK, Frame
  <2> QED
    BY <1>1, <1>2, <2>1 DEF LifeInv, TypeOK
<1>8. /\ DtorsInPlace' /\ CtorsInPlace'
      /\ \A t : Dying(t)' <=> Dying(t) \/ t = s
      /\ TrackerDies'
  BY <1>1, <1>2, <1>3, <1>5, <1>6, <1>7, DtorCalled
<1>9. HandlersInOrder'
  BY <1>1, <1>3, <1>8 DEF LifeInv, HandlersInOrder, WithLongevity, Lives
<1>10. ItemsInOrder'
  <2>1. \A i \in DOMAIN items : i > cursor' => i > cursor
    BY <1>2
  <2> QED
    BY <1>1, <1>2, <2>1 DEF LifeInv, ItemsInOrder, WithLongevity, Lives
<1>11. \A t : Tracked(t) => Tracked(t)' \/ t = s
  <2> SUFFICES ASSUME NEW t, Tracked(t), t # s PROVE Tracked(t)'
    OBVIOUS
  <2> PICK i \in cursor + 1 .. Len(items) : items[i] = t
    BY DEF Tracked
  <2>1. i # cursor + 1
    BY <1>2
  <2>2. i \in cursor' + 1 .. Len(items')
    BY <1>1, <1>2, <2>1
  <2> QED
    BY <1>1, <2>2 DEF Tracked
<1>12. AllScheduled'
  <2>1. \A t : Registered(t)' <=> Registered(t)
    BY <1>1 DEF Registered
  <2>2. me'[Tracker]
    BY <1>1 DEF LifeInv, AllScheduled
  <2> QED
    BY <1>1, <1>8, <1>11, <2>1, <2>2 DEF LifeInv, AllScheduled
<1>13. NoDeathsBeforeExit' /\ DeadInOrder'
  <2>1. \A i \in 1 .. cursor : i \in 1 .. cursor'
    BY <1>1, <1>2
  <2> QED
    BY <1>1, <1>5, <2>1 DEF LifeInv, NoDeathsBeforeExit, DeadInOrder, WithLongevity
<1>14. EndOfLife' /\ LongerLivedUsable' /\ (\A t \in All : me[t] => ~isDestroyed[t])'
  BY <1>1 DEF LifeInv, EndOfLife, LongerLivedUsable
<1> QED
  BY <1>7, <1>8, <1>9, <1>10, <1>12, <1>13, <1>14 DEF LifeInv


\* delete me: nothing else waits for what was destroyed.
LEMMA DtorReturnsKeeps == ASSUME LifeInv, DtorReturns PROVE LifeInv'
<1> DEFINE n == Len(stack)
<1>1. /\ stack # <<>> /\ Top = stack[n] /\ n \in DOMAIN stack /\ Top.of \in All /\ Top.kind = "dtor"
  BY TopFacts DEF LifeInv, DtorReturns, InFrame
<1> PICK s \in All : s = Top.of
  BY <1>1
<1>2. /\ UNCHANGED <<phase, raised, budget, destroyedOnce, handlers, items, cursor, late, failed,
                     missed>>
      /\ stack' = Front(stack)
      /\ me' = [me EXCEPT ![s] = FALSE]
      /\ isDestroyed' = [isDestroyed EXCEPT ![s] = TRUE]
      /\ s = Tracker => cursor = Len(items)
  BY DEF DtorReturns
<1>3. /\ stack' \in Seq(Frame)
      /\ \A i \in DOMAIN stack' : i \in DOMAIN stack /\ i # n /\ stack'[i] = stack[i]
      /\ \A t : Dying(t) <=> Dying(t)' \/ Dtor(n, t)
      /\ TrackerDies => TrackerDies' \/ Dtor(n, Tracker)
  BY <1>1, <1>2, PoppedFrames DEF LifeInv
<1>4. Dtor(n, s) /\ Dying(s) /\ Lives(s) /\ phase # "running" /\ \A t : Dtor(n, t) => t = s
  BY <1>1 DEF LifeInv, DtorsInPlace, Dtor, Dying
<1>5. ASSUME s \in WithLongevity PROVE cursor > 0 /\ s = items[cursor]
  BY <1>1, <1>5 DEF LifeInv, DtorsInPlace
<1>6. \A i \in DOMAIN stack' : stack[i].kind = "dtor" => stack[i].of # s
  <2> SUFFICES ASSUME NEW i \in DOMAIN stack', stack[i].kind = "dtor", stack[i].of = s
               PROVE  FALSE
    OBVIOUS
  <2>1. i \in DOMAIN stack /\ i # n /\ Dtor(i, s)
    BY <1>3 DEF Dtor
  <2> QED
    BY <1>1, <1>4, <2>1, DtorsDiffer
<1> HIDE DEF n
<1>7. /\ me' \in [All -> BOOLEAN] /\ isDestroyed' \in [All -> BOOLEAN]
      /\ \A t \in All : me'[t] <=> me[t] /\ t # s
      /\ \A t \in All : isDestroyed'[t] <=> isDestroyed[t] \/ t = s
  BY <1>2 DEF LifeInv, TypeOK
<1>8. TypeOK'
  BY <1>2, <1>3, <1>7 DEF LifeInv, TypeOK
<1>9. \A t \in All : Lives(t) /\ t # s => me'[t] /\ ~isDestroyed'[t]
  BY <1>7 DEF Lives
<1>10. DtorsInPlace'
  <2> SUFFICES ASSUME NEW i \in DOMAIN stack', stack'[i].kind = "dtor"
               PROVE  /\ me'[stack[i].of] /\ ~isDestroyed'[stack[i].of]
                      /\ \/ i = 1 /\ stack[i].of \notin WithLongevity
                         \/ i = 2 /\ TrackerDies' /\ cursor > 0 /\ stack[i].of = items[cursor]
    BY <1>2, <1>3, <1>4 DEF DtorsInPlace, Lives, WithLongevity
  <2>1. i \in DOMAIN stack /\ i # n /\ stack[i].kind = "dtor" /\ stack[i].of \in All
    BY <1>3, StackFacts DEF LifeInv
  <2>2. Lives(stack[i].of) /\ stack[i].of # s
    BY <1>3, <1>6, <2>1 DEF LifeInv, DtorsInPlace
  <2>3. \/ i = 1 /\ stack[i].of \notin WithLongevity
        \/ i = 2 /\ TrackerDies /\ cursor > 0 /\ stack[i].of = items[cursor]
    BY <2>1 DEF LifeInv, DtorsInPlace
  <2>4. i = 2 /\ TrackerDies => TrackerDies'
    <3>1. ASSUME i = 2, TrackerDies, Dtor(n, Tracker) PROVE FALSE
      <4>1. 1 \in DOMAIN stack /\ Dtor(1, Tracker) /\ n \in DOMAIN stack
        BY <1>1, <3>1, StackFacts DEF LifeInv, TrackerDies
      <4>2. n = 1
        BY <3>1, <4>1, DtorsDiffer DEF All
      <4> QED
        BY <2>1, <3>1, <4>2, StackFacts DEF LifeInv, n
    <3> QED
      BY <1>3, <3>1
  <2> QED
    BY <1>9, <2>1, <2>2, <2>3, <2>4
<1>11. CtorsInPlace'
  <2>1. ASSUME NEW i \in DOMAIN stack', stack'[i].kind = "ctor"
        PROVE  stack[i].of \in Singletons /\ ~me'[stack[i].of] /\ ~isDestroyed'[stack[i].of]
    <3>1. i \in DOMAIN stack /\ stack[i].kind = "ctor"
      BY <1>3, <2>1
    <3>2. stack[i].of \in Singletons /\ ~me[stack[i].of] /\ ~isDestroyed[stack[i].of]
      BY <3>1 DEF LifeInv, CtorsInPlace
    <3> QED
      BY <1>4, <1>7, <3>2 DEF All, Lives
  <2>2. \A i, j \in DOMAIN stack' :
          stack'[i].kind = "ctor" /\ stack'[j].kind = "ctor" /\ stack'[i].of = stack'[j].of => i = j
    BY <1>3 DEF LifeInv, CtorsInPlace
  <2> QED
    BY <1>3, <2>1, <2>2 DEF CtorsInPlace
<1>12. HandlersInOrder'
  <2>1. \A i \in DOMAIN handlers : /\ handlers[i] \in All /\ handlers[i] \notin WithLongevity
                                   /\ Lives(handlers[i]) /\ ~Dying(handlers[i])
    BY QueueFacts DEF LifeInv, HandlersInOrder
  <2>2. \A i \in DOMAIN handlers : me'[handlers[i]] /\ ~isDestroyed'[handlers[i]]
    BY <1>4, <1>9, <2>1
  <2>3. \A t : ~Dying(t) => ~Dying(t)'
    BY <1>3
  <2> QED
    BY <1>2, <2>1, <2>2, <2>3 DEF LifeInv, HandlersInOrder, WithLongevity, Lives
<1>13. ItemsInOrder'
  <2>1. \A i \in DOMAIN items : items[i] \in All /\ items[i] \in WithLongevity
    BY QueueFacts DEF LifeInv, ItemsInOrder, All
  <2>2. ASSUME NEW i \in DOMAIN items, i > cursor PROVE items[i] # s
    <3>1. CASE s \in WithLongevity
      <4>1. cursor > 0 /\ s = items[cursor] /\ cursor \in DOMAIN items /\ i # cursor
        BY <1>5, <2>2, <3>1, QueueFacts DEF LifeInv, ItemsInOrder
      <4> QED
        BY <4>1 DEF LifeInv, ItemsInOrder
    <3>2. CASE s \notin WithLongevity
      BY <2>1, <3>2
    <3> QED
      BY <3>1, <3>2
  <2>3. ASSUME NEW i \in DOMAIN items
        PROVE  /\ me'[items[i]] \/ isDestroyed'[items[i]]
               /\ i > cursor => me'[items[i]] /\ ~isDestroyed'[items[i]]
    BY <1>7, <1>9, <2>1, <2>2 DEF LifeInv, ItemsInOrder
  <2> QED
    BY <1>2, <2>1, <2>3 DEF LifeInv, ItemsInOrder, WithLongevity, Lives
<1>14. AllScheduled'
  <2>1. \A t : (Registered(t)' <=> Registered(t)) /\ (Tracked(t)' <=> Tracked(t))
    BY <1>2 DEF Registered, Tracked
  <2>2. \A t \in Singletons : t \in All
    BY DEF All
  <2>3. \A t : Dying(t) /\ t # s => Dying(t)'
    BY <1>3, <1>4
  <2>4. TrackerDies /\ s # Tracker => TrackerDies'
    BY <1>3, <1>4
  <2>5. Tracker \in All
    BY DEF All
  <2>6. me'[Tracker] => Registered(Tracker)' \/ TrackerDies'
    BY <1>7, <2>1, <2>4, <2>5 DEF LifeInv, AllScheduled
  <2>7. cursor < Len(items) => me'[Tracker]
    <3>1. cursor < Len(items) => s # Tracker
      BY <1>2, QueueFacts DEF LifeInv
    <3> QED
      BY <1>7, <2>5, <3>1 DEF LifeInv, AllScheduled
  <2>8. \A t \in Singletons :
          me'[t] /\ ~late[t] /\ ~(Policy[t] = "phoenix" /\ failed[t])
            => Registered(t)' \/ Tracked(t)' \/ Dying(t)'
    BY <1>7, <2>1, <2>2, <2>3 DEF LifeInv, AllScheduled
  <2> QED
    BY <1>2, <2>6, <2>7, <2>8 DEF AllScheduled
<1>15. NoDeathsBeforeExit'
  BY <1>2, <1>4 DEF NoDeathsBeforeExit
<1>16. DeadInOrder'
  <2> SUFFICES ASSUME NEW t \in WithLongevity, isDestroyed'[t], ~failed[t]
               PROVE  \E i \in 1 .. cursor : items[i] = t
    BY <1>2 DEF DeadInOrder, WithLongevity
  <2>1. CASE t = s
    <3>1. cursor > 0 /\ s = items[cursor] /\ cursor \in 1 .. cursor
      BY <1>5, <2>1, QueueFacts DEF LifeInv
    <3> QED
      BY <2>1, <3>1
  <2>2. CASE t # s
    BY <1>7, <2>2 DEF LifeInv, DeadInOrder, WithLongevity, All
  <2> QED
    BY <2>1, <2>2
<1>17. EndOfLife'
  BY <1>1, <1>2 DEF LifeInv, EndOfLife
<1>18. LongerLivedUsable'
  BY <1>2 DEF LifeInv, LongerLivedUsable
<1>19. (\A t \in All : me[t] => ~isDestroyed[t])'
  BY <1>7 DEF LifeInv
<1> QED
  BY <1>8, <1>10, <1>11, <1>12, <1>13, <1>14, <1>15, <1>16, <1>17, <1>18, <1>19 DEF LifeInv

-----------------------------------------------------------------------------
LEMMA NextLife == LifeInv /\ [Next]_lifeVars => LifeInv'
<1> SUFFICES ASSUME LifeInv, [Next]_lifeVars PROVE LifeInv'
  OBVIOUS
<1>1. CASE UNCHANGED lifeVars
  <2>1. TypeOK' /\ EndOfLife' /\ LongerLivedUsable'
    BY <1>1 DEF LifeInv, TypeOK, EndOfLife, LongerLivedUsable, lifeVars
  <2>2. Len(stack') = Len(stack) /\ Kept(Len(stack))
    BY <1>1 DEF lifeVars, Kept
  <2> QED
    BY <1>1, <2>1, <2>2, QuietSteps DEF lifeVars
<1> QED
  BY <1>1, UseInstanceKeeps, UseDeadKeeps, UseFirstKeeps, CtorReturnsKeeps, CtorThrowsKeeps,
     PhasesKeep, RunHandlerKeeps, NextItemKeeps, DtorReturnsKeeps DEF Next

\* Destructors run where they should, what has not been destroyed waits in the right order, and
\* what is dead has had its turn.
THEOREM LifeInvariant == LifeSpec => []LifeInv
<1> QED
  BY InitLife, NextLife, PTL DEF LifeSpec

\* Singletons.h and SingletonPolicies: all state of the singletons keeps its type.
THEOREM LifeTypes == LifeSpec => []TypeOK
<1>1. LifeInv => TypeOK
  BY DEF LifeInv
<1> QED
  BY <1>1, LifeInvariant, PTL

\* A set without two elements is empty or has one.
LEMMA AtMostOnce ==
  ASSUME NEW S, \A a, b \in S : a = b
  PROVE  Cardinality(S) = IF S = {} THEN 0 ELSE 1
<1>1. CASE S = {}
  BY <1>1, FS_EmptySet
<1>2. CASE S # {}
  <2> PICK i \in S : TRUE
    BY <1>2
  <2>1. S = {i}
    OBVIOUS
  <2> QED
    BY <1>2, <2>1, FS_Singleton
<1> QED
  BY <1>1, <1>2

\* DestroySingleton is called at most once for an instance, and while there is one: its assertion
\* holds whatever constructors and destructors use, throw and catch.
THEOREM DestructionOnce == LifeSpec => []DestroyedOnce
<1>1. ASSUME LifeInv, NEW s \in All
      PROVE  Pending(s) = IF Registered(s) \/ Tracked(s) THEN 1 ELSE 0
  <2>1. /\ DOMAIN handlers = 1 .. Len(handlers) /\ Len(handlers) \in Nat
        /\ DOMAIN items = 1 .. Len(items) /\ Len(items) \in Nat /\ cursor \in Nat
        /\ cursor + 1 .. Len(items) \subseteq DOMAIN items
    BY <1>1, QueueFacts DEF LifeInv
  <2>2. \A a, b \in 1 .. Len(handlers) : handlers[a] = s /\ handlers[b] = s => a = b
    BY <1>1, <2>1 DEF LifeInv, HandlersInOrder
  <2>3. \A a, b \in cursor + 1 .. Len(items) : items[a] = s /\ items[b] = s => a = b
    BY <1>1, <2>1 DEF LifeInv, ItemsInOrder
  <2>4. Cardinality({i \in DOMAIN handlers : handlers[i] = s}) = IF Registered(s) THEN 1 ELSE 0
    <3> DEFINE S == {i \in DOMAIN handlers : handlers[i] = s}
    <3>1. \A a, b \in S : a = b
      BY <2>1, <2>2
    <3>2. Registered(s) <=> S # {}
      BY DEF Registered
    <3> HIDE DEF S
    <3>3. Cardinality(S) = IF Registered(s) THEN 1 ELSE 0
      BY <3>1, <3>2, AtMostOnce
    <3> QED
      BY <3>3 DEF S
  <2>5. Cardinality({i \in cursor + 1 .. Len(items) : items[i] = s}) = IF Tracked(s) THEN 1 ELSE 0
    <3> DEFINE S == {i \in cursor + 1 .. Len(items) : items[i] = s}
    <3>1. \A a, b \in S : a = b
      BY <2>3
    <3>2. Tracked(s) <=> S # {}
      BY DEF Tracked
    <3> HIDE DEF S
    <3>3. Cardinality(S) = IF Tracked(s) THEN 1 ELSE 0
      BY <3>1, <3>2, AtMostOnce
    <3> QED
      BY <3>3 DEF S
  <2>6. ~(Registered(s) /\ Tracked(s))
    BY <1>1, <2>1 DEF LifeInv, HandlersInOrder, ItemsInOrder, Registered, Tracked
  <2> QED
    BY <2>1, <2>4, <2>5, <2>6 DEF Pending
<1>2. ASSUME LifeInv, NEW s \in All, Registered(s) \/ Tracked(s) PROVE Lives(s) /\ ~Dying(s)
  <2>1. CASE Registered(s)
    BY <1>2, <2>1 DEF LifeInv, HandlersInOrder, Registered
  <2>2. CASE Tracked(s)
    <3> PICK i \in cursor + 1 .. Len(items) : items[i] = s
      BY <2>2 DEF Tracked
    <3>1. i \in DOMAIN items /\ i > cursor /\ cursor \in Nat /\ cursor <= Len(items)
      BY <1>2, QueueFacts DEF LifeInv, ItemsInOrder
    <3>2. Lives(s) /\ s \in WithLongevity
      BY <1>2, <3>1 DEF LifeInv, ItemsInOrder
    <3>3. ASSUME Dying(s) PROVE cursor > 0 /\ s = items[cursor]
      BY <1>2, <3>2, <3>3 DEF LifeInv, DtorsInPlace, Dying, Dtor
    <3>4. cursor > 0 => cursor \in DOMAIN items
      BY <1>2, <3>1, QueueFacts DEF LifeInv
    <3> QED
      BY <1>2, <3>1, <3>2, <3>3, <3>4 DEF LifeInv, ItemsInOrder
  <2> QED
    BY <1>2, <2>1, <2>2
<1>3. LifeInv => DestroyedOnce
  <2> SUFFICES ASSUME LifeInv, NEW s \in All
               PROVE  /\ me[s] => ~isDestroyed[s]
                      /\ Pending(s) <= 1
                      /\ Pending(s) = 1 => me[s] /\ ~isDestroyed[s]
                      /\ \A i \in 1 .. Len(stack) :
                           stack[i].kind = "dtor" /\ stack[i].of = s
                             => me[s] /\ ~isDestroyed[s] /\ Pending(s) = 0
    BY DEF DestroyedOnce
  <2>1. me[s] => ~isDestroyed[s]
    BY DEF LifeInv
  <2>2. Pending(s) <= 1 /\ (Pending(s) = 1 => Registered(s) \/ Tracked(s))
    BY <1>1
  <2>3. Dying(s) => Lives(s) /\ Pending(s) = 0
    <3>1. Dying(s) => Lives(s)
      BY DEF LifeInv, DtorsInPlace, Dying, Dtor
    <3>2. Dying(s) => ~Registered(s) /\ ~Tracked(s)
      BY <1>2
    <3> QED
      BY <1>1, <3>1, <3>2
  <2>4. \A i \in 1 .. Len(stack) : stack[i].kind = "dtor" /\ stack[i].of = s => Dying(s)
    BY StackFacts DEF LifeInv, Dying, Dtor
  <2> QED
    BY <1>2, <2>1, <2>2, <2>3, <2>4 DEF Lives
<1> QED
  BY <1>3, LifeInvariant, PTL

\* When the process has ended, what was made before the exit is gone, but for a Phoenix whose
\* first constructor threw.
THEOREM AllDestroyed == LifeSpec => []NoneLeft
<1>1. LifeInv => NoneLeft
  <2> SUFFICES ASSUME LifeInv, phase = "ended", NEW s \in Singletons, me[s]
               PROVE  late[s] \/ (Policy[s] = "phoenix" /\ failed[s])
    BY DEF NoneLeft
  <2>1. stack = <<>> /\ handlers = <<>>
    BY DEF LifeInv, EndOfLife
  <2>2. (\A t : ~Registered(t) /\ ~Dying(t)) /\ ~TrackerDies
    BY <2>1 DEF Registered, Dying, TrackerDies
  <2>3. ~(cursor < Len(items))
    BY <2>2 DEF LifeInv, AllScheduled
  <2>4. ~Tracked(s)
    BY <2>3, QueueFacts DEF LifeInv, Tracked
  <2> QED
    BY <2>2, <2>4 DEF LifeInv, AllScheduled
<1> QED
  BY <1>1, LifeInvariant, PTL

\* The destructor of a singleton finds those that are to live longer, unless their constructor
\* has failed.
THEOREM LongerLivedStay == LifeSpec => []LongerLivedUsable
<1>1. LifeInv => LongerLivedUsable
  BY DEF LifeInv
<1> QED
  BY <1>1, LifeInvariant, PTL

\* SetLongevity: no singleton is gone while one with a smaller longevity, made before the exit,
\* is still there.
THEOREM DestructionInOrder == LifeSpec => ShorterLivedFirst
<1>1. LifeInv /\ [Next]_lifeVars
        => [\A s, t \in Singletons :
              /\ Policy[s] = "longevity" /\ Policy[t] = "longevity" /\ Longevity[s] < Longevity[t]
              /\ me[s] /\ ~late[s] /\ me[t] /\ me'[s]
              => me'[t]]_lifeVars
  <2> SUFFICES ASSUME LifeInv, [Next]_lifeVars, NEW s \in Singletons, NEW t \in Singletons,
                      Policy[s] = "longevity", Policy[t] = "longevity",
                      Longevity[s] < Longevity[t], me[s], ~late[s], me[t], me'[s], ~me'[t]
               PROVE  FALSE
    OBVIOUS
  <2>1. DtorReturns
    <3>1. me \in [All -> BOOLEAN] /\ t \in All
      BY DEF LifeInv, TypeOK, All
    <3>2. CASE CtorReturns
      BY <3>1, <3>2 DEF CtorReturns, ScheduleAtExit, ScheduleNothing, ScheduleByLongevity,
                        ScheduleTooLate
    <3> QED
      BY <3>2 DEF Next, lifeVars, UseInstance, UseDead, UseFirst, CtorThrows, Catch, Terminate,
                  Exit, RunHandler, NextItem, End
  <2>2. Top.of = t /\ stack # <<>> /\ Top.kind = "dtor"
    BY <2>1 DEF DtorReturns, InFrame, LifeInv, TypeOK, All
  <2>3. s \in WithLongevity /\ t \in WithLongevity /\ ~(Longevity[t] <= Longevity[s])
    BY DEF WithLongevity
  <2>4. cursor > 0 /\ items[cursor] = t
    BY <2>2, <2>3, TopFacts DEF LifeInv, DtorsInPlace
  <2>5. ~Registered(s)
    BY <2>3 DEF LifeInv, HandlersInOrder, Registered
  <2>6. ~Tracked(s)
    <3> SUFFICES ASSUME NEW i \in cursor + 1 .. Len(items), items[i] = s PROVE FALSE
      BY DEF Tracked
    <3>1. cursor \in DOMAIN items /\ i \in DOMAIN items /\ cursor < i
      BY <2>4, QueueFacts DEF LifeInv
    <3> QED
      BY <2>3, <2>4, <3>1 DEF LifeInv, ItemsInOrder
  <2>7. ~Dying(s)
    <3> SUFFICES ASSUME NEW i \in DOMAIN stack, Dtor(i, s) PROVE FALSE
      BY DEF Dying
    <3>1. s = t
      BY <2>3, <2>4 DEF LifeInv, DtorsInPlace, Dtor
    <3> QED
      BY <3>1
  <2> QED
    BY <2>3, <2>5, <2>6, <2>7 DEF LifeInv, AllScheduled, WithLongevity
<1> QED
  BY <1>1, LifeInvariant, PTL DEF LifeSpec, ShorterLivedFirst

=============================================================================
