------------------------ MODULE SocketHandle_proofs -------------------------
(* The reference counts of Socket are right, and so no descriptor is leaked, *)
(* closed twice or closed under another owner, for any number of objects,    *)
(* descriptors and heap cells.                                               *)
(*                                                                           *)
(* Every operation takes one object h out of what is counted (Close) and     *)
(* puts it back: empty, with a fresh cell, or as another holder of a cell.   *)
(* AfterClose says what the counts and the kernel hold while h is out; one   *)
(* lemma for each way of putting it back restores the invariant.             *)
EXTENDS SocketHandle, FiniteSetTheorems, TLAPS

USE HandleAssumption DEF HandleAssumption

Objects == [alive : BOOLEAN, sock : Fds \cup {NoFd}, ref : Cells \cup {NoCell},
            status : Statuses, bcast : BOOLEAN, upnp : Ports \cup {NoPort}]

Sockets == [kind : {"free", "tcp", "udp"}, blocking : BOOLEAN]

\* Objects that count in the same cell have the same descriptor, or none.
CellsAgree ==
  \A g, h \in Slots :
    handle[g].ref = handle[h].ref /\ handle[g].ref # NoCell
      => handle[g].sock = handle[h].sock /\ handle[g].status = handle[h].status

\* A slot without an object holds no reference.
DeadEmpty == \A h \in Slots : ~handle[h].alive => handle[h].ref = NoCell

HandleInv ==
  TypeOK /\ CountsOwners /\ OpenIffHeld /\ SharersAgree /\ CellsAgree /\ DeadEmpty

\* n counts, and o has open, what the objects other than h hold.
Others(h, r) == {g \in Slots \ {h} : handle[g].ref = r}

CountsOthers(h, n) == n \in [Cells -> Nat] /\ \A r \in Cells : n[r] = Cardinality(Others(h, r))

OpenIffOthers(h, o) ==
  /\ o \in [Fds -> Sockets]
  /\ \A f \in Fds : o[f] # Free <=> \E g \in Slots \ {h} : handle[g].sock = f

-----------------------------------------------------------------------------
\* Owners and Others are finite, and they differ by h.
LEMMA OwnersFinite ==
  ASSUME NEW h \in Slots, NEW r
  PROVE  /\ IsFiniteSet(Owners(r)) /\ IsFiniteSet(Others(h, r))
         /\ Cardinality(Owners(r)) \in Nat /\ Cardinality(Others(h, r)) \in Nat
         /\ handle[h].ref = r => Cardinality(Owners(r)) = Cardinality(Others(h, r)) + 1
         /\ handle[h].ref # r => Owners(r) = Others(h, r)
<1>1. IsFiniteSet(Owners(r)) /\ IsFiniteSet(Others(h, r))
  BY FS_Subset DEF Owners, Others
<1>2. Cardinality(Owners(r)) \in Nat /\ Cardinality(Others(h, r)) \in Nat
  BY <1>1, FS_CardinalityType
<1>3. handle[h].ref # r => Owners(r) = Others(h, r)
  BY DEF Owners, Others
<1>4. ASSUME handle[h].ref = r PROVE Cardinality(Owners(r)) = Cardinality(Others(h, r)) + 1
  <2>1. Owners(r) = Others(h, r) \cup {h} /\ h \notin Others(h, r)
    BY <1>4 DEF Owners, Others
  <2> QED BY <2>1, <1>1, FS_AddElement
<1> QED BY <1>1, <1>2, <1>3, <1>4

\* Nobody else has a cell that counts nobody else.
LEMMA NobodyElse ==
  ASSUME NEW h \in Slots, NEW n, CountsOthers(h, n), NEW r \in Cells
  PROVE  n[r] = 0 <=> \A g \in Slots \ {h} : handle[g].ref # r
<1>1. n[r] = 0 <=> Others(h, r) = {}
  BY OwnersFinite, FS_EmptySet DEF CountsOthers
<1> QED BY <1>1 DEF Others

\* With h out, the counts and the open descriptors are those of the others.
LEMMA AfterClose ==
  ASSUME HandleInv, NEW h \in Slots
  PROVE  /\ CountsOthers(h, CountAfterClose(count, handle[h]))
         /\ OpenIffOthers(h, KernelAfterClose(count, handle[h]))
<1> DEFINE n == CountAfterClose(count, handle[h])
           o == KernelAfterClose(count, handle[h])
<1>1. CountsOthers(h, n)
  <2>1. ASSUME NEW r \in Cells PROVE n[r] = Cardinality(Others(h, r))
    <3>1. count[r] = Cardinality(Owners(r)) /\ count \in [Cells -> Nat]
      BY DEF HandleInv, CountsOwners, TypeOK
    <3>2. handle[h].ref = r => n[r] = count[r] - 1
      BY <3>1 DEF CountAfterClose
    <3>3. handle[h].ref # r => n[r] = count[r]
      BY <3>1 DEF CountAfterClose
    <3> QED BY <3>1, <3>2, <3>3, OwnersFinite
  <2>2. n \in [Cells -> Int]
    BY DEF CountAfterClose, HandleInv, TypeOK
  <2>3. \A r \in Cells : n[r] \in Nat
    BY <2>1, OwnersFinite
  <2> QED BY <2>1, <2>2, <2>3 DEF CountsOthers
<1>2. handle[h].ref \in Cells =>
        (LastRef(count, handle[h]) <=> \A g \in Slots \ {h} : handle[g].ref # handle[h].ref)
  <2> SUFFICES ASSUME handle[h].ref \in Cells
               PROVE  count[handle[h].ref] <= 1
                        <=> \A g \in Slots \ {h} : handle[g].ref # handle[h].ref
    BY DEF LastRef
  <2>1. n[handle[h].ref] = count[handle[h].ref] - 1 /\ count[handle[h].ref] \in Nat
        /\ n[handle[h].ref] \in Nat
    BY <1>1 DEF CountAfterClose, HandleInv, TypeOK, CountsOthers
  <2> QED BY <2>1, <1>1, NobodyElse
<1>3. OpenIffOthers(h, o)
  <2>1. o \in [Fds -> Sockets]
    BY DEF KernelAfterClose, HandleInv, TypeOK, Sockets, Free
  <2>2. ASSUME NEW f \in Fds
        PROVE  o[f] # Free <=> \E g \in Slots \ {h} : handle[g].sock = f
    <3>1. /\ kernel[f] # Free <=> \E g \in Slots : handle[g].sock = f
          /\ handle[h].ref \in Cells \cup {NoCell}
          /\ handle[h].ref = NoCell => handle[h].sock = NoFd
      BY DEF HandleInv, OpenIffHeld, TypeOK
    <3>2. CASE handle[h].sock # f
      <4>1. o[f] = kernel[f]
        BY <3>2 DEF KernelAfterClose, HandleInv, TypeOK
      <4> QED BY <4>1, <3>1, <3>2
    <3>3. CASE handle[h].sock = f /\ LastRef(count, handle[h])
      <4>1. o[f] = Free
        BY <3>3 DEF KernelAfterClose, HandleInv, TypeOK
      <4>2. \A g \in Slots \ {h} : handle[g].sock # f
        BY <1>2, <3>1, <3>3 DEF HandleInv, SharersAgree
      <4> QED BY <4>1, <4>2
    <3>4. CASE handle[h].sock = f /\ ~LastRef(count, handle[h])
      <4>1. o[f] = kernel[f]
        BY <3>4 DEF KernelAfterClose
      <4>2. \E g \in Slots \ {h} : handle[g].ref = handle[h].ref
        BY <1>2, <3>1, <3>4
      <4>3. \E g \in Slots \ {h} : handle[g].sock = f
        BY <4>2, <3>1, <3>4 DEF HandleInv, CellsAgree
      <4> QED BY <4>1, <4>3, <3>1
    <3> QED BY <3>2, <3>3, <3>4
  <2> QED BY <2>1, <2>2 DEF OpenIffOthers
<1> QED BY <1>1, <1>3

-----------------------------------------------------------------------------
\* What may be put back as h: the object v, which refers to no cell, to a cell and a descriptor
\* that nobody else has, or to what another object refers to.
Fits(h, v) ==
  /\ v \in Objects
  /\ v.ref = NoCell => v.sock = NoFd
  /\ v.status # "invalid" <=> v.sock # NoFd
  /\ ~v.alive => v.ref = NoCell
  /\ \A g \in Slots \ {h} :
       /\ handle[g].ref = v.ref /\ v.ref # NoCell => handle[g].sock = v.sock /\ handle[g].status = v.status
       /\ handle[g].sock = v.sock /\ v.sock # NoFd => handle[g].ref = v.ref /\ handle[g].status = v.status

\* Only h changes; n gets the reference of the object v, and o its descriptor.
Changes(h) == handle' \in [Slots -> Objects] /\ \A g \in Slots \ {h} : handle'[g] = handle[g]

Counted(n, v) ==
  count' \in [Cells -> Nat] /\ \A r \in Cells : count'[r] = IF v.ref = r THEN n[r] + 1 ELSE n[r]

Opened(o, v) ==
  /\ kernel' \in [Fds -> Sockets]
  /\ \A f \in Fds : kernel'[f] # Free <=> o[f] # Free \/ v.sock = f

LEMMA PutBack ==
  ASSUME HandleInv, NEW h \in Slots, Fits(h, handle'[h]), Changes(h), mapped' \subseteq Ports,
         NEW n, CountsOthers(h, n), Counted(n, handle'[h]),
         NEW o, OpenIffOthers(h, o), Opened(o, handle'[h])
  PROVE  HandleInv'
<1> DEFINE v == handle'[h]
<1>1. /\ handle' \in [Slots -> Objects] /\ handle'[h] = v /\ Fits(h, v)
      /\ \A g \in Slots \ {h} : handle'[g] = handle[g]
  BY DEF Changes
<1> HIDE DEF v
<1>2. TypeOK'
  BY <1>1 DEF Counted, Opened, TypeOK, Objects, Sockets
<1>3. ASSUME NEW r \in Cells PROVE count'[r] = Cardinality(Owners(r)')
  <2>1. n[r] = Cardinality(Others(h, r)) /\ n \in [Cells -> Nat]
    BY DEF CountsOthers
  <2>2. IsFiniteSet(Others(h, r)) /\ h \notin Others(h, r)
    BY OwnersFinite DEF Others
  <2>3. CASE v.ref = r
    <3>1. Owners(r)' = Others(h, r) \cup {h}
      BY <1>1, <2>3 DEF Owners, Others
    <3>2. count'[r] = n[r] + 1
      BY <1>1, <2>3 DEF Counted
    <3> QED BY <3>1, <3>2, <2>1, <2>2, FS_AddElement
  <2>4. CASE v.ref # r
    <3>1. Owners(r)' = Others(h, r)
      BY <1>1, <2>4 DEF Owners, Others
    <3>2. count'[r] = n[r]
      BY <1>1, <2>4 DEF Counted
    <3> QED BY <3>1, <3>2, <2>1
  <2> QED BY <2>3, <2>4
<1>4. OpenIffHeld'
  <2>1. ASSUME NEW f \in Fds
        PROVE  kernel'[f] # Free <=> \E g \in Slots : handle'[g].sock = f
    BY <1>1 DEF OpenIffOthers, Opened
  <2>2. ASSUME NEW g \in Slots
        PROVE  /\ handle'[g].status # "invalid" <=> handle'[g].sock # NoFd
               /\ handle'[g].ref = NoCell => handle'[g].sock = NoFd
    BY <1>1 DEF HandleInv, OpenIffHeld, Fits
  <2>3. (Free)' = Free
    BY DEF Free
  <2> QED BY <2>1, <2>2, <2>3 DEF OpenIffHeld
<1>5. SharersAgree' /\ CellsAgree'
  <2> SUFFICES ASSUME NEW g \in Slots, NEW k \in Slots
               PROVE  /\ handle'[g].sock = handle'[k].sock /\ handle'[g].sock # NoFd
                           => handle'[g].ref = handle'[k].ref /\ handle'[g].status = handle'[k].status
                      /\ handle'[g].ref = handle'[k].ref /\ handle'[g].ref # NoCell
                           => handle'[g].sock = handle'[k].sock /\ handle'[g].status = handle'[k].status
    BY DEF SharersAgree, CellsAgree
  <2> QED BY <1>1 DEF HandleInv, SharersAgree, CellsAgree, Fits
<1>6. DeadEmpty'
  BY <1>1 DEF HandleInv, DeadEmpty, Fits
<1> QED BY <1>2, <1>3, <1>4, <1>5, <1>6 DEF HandleInv, CountsOwners

\* The same with d out, when d takes over what h had and h is left with nothing.
LEMMA TakeOver ==
  ASSUME HandleInv, NEW d \in Slots, NEW h \in Slots, d # h,
         handle' \in [Slots -> Objects], \A g \in Slots \ {d, h} : handle'[g] = handle[g],
         handle'[d].alive, handle'[d].ref = handle[h].ref, handle'[d].sock = handle[h].sock,
         handle'[d].status = handle[h].status,
         handle'[h].ref = NoCell, handle'[h].sock = NoFd, handle'[h].status = "invalid",
         CountsOthers(d, count'), OpenIffOthers(d, kernel'), mapped' \subseteq Ports
  PROVE  HandleInv'
<1>1. TypeOK'
  BY DEF TypeOK, Objects, Sockets, CountsOthers, OpenIffOthers
<1>2. ASSUME NEW r \in Cells PROVE count'[r] = Cardinality(Owners(r)')
  <2>1. count'[r] = Cardinality(Others(d, r)) /\ IsFiniteSet(Others(d, r))
        /\ Cardinality(Others(d, r)) \in Nat
    BY OwnersFinite DEF CountsOthers
  <2>2. CASE handle[h].ref = r
    <3>1. /\ Owners(r)' = (Others(d, r) \ {h}) \cup {d}
          /\ h \in Others(d, r) /\ d \notin Others(d, r) \ {h}
      BY <2>2 DEF Owners, Others
    <3>2. /\ IsFiniteSet(Others(d, r) \ {h})
          /\ Cardinality(Others(d, r) \ {h}) = Cardinality(Others(d, r)) - 1
      BY <2>1, <3>1, FS_RemoveElement
    <3>3. Cardinality(Owners(r)') = Cardinality(Others(d, r) \ {h}) + 1
      BY <3>1, <3>2, FS_AddElement
    <3> QED BY <2>1, <3>2, <3>3
  <2>3. CASE handle[h].ref # r
    <3>1. Owners(r)' = Others(d, r)
      BY <2>3 DEF Owners, Others
    <3> QED BY <2>1, <3>1
  <2> QED BY <2>2, <2>3
<1>3. OpenIffHeld'
  <2>1. ASSUME NEW f \in Fds
        PROVE  kernel'[f] # Free <=> \E g \in Slots : handle'[g].sock = f
    BY DEF OpenIffOthers
  <2>2. ASSUME NEW g \in Slots
        PROVE  /\ handle'[g].status # "invalid" <=> handle'[g].sock # NoFd
               /\ handle'[g].ref = NoCell => handle'[g].sock = NoFd
    BY DEF HandleInv, OpenIffHeld
  <2>3. (Free)' = Free
    BY DEF Free
  <2> QED BY <2>1, <2>2, <2>3 DEF OpenIffHeld
<1>4. SharersAgree' /\ CellsAgree'
  <2> SUFFICES ASSUME NEW g \in Slots, NEW k \in Slots
               PROVE  /\ handle'[g].sock = handle'[k].sock /\ handle'[g].sock # NoFd
                           => handle'[g].ref = handle'[k].ref /\ handle'[g].status = handle'[k].status
                      /\ handle'[g].ref = handle'[k].ref /\ handle'[g].ref # NoCell
                           => handle'[g].sock = handle'[k].sock /\ handle'[g].status = handle'[k].status
    BY DEF SharersAgree, CellsAgree
  <2> QED BY DEF HandleInv, SharersAgree, CellsAgree
<1>5. DeadEmpty'
  BY DEF HandleInv, DeadEmpty
<1> QED BY <1>1, <1>2, <1>3, <1>4, <1>5 DEF HandleInv, CountsOwners

-----------------------------------------------------------------------------
\* The router's ports stay ports.
LEMMA UnmapType == ASSUME HandleInv, NEW n, NEW s, Unmap(n, s) PROVE mapped' \subseteq Ports
BY DEF Unmap, HandleInv, TypeOK

\* An empty slot counts nowhere: what is there without it is what is there.
LEMMA DeadOut ==
  ASSUME HandleInv, NEW d \in Slots, ~Alive(d)
  PROVE  CountsOthers(d, count) /\ OpenIffOthers(d, kernel)
<1>1. handle[d].ref = NoCell /\ handle[d].sock = NoFd
  BY DEF HandleInv, DeadEmpty, OpenIffHeld, Alive
<1>2. CountAfterClose(count, handle[d]) = count /\ KernelAfterClose(count, handle[d]) = kernel
  BY <1>1 DEF CountAfterClose, KernelAfterClose
<1> QED BY <1>2, AfterClose

\* An object without a reference can take any place.
LEMMA EmptyFits ==
  ASSUME NEW h \in Slots, NEW v \in Objects, v.ref = NoCell, v.sock = NoFd, v.status = "invalid"
  PROVE  Fits(h, v)
BY DEF Fits

\* So can one with a new cell, and with a descriptor that none of the others has.
LEMMA FreshFits ==
  ASSUME NEW h \in Slots, NEW v \in Objects, v.alive, NEW n, CountsOthers(h, n),
         v.ref \in Cells, n[v.ref] = 0, v.status # "invalid" <=> v.sock # NoFd,
         \A g \in Slots \ {h} : handle[g].sock = v.sock => v.sock = NoFd
  PROVE  Fits(h, v)
<1>1. \A g \in Slots \ {h} : handle[g].ref # v.ref
  BY NobodyElse
<1> QED BY <1>1 DEF Fits

\* So can a copy of another object.
LEMMA CopyFits ==
  ASSUME HandleInv, NEW d \in Slots, NEW h \in Slots, NEW v \in Objects, v.alive,
         v.ref = handle[h].ref, v.sock = handle[h].sock, v.status = handle[h].status
  PROVE  Fits(d, v)
BY DEF HandleInv, OpenIffHeld, SharersAgree, CellsAgree, Fits

\* What a slot holds before construction and what the default constructor leaves.
LEMMA DeadIsObject ==
  /\ Dead \in Objects /\ Dead.ref = NoCell /\ Dead.sock = NoFd /\ Dead.status = "invalid"
  /\ Empty \in Objects /\ Empty.ref = NoCell /\ Empty.sock = NoFd /\ Empty.status = "invalid"
  /\ ~Dead.alive /\ Empty.alive /\ Dead.upnp = NoPort
<1>1. Dead \in Objects
  BY DEF Dead, Objects, Statuses
<1>2. Dead.ref = NoCell /\ Dead.sock = NoFd /\ Dead.status = "invalid" /\ ~Dead.alive /\ Dead.upnp = NoPort
  BY DEF Dead
<1> QED BY <1>1, <1>2 DEF Empty, Objects

\* Close and the destructor put h back with nothing.
LEMMA CloseStep == ASSUME HandleInv, NEW h \in Slots, Close(h) \/ Destroy(h) PROVE HandleInv'
<1>1. (handle' = [handle EXCEPT ![h] = Closed(@)] \/ handle' = [handle EXCEPT ![h] = Dead])
      /\ Release(count, handle[h])
  BY DEF Close, Destroy
<1>2. handle[h] \in Objects /\ handle \in [Slots -> Objects]
  BY DEF HandleInv, TypeOK, Objects
<1>3. handle'[h] \in {Closed(handle[h]), Dead} /\ \A g \in Slots \ {h} : handle'[g] = handle[g]
  BY <1>1, <1>2
<1>4. /\ handle'[h] \in Objects /\ handle'[h].ref = NoCell /\ handle'[h].sock = NoFd
      /\ handle'[h].status = "invalid"
  <2>1. CASE handle'[h] = Closed(handle[h])
    BY <1>2, <2>1 DEF Closed, Objects, Statuses
  <2>2. CASE handle'[h] = Dead
    BY <2>2, DeadIsObject
  <2> QED BY <1>3, <2>1, <2>2
<1>5. Changes(h) /\ Fits(h, handle'[h])
  <2>1. handle' \in [Slots -> Objects]
    BY <1>1, <1>2, <1>4
  <2> QED BY <2>1, <1>3, <1>4, EmptyFits DEF Changes
<1>6. /\ count' = CountAfterClose(count, handle[h])
      /\ kernel' = KernelAfterClose(count, handle[h])
      /\ mapped' \subseteq Ports
  BY <1>1, UnmapType DEF Release
<1>7. CountsOthers(h, count') /\ OpenIffOthers(h, kernel')
  BY <1>6, AfterClose
<1>8. Counted(count', handle'[h]) /\ Opened(kernel', handle'[h])
  BY <1>4, <1>7 DEF Counted, Opened, CountsOthers, OpenIffOthers
<1> QED BY <1>5, <1>6, <1>7, <1>8, PutBack

\* A new socket comes with a new cell, be it the one that Close just freed.
LEMMA ReopenStep ==
  ASSUME HandleInv, NEW h \in Slots, NEW f \in Fds, NEW r \in Cells,
         NEW k \in {Tcp(TRUE), Tcp(FALSE), Udp}, NEW status \in Statuses \ {"invalid"},
         Reopen(h, f, r, k, status), mapped' \subseteq Ports
  PROVE  HandleInv'
<1> DEFINE n == CountAfterClose(count, handle[h])
           o == KernelAfterClose(count, handle[h])
<1>1. /\ Alive(h) /\ n[r] = 0 /\ o[f] = Free /\ count' = [n EXCEPT ![r] = 1]
      /\ kernel' = [o EXCEPT ![f] = k]
      /\ handle' = [handle EXCEPT ![h] = [@ EXCEPT !.sock = f, !.ref = r, !.status = status,
                                                  !.bcast = k.kind = "udp"]]
  BY DEF Reopen
<1>2. CountsOthers(h, n) /\ OpenIffOthers(h, o)
  BY AfterClose
<1>3. handle[h] \in Objects /\ handle[h].alive /\ handle \in [Slots -> Objects]
  BY <1>1 DEF HandleInv, TypeOK, Objects, Alive
<1>4. /\ handle'[h] \in Objects /\ handle'[h].alive /\ handle'[h].ref = r
      /\ handle'[h].sock = f /\ handle'[h].status = status
  BY <1>1, <1>3 DEF Objects
<1> HIDE DEF n, o
<1>5. Changes(h)
  BY <1>1, <1>3, <1>4 DEF Changes
<1>6. \A g \in Slots \ {h} : handle[g].sock # f
  BY <1>1, <1>2 DEF OpenIffOthers
<1>7. Fits(h, handle'[h])
  BY <1>1, <1>2, <1>4, <1>6, FreshFits
<1>8. Counted(n, handle'[h])
  BY <1>1, <1>2, <1>4 DEF CountsOthers, Counted
<1>9. k \in Sockets /\ k # Free
  <2>1. CASE k = Udp
    BY <2>1 DEF Udp, Sockets, Free
  <2>2. ASSUME NEW b \in BOOLEAN, k = Tcp(b) PROVE k \in Sockets /\ k # Free
    BY <2>2 DEF Tcp, Sockets, Free
  <2> QED BY <2>1, <2>2
<1>10. Opened(o, handle'[h])
  BY <1>1, <1>2, <1>4, <1>9 DEF OpenIffOthers, Opened
<1> QED BY <1>2, <1>5, <1>7, <1>8, <1>10, PutBack

\* So does a failure to create one, without a descriptor.
LEMMA ReopenFailsStep ==
  ASSUME HandleInv, NEW h \in Slots, NEW r \in Cells, NEW udp \in BOOLEAN, ReopenFails(h, r, udp)
  PROVE  HandleInv'
<1> DEFINE n == CountAfterClose(count, handle[h])
<1>1. /\ Alive(h) /\ n[r] = 0 /\ count' = [n EXCEPT ![r] = 1]
      /\ kernel' = KernelAfterClose(count, handle[h])
      /\ handle' = [handle EXCEPT ![h] = [Closed(@) EXCEPT !.ref = r, !.bcast = udp]]
      /\ Unmap(count, handle[h])
  BY DEF ReopenFails
<1>2. CountsOthers(h, n) /\ OpenIffOthers(h, kernel')
  BY <1>1, AfterClose
<1>3. handle[h] \in Objects /\ handle[h].alive /\ handle \in [Slots -> Objects]
  BY <1>1 DEF HandleInv, TypeOK, Objects, Alive
<1>4. /\ handle'[h] \in Objects /\ handle'[h].alive /\ handle'[h].ref = r
      /\ handle'[h].sock = NoFd /\ handle'[h].status = "invalid"
  BY <1>1, <1>3 DEF Objects, Closed, Statuses
<1> HIDE DEF n
<1>5. Changes(h)
  BY <1>1, <1>3, <1>4 DEF Changes
<1>6. Fits(h, handle'[h])
  BY <1>1, <1>2, <1>4, FreshFits
<1>7. Counted(n, handle'[h]) /\ Opened(kernel', handle'[h])
  BY <1>1, <1>2, <1>4 DEF CountsOthers, OpenIffOthers, Counted, Opened
<1>8. mapped' \subseteq Ports
  BY <1>1, UnmapType
<1> QED BY <1>2, <1>5, <1>6, <1>7, <1>8, PutBack

\* Create, Connect and Listen leave one of the two.
LEMMA OpenStep ==
  ASSUME HandleInv, NEW h \in Slots,
         Create(h) \/ Connect(h) \/ (\E p \in Ports : Listen(h, p))
  PROVE  HandleInv'
<1>1. ASSUME NEW r \in Cells, NEW udp \in BOOLEAN, ReopenFails(h, r, udp) PROVE HandleInv'
  BY <1>1, ReopenFailsStep
<1>2. ASSUME NEW r \in Cells, NEW f \in Fds, NEW k \in {Tcp(TRUE), Tcp(FALSE), Udp},
             NEW status \in {"valid", "listen", "connected"}, Reopen(h, f, r, k, status),
             mapped' \subseteq Ports
      PROVE  HandleInv'
  BY <1>2, ReopenStep DEF Statuses
<1>3. CASE Create(h)
  BY <1>1, <1>2, <1>3, UnmapType DEF Create
<1>4. CASE Connect(h)
  BY <1>1, <1>2, <1>4, UnmapType DEF Connect
<1>5. ASSUME NEW p \in Ports, Listen(h, p) PROVE HandleInv'
  <2>1. mapped' = mapped \cup {p} => mapped' \subseteq Ports
    BY DEF HandleInv, TypeOK
  <2> QED BY <1>1, <1>2, <1>5, <2>1, UnmapType DEF Listen
<1> QED BY <1>3, <1>4, <1>5

\* The default constructor.
LEMMA ConstructStep == ASSUME HandleInv, NEW d \in Slots, Construct(d) PROVE HandleInv'
<1>1. /\ ~Alive(d) /\ handle' = [handle EXCEPT ![d] = Empty]
      /\ count' = count /\ kernel' = kernel /\ mapped' \subseteq Ports
  BY DEF Construct, HandleInv, TypeOK
<1>2. CountsOthers(d, count) /\ OpenIffOthers(d, kernel)
  BY <1>1, DeadOut
<1>3. handle \in [Slots -> Objects]
  BY DEF HandleInv, TypeOK, Objects
<1>4. handle'[d] = Empty /\ Changes(d) /\ Fits(d, handle'[d])
  BY <1>1, <1>3, DeadIsObject, EmptyFits DEF Changes
<1>5. Counted(count, handle'[d]) /\ Opened(kernel, handle'[d])
  BY <1>1, <1>2, <1>4, DeadIsObject DEF Counted, Opened, CountsOthers, OpenIffOthers
<1> QED BY <1>1, <1>2, <1>4, <1>5, PutBack

\* accept() fills a slot that held nothing.
LEMMA AcceptStep ==
  ASSUME HandleInv, NEW d \in Slots, NEW h \in Slots, Accept(h, d) PROVE HandleInv'
<1>1. ~Alive(d) /\ mapped' = mapped
  BY DEF Accept
<1>2. mapped' \subseteq Ports /\ handle \in [Slots -> Objects]
  BY <1>1 DEF HandleInv, TypeOK, Objects
<1>3. ASSUME handle' = [handle EXCEPT ![d] = Empty] /\ UNCHANGED <<count, kernel>>
      PROVE  HandleInv'
  <2>1. Construct(d)
    BY <1>3, <1>1 DEF Construct
  <2> QED BY <2>1, ConstructStep
<1>4. ASSUME NEW f \in Fds, NEW r \in Cells, kernel[f] = Free, count[r] = 0,
             kernel' = [kernel EXCEPT ![f] = Tcp(TRUE)], count' = [count EXCEPT ![r] = 1],
             handle' = [handle EXCEPT ![d] = [Empty EXCEPT !.sock = f, !.ref = r, !.status = "connected"]]
      PROVE  HandleInv'
  <2>2. CountsOthers(d, count) /\ OpenIffOthers(d, kernel)
    BY <1>1, DeadOut
  <2>3. handle'[d] = [Empty EXCEPT !.sock = f, !.ref = r, !.status = "connected"]
    BY <1>4, <1>2
  <2>4. /\ handle'[d] \in Objects /\ handle'[d].alive /\ handle'[d].ref = r
        /\ handle'[d].sock = f /\ handle'[d].status = "connected"
    BY <2>3, DeadIsObject DEF Objects, Statuses
  <2>5. Changes(d)
    BY <1>4, <1>2, <2>4 DEF Changes
  <2>6. \A g \in Slots \ {d} : handle[g].sock # f
    BY <1>4, <2>2 DEF OpenIffOthers
  <2>7. Fits(d, handle'[d])
    BY <1>4, <2>2, <2>4, <2>6, FreshFits
  <2>8. Counted(count, handle'[d])
    BY <1>4, <2>2, <2>4 DEF CountsOthers, Counted
  <2>9. Tcp(TRUE) \in Sockets /\ Tcp(TRUE) # Free
    BY DEF Tcp, Sockets, Free
  <2>10. Opened(kernel, handle'[d])
    BY <1>4, <2>2, <2>4, <2>9 DEF OpenIffOthers, Opened
  <2> QED BY <1>2, <2>2, <2>5, <2>7, <2>8, <2>10, PutBack
<1> QED
  <2>1. \/ handle' = [handle EXCEPT ![d] = Empty] /\ UNCHANGED <<count, kernel>>
        \/ \E f \in Fds : \E r \in Cells :
             /\ kernel[f] = Free /\ count[r] = 0
             /\ kernel' = [kernel EXCEPT ![f] = Tcp(TRUE)]
             /\ count' = [count EXCEPT ![r] = 1]
             /\ handle' = [handle EXCEPT ![d] =
                  [Empty EXCEPT !.sock = f, !.ref = r, !.status = "connected"]]
    BY DEF Accept
  <2> QED BY <1>3, <1>4, <2>1

\* A copy is one more owner of a cell that has one.
LEMMA CopyConstructStep ==
  ASSUME HandleInv, NEW d \in Slots, NEW h \in Slots, CopyConstruct(d, h) PROVE HandleInv'
<1>1. /\ Alive(h) /\ ~Alive(d) /\ handle' = [handle EXCEPT ![d] = Copy(handle[h])]
      /\ count' = AddRef(handle[h]) /\ kernel' = kernel /\ mapped' \subseteq Ports
  BY DEF CopyConstruct, HandleInv, TypeOK
<1>2. CountsOthers(d, count) /\ OpenIffOthers(d, kernel)
  BY <1>1, DeadOut
<1>3. handle \in [Slots -> Objects] /\ d # h /\ handle[h].alive
  BY <1>1 DEF HandleInv, TypeOK, Objects, Alive
<1>4. handle'[d] = Copy(handle[h])
  BY <1>1, <1>3
<1>5. /\ handle'[d] \in Objects /\ handle'[d].alive /\ handle'[d].ref = handle[h].ref
      /\ handle'[d].sock = handle[h].sock /\ handle'[d].status = handle[h].status
  BY <1>3, <1>4 DEF Objects, Copy
<1>6. Changes(d)
  BY <1>1, <1>3, <1>5 DEF Changes
<1>7. Fits(d, handle'[d])
  BY <1>5, CopyFits
<1>8. Counted(count, handle'[d])
  BY <1>1, <1>2, <1>3, <1>5 DEF CountsOthers, Counted, AddRef, Objects
<1>9. Opened(kernel, handle'[d])
  <2>1. \A f \in Fds : handle[h].sock = f => kernel[f] # Free
    BY DEF HandleInv, OpenIffHeld
  <2> QED BY <1>1, <1>2, <1>5, <2>1 DEF OpenIffOthers, Opened
<1> QED BY <1>1, <1>2, <1>6, <1>7, <1>8, <1>9, PutBack

\* A move hands over the reference and leaves the count alone.
LEMMA MoveStep ==
  ASSUME HandleInv, NEW d \in Slots, NEW h \in Slots, MoveConstruct(d, h) \/ MoveAssign(d, h)
  PROVE  HandleInv'
<1>1. Alive(h) /\ d # h /\ handle \in [Slots -> Objects]
  BY DEF MoveConstruct, MoveAssign, HandleInv, TypeOK, Objects
<1>2. CountsOthers(d, count') /\ OpenIffOthers(d, kernel') /\ mapped' \subseteq Ports
  <2>1. CASE MoveConstruct(d, h)
    BY <2>1, DeadOut DEF MoveConstruct, HandleInv, TypeOK
  <2>2. CASE MoveAssign(d, h)
    <3>1. /\ count' = CountAfterClose(count, handle[d])
          /\ kernel' = KernelAfterClose(count, handle[d]) /\ Unmap(count, handle[d])
      BY <2>2 DEF MoveAssign, Release
    <3> QED BY <3>1, AfterClose, UnmapType
  <2> QED BY <2>1, <2>2
<1>3. /\ handle'[h] = MovedFrom(handle[h])
      /\ handle'[d] \in {handle[h], Swapped(handle[d], handle[h])}
      /\ \A g \in Slots \ {d, h} : handle'[g] = handle[g]
      /\ DOMAIN handle' = Slots /\ handle' = [g \in Slots |-> handle'[g]]
  BY <1>1 DEF MoveConstruct, MoveAssign
<1>4. /\ handle'[h] \in Objects /\ handle'[h].ref = NoCell /\ handle'[h].sock = NoFd
      /\ handle'[h].status = "invalid"
  <2>1. handle[h] \in Objects /\ "invalid" \in Statuses
    BY <1>1 DEF Statuses
  <2>2. Closed(handle[h]) \in Objects /\ Closed(handle[h]).ref = NoCell
        /\ Closed(handle[h]).sock = NoFd /\ Closed(handle[h]).status = "invalid"
    BY <2>1 DEF Closed, Objects
  <2> QED BY <1>3, <2>2 DEF MovedFrom, Objects
<1>5. /\ handle'[d] \in Objects /\ handle'[d].alive /\ handle'[d].ref = handle[h].ref
      /\ handle'[d].sock = handle[h].sock /\ handle'[d].status = handle[h].status
  BY <1>1, <1>3 DEF Swapped, Objects, Alive
<1>6. handle' \in [Slots -> Objects]
  BY <1>1, <1>3, <1>4, <1>5
<1> QED BY <1>1, <1>2, <1>3, <1>4, <1>5, <1>6, TakeOver

\* Two objects exchange all that is counted.
LEMMA SwapStep ==
  ASSUME HandleInv, NEW d \in Slots, NEW h \in Slots, Swap(d, h) PROVE HandleInv'
<1>1. /\ handle[d].alive /\ handle[h].alive /\ d # h /\ handle \in [Slots -> Objects]
      /\ count' = count /\ kernel' = kernel /\ mapped' = mapped
  BY DEF Swap, Alive, HandleInv, TypeOK, Objects
<1>2. /\ handle'[d] = Swapped(handle[d], handle[h]) /\ handle'[h] = Swapped(handle[h], handle[d])
      /\ \A g \in Slots \ {d, h} : handle'[g] = handle[g]
      /\ handle' = [g \in Slots |-> handle'[g]]
  BY <1>1 DEF Swap
<1>3. /\ handle'[d] \in Objects /\ handle'[d].alive /\ handle'[d].ref = handle[h].ref
      /\ handle'[d].sock = handle[h].sock /\ handle'[d].status = handle[h].status
  BY <1>1, <1>2 DEF Swapped, Objects
<1>4. /\ handle'[h] \in Objects /\ handle'[h].alive /\ handle'[h].ref = handle[d].ref
      /\ handle'[h].sock = handle[d].sock /\ handle'[h].status = handle[d].status
  BY <1>1, <1>2 DEF Swapped, Objects
<1>5. handle' \in [Slots -> Objects]
  BY <1>2, <1>3, <1>4, <1>1
<1>6. TypeOK'
  BY <1>1, <1>5 DEF HandleInv, TypeOK, Objects
<1>7. ASSUME NEW r \in Cells PROVE count'[r] = Cardinality(Owners(r)')
  <2> DEFINE both == Owners(r) \ {d, h}
  <2>1. count'[r] = Cardinality(Owners(r))
    BY <1>1 DEF HandleInv, CountsOwners
  <2>2. IsFiniteSet(both) /\ d \notin both /\ h \notin both
    BY FS_Subset DEF Owners
  <2>3. /\ IsFiniteSet(both \cup {d}) /\ Cardinality(both \cup {d}) = Cardinality(both) + 1
        /\ IsFiniteSet(both \cup {h}) /\ Cardinality(both \cup {h}) = Cardinality(both) + 1
    BY <2>2, FS_AddElement
  <2>4. CASE handle[d].ref = r /\ handle[h].ref # r
    <3>1. Owners(r) = both \cup {d} /\ Owners(r)' = both \cup {h}
      BY <2>4, <1>1, <1>2, <1>3, <1>4 DEF Owners
    <3> QED BY <3>1, <2>1, <2>3
  <2>5. CASE handle[d].ref # r /\ handle[h].ref = r
    <3>1. Owners(r) = both \cup {h} /\ Owners(r)' = both \cup {d}
      BY <2>5, <1>1, <1>2, <1>3, <1>4 DEF Owners
    <3> QED BY <3>1, <2>1, <2>3
  <2>6. CASE handle[d].ref = r <=> handle[h].ref = r
    <3>1. Owners(r)' = Owners(r)
      BY <2>6, <1>1, <1>2, <1>3, <1>4 DEF Owners
    <3> QED BY <3>1, <2>1
  <2> QED BY <2>4, <2>5, <2>6
<1>8. OpenIffHeld'
  <2>1. ASSUME NEW f \in Fds
        PROVE  kernel'[f] # Free <=> \E g \in Slots : handle'[g].sock = f
    <3>1. kernel[f] # Free <=> \E g \in Slots : handle[g].sock = f
      BY DEF HandleInv, OpenIffHeld
    <3> QED BY <3>1, <1>1, <1>2, <1>3, <1>4
  <2>2. ASSUME NEW g \in Slots
        PROVE  /\ handle'[g].status # "invalid" <=> handle'[g].sock # NoFd
               /\ handle'[g].ref = NoCell => handle'[g].sock = NoFd
    BY <1>2, <1>3, <1>4 DEF HandleInv, OpenIffHeld
  <2>3. (Free)' = Free
    BY DEF Free
  <2> QED BY <2>1, <2>2, <2>3 DEF OpenIffHeld
<1>9. SharersAgree' /\ CellsAgree'
  <2> SUFFICES ASSUME NEW g \in Slots, NEW k \in Slots
               PROVE  /\ handle'[g].sock = handle'[k].sock /\ handle'[g].sock # NoFd
                           => handle'[g].ref = handle'[k].ref /\ handle'[g].status = handle'[k].status
                      /\ handle'[g].ref = handle'[k].ref /\ handle'[g].ref # NoCell
                           => handle'[g].sock = handle'[k].sock /\ handle'[g].status = handle'[k].status
    BY DEF SharersAgree, CellsAgree
  <2> QED BY <1>2, <1>3, <1>4 DEF HandleInv, SharersAgree, CellsAgree
<1>10. DeadEmpty'
  BY <1>2, <1>3, <1>4 DEF HandleInv, DeadEmpty
<1> QED BY <1>6, <1>7, <1>8, <1>9, <1>10 DEF HandleInv, CountsOwners

\* What CopyAssign does to the counts and the kernel: the copy keeps alive what d and h share.
LEMMA CopyAssignStep ==
  ASSUME HandleInv, NEW d \in Slots, NEW h \in Slots, CopyAssign(d, h) PROVE HandleInv'
<1> DEFINE n == CountAfterClose(count, handle[d])
           o == KernelAfterClose(count, handle[d])
           m == AddRef(handle[h])
<1>1. /\ handle[d].alive /\ handle[h].alive /\ handle \in [Slots -> Objects]
      /\ count \in [Cells -> Nat] /\ \A r \in Cells : count[r] = Cardinality(Owners(r))
  BY DEF CopyAssign, Alive, HandleInv, TypeOK, CountsOwners, Objects
<1>2. /\ count' = CountAfterClose(m, handle[d]) /\ kernel' = KernelAfterClose(m, handle[d])
      /\ mapped' \subseteq Ports
  BY UnmapType DEF CopyAssign, Release
<1>3. CountsOthers(d, n) /\ OpenIffOthers(d, o)
  BY AfterClose
<1>4. handle' = [handle EXCEPT ![d] = Swapped(@, Copy(handle[h]))]
  BY DEF CopyAssign
<1>5. handle'[d] = Swapped(handle[d], Copy(handle[h])) /\ handle[h] \in Objects /\ handle[d] \in Objects
  BY <1>1, <1>4
<1>6. /\ Copy(handle[h]) \in Objects /\ Copy(handle[h]).alive /\ Copy(handle[h]).ref = handle[h].ref
      /\ Copy(handle[h]).sock = handle[h].sock /\ Copy(handle[h]).status = handle[h].status
  BY <1>1, <1>5 DEF Copy, Objects
<1>7. /\ handle'[d] \in Objects /\ handle'[d].alive /\ handle'[d].ref = handle[h].ref
      /\ handle'[d].sock = handle[h].sock /\ handle'[d].status = handle[h].status
  BY <1>5, <1>6 DEF Swapped, Objects
<1>8. Changes(d)
  BY <1>1, <1>4, <1>7 DEF Changes
<1>9. Fits(d, handle'[d])
  BY <1>7, CopyFits
<1>10. m \in [Cells -> Nat] /\ handle[h].ref \in Cells \cup {NoCell} /\ handle[d].ref \in Cells \cup {NoCell}
       /\ \A r \in Cells : m[r] = IF handle[h].ref = r THEN count[r] + 1 ELSE count[r]
  BY <1>1, <1>5 DEF AddRef, Objects
<1>11. /\ n \in [Cells -> Nat]
       /\ \A r \in Cells : n[r] = IF handle[d].ref = r THEN count[r] - 1 ELSE count[r]
  BY <1>1, <1>3, <1>10 DEF CountsOthers, CountAfterClose
<1>12. \A r \in Cells : count'[r] = IF handle[d].ref = r THEN m[r] - 1 ELSE m[r]
  BY <1>2, <1>10 DEF CountAfterClose
<1>13. DOMAIN count' = Cells /\ count' = [r \in Cells |-> count'[r]]
  BY <1>2, <1>10 DEF CountAfterClose
<1> HIDE DEF m, n
<1>14. \A r \in Cells : count'[r] = IF handle[h].ref = r THEN n[r] + 1 ELSE n[r]
  BY <1>1, <1>10, <1>11, <1>12
<1>15. \A r \in Cells : count'[r] \in Nat
  BY <1>11, <1>14
<1>16. Counted(n, handle'[d])
  BY <1>7, <1>13, <1>14, <1>15 DEF Counted
<1>17. Opened(o, handle'[d])
  <2>1. \A f \in Fds : handle[h].sock = f => kernel[f] # Free
    BY DEF HandleInv, OpenIffHeld
  <2>2. CASE d = h
    <3>1. LastRef(m, handle[d]) = FALSE
      <4>1. handle[d].ref \in Cells => count[handle[d].ref] > 0
        <5>1. ASSUME handle[d].ref \in Cells PROVE count[handle[d].ref] # 0
          <6>1. IsFiniteSet(Owners(handle[d].ref)) /\ d \in Owners(handle[d].ref)
            BY OwnersFinite DEF Owners
          <6> QED BY <6>1, <5>1, <1>1, FS_EmptySet
        <5> QED BY <5>1, <1>1
      <4> QED BY <4>1, <2>2, <1>1, <1>10 DEF LastRef
    <3>2. kernel' = kernel
      BY <1>2, <3>1 DEF KernelAfterClose
    <3>3. \A f \in Fds : kernel[f] # Free <=> \E g \in Slots : handle[g].sock = f
      BY DEF HandleInv, OpenIffHeld
    <3>4. kernel \in [Fds -> Sockets]
      BY DEF HandleInv, TypeOK, Sockets
    <3> QED BY <1>3, <1>7, <2>2, <3>2, <3>3, <3>4 DEF Opened, OpenIffOthers
  <2>3. CASE d # h
    <3>1. CASE handle[d].ref # handle[h].ref
      <4>1. LastRef(m, handle[d]) <=> LastRef(count, handle[d])
        BY <3>1, <1>10 DEF LastRef
      <4>2. kernel' = o
        BY <1>2, <4>1 DEF KernelAfterClose
      <4>3. \A f \in Fds : handle[h].sock = f => o[f] # Free
        BY <1>3, <2>3 DEF OpenIffOthers
      <4> QED BY <1>3, <1>7, <4>2, <4>3 DEF Opened, OpenIffOthers
    <3>2. CASE handle[d].ref = handle[h].ref
      <4>1. handle[d].ref \in Cells => n[handle[d].ref] # 0
        BY <1>3, <2>3, <3>2, NobodyElse
      <4>2. handle[d].ref \in Cells => count[handle[d].ref] > 1 /\ m[handle[d].ref] > 1
        BY <4>1, <1>1, <1>10, <1>11, <3>2
      <4>3. ~LastRef(m, handle[d]) /\ ~LastRef(count, handle[d])
        BY <4>2, <1>1, <1>10 DEF LastRef
      <4>4. kernel' = o
        BY <1>2, <4>3 DEF KernelAfterClose
      <4>5. \A f \in Fds : handle[h].sock = f => o[f] # Free
        BY <1>3, <2>3 DEF OpenIffOthers
      <4> QED BY <1>3, <1>7, <4>4, <4>5 DEF Opened, OpenIffOthers
    <3> QED BY <3>1, <3>2
  <2> QED BY <2>2, <2>3
<1> QED BY <1>2, <1>3, <1>8, <1>9, <1>16, <1>17, PutBack

-----------------------------------------------------------------------------
LEMMA HandleInit == Init => HandleInv
<1> SUFFICES ASSUME Init PROVE HandleInv
  OBVIOUS
<1>1. \A h \in Slots : handle[h] = Dead
  BY DEF Init
<1>2. TypeOK
  <2>1. handle \in [Slots -> Objects]
    BY DeadIsObject DEF Init
  <2> QED BY <2>1 DEF Init, TypeOK, Objects, Free
<1>3. ASSUME NEW r \in Cells PROVE count[r] = Cardinality(Owners(r))
  <2>1. Owners(r) = {}
    BY <1>1, DeadIsObject DEF Owners
  <2> QED BY <2>1, FS_EmptySet DEF Init
<1>4. OpenIffHeld
  BY <1>1, DeadIsObject DEF Init, OpenIffHeld
<1>5. SharersAgree /\ CellsAgree /\ DeadEmpty
  BY <1>1, DeadIsObject DEF SharersAgree, CellsAgree, DeadEmpty
<1> QED BY <1>2, <1>3, <1>4, <1>5 DEF HandleInv, CountsOwners

LEMMA HandleStep == HandleInv /\ [Next]_vars => HandleInv'
<1> SUFFICES ASSUME HandleInv, [Next]_vars PROVE HandleInv'
  OBVIOUS
<1>1. ASSUME NEW h \in Slots, Construct(h) \/ Destroy(h) \/ Close(h) \/ Create(h) \/ Connect(h)
      PROVE  HandleInv'
  BY <1>1, ConstructStep, CloseStep, OpenStep
<1>2. ASSUME NEW h \in Slots, NEW p \in Ports, Listen(h, p) PROVE HandleInv'
  BY <1>2, OpenStep
<1>3. ASSUME NEW d \in Slots, NEW h \in Slots, Accept(h, d) PROVE HandleInv'
  BY <1>3, AcceptStep
<1>4. ASSUME NEW d \in Slots, NEW h \in Slots, CopyConstruct(d, h) \/ CopyAssign(d, h)
      PROVE  HandleInv'
  BY <1>4, CopyConstructStep, CopyAssignStep
<1>5. ASSUME NEW d \in Slots, NEW h \in Slots,
             MoveConstruct(d, h) \/ MoveAssign(d, h) \/ Swap(d, h)
      PROVE  HandleInv'
  BY <1>5, MoveStep, SwapStep
<1>6. CASE UNCHANGED vars
  BY <1>6 DEF vars, HandleInv, TypeOK, CountsOwners, Owners, OpenIffHeld, SharersAgree,
              CellsAgree, DeadEmpty
<1> QED BY <1>1, <1>2, <1>3, <1>4, <1>5, <1>6 DEF Next

LEMMA HandleInvariant == Spec => []HandleInv
BY HandleInit, HandleStep, PTL DEF Spec

\* Objects, counts, descriptors and forwarded ports keep their types: above all, no count ever
\* falls below zero.
THEOREM HandleTypes == Spec => []TypeOK
<1>1. HandleInv => TypeOK
  BY DEF HandleInv
<1> QED BY <1>1, HandleInvariant, PTL

\* A reference count is the number of objects that refer to it, through any sequence of copies,
\* moves, assignments to oneself and reopenings.
THEOREM CountsAreOwners == Spec => []CountsOwners
<1>1. HandleInv => CountsOwners
  BY DEF HandleInv
<1> QED BY <1>1, HandleInvariant, PTL

\* A descriptor is open exactly as long as some object has it: none is leaked, and none is used
\* after it was closed.
THEOREM NoLeakNoUseAfterClose == Spec => []OpenIffHeld
<1>1. HandleInv => OpenIffHeld
  BY DEF HandleInv
<1> QED BY <1>1, HandleInvariant, PTL

\* A descriptor the kernel gives out again never has two independent owners.
THEOREM OneCountPerDescriptor == Spec => []SharersAgree
<1>1. HandleInv => SharersAgree
  BY DEF HandleInv
<1> QED BY <1>1, HandleInvariant, PTL

-----------------------------------------------------------------------------
\* The descriptor f of no object but h, counted once.
LEMMA OnlyHolder ==
  ASSUME NEW f \in Fds, NEW h \in Slots, handle[h].sock = f,
         \A g \in Slots \ {h} : handle[g].sock # f
  PROVE  Cardinality({g \in Slots : handle[g].sock = f}) = 1
<1>1. {g \in Slots : handle[g].sock = f} = {h}
  OBVIOUS
<1> QED BY <1>1, FS_Singleton

\* What Close on h does to an open descriptor, it does as the only one that has it.
LEMMA CloseDisturbs ==
  ASSUME HandleInv, NEW h \in Slots, NEW f \in Fds, kernel[f] # Free,
         KernelAfterClose(count, handle[h])[f] = Free
  PROVE  Cardinality({g \in Slots : handle[g].sock = f}) = 1
<1>1. \A g \in Slots \ {h} : handle[g].sock # f
  BY AfterClose DEF OpenIffOthers
<1>2. \E g \in Slots : handle[g].sock = f
  BY DEF HandleInv, OpenIffHeld
<1> QED BY <1>1, <1>2, OnlyHolder

\* Every operation that touches a descriptor closes one that some object h has, or opens one
\* that is free by then.
LEMMA KernelChange ==
  ASSUME HandleInv, Next, NEW f \in Fds, kernel[f] # Free, kernel'[f] # kernel[f]
  PROVE  \E h \in Slots : KernelAfterClose(count, handle[h])[f] = Free
<1> DEFINE After(h) == KernelAfterClose(count, handle[h])
<1>0. kernel \in [Fds -> Sockets]
  BY DEF HandleInv, TypeOK, Sockets
<1>1. ASSUME NEW h \in Slots, NEW n, KernelAfterClose(n, handle[h])[f] # kernel[f]
      PROVE  KernelAfterClose(n, handle[h])[f] = Free
  BY <1>0, <1>1 DEF KernelAfterClose
<1>2. ASSUME NEW h \in Slots, NEW e \in Fds, NEW k, kernel' = [After(h) EXCEPT ![e] = k],
             After(h)[e] = Free
      PROVE  After(h)[f] = Free
  <2>1. kernel'[f] = IF e = f THEN k ELSE After(h)[f]
    BY <1>2, <1>0 DEF KernelAfterClose
  <2>2. CASE e = f
    BY <1>2, <2>2
  <2>3. CASE e # f
    BY <2>1, <2>3, <1>1
  <2> QED BY <2>2, <2>3
<1>3. ASSUME NEW h \in Slots, NEW e \in Fds, NEW r \in Cells, NEW k, NEW status,
             Reopen(h, e, r, k, status)
      PROVE  After(h)[f] = Free
  BY <1>3, <1>2 DEF Reopen
<1>4. ASSUME NEW h \in Slots, kernel' = After(h) PROVE After(h)[f] = Free
  BY <1>4, <1>1
<1>5. ASSUME NEW h \in Slots, NEW r \in Cells, NEW udp, ReopenFails(h, r, udp)
      PROVE  After(h)[f] = Free
  BY <1>5, <1>4 DEF ReopenFails
<1> HIDE DEF After
<1>6. ASSUME NEW h \in Slots, Close(h) \/ Destroy(h) PROVE After(h)[f] = Free
  BY <1>6, <1>4 DEF Close, Destroy, Release, After
<1>7. ASSUME NEW h \in Slots, Create(h) \/ Connect(h) \/ (\E p \in Ports : Listen(h, p))
      PROVE  After(h)[f] = Free
  BY <1>7, <1>3, <1>5 DEF Create, Connect, Listen
<1>8. ASSUME NEW d \in Slots, NEW h \in Slots, MoveAssign(d, h) PROVE After(d)[f] = Free
  BY <1>8, <1>4 DEF MoveAssign, Release, After
<1>9. ASSUME NEW d \in Slots, NEW h \in Slots, CopyAssign(d, h) PROVE After(d)[f] = Free
  <2>1. kernel' = KernelAfterClose(AddRef(handle[h]), handle[d])
    BY <1>9 DEF CopyAssign, Release
  <2>2. LastRef(AddRef(handle[h]), handle[d]) /\ handle[d].sock = f
    BY <2>1, <1>0 DEF KernelAfterClose
  <2>3. handle[d].ref \in Cells /\ count \in [Cells -> Nat] /\ handle[h].ref \in Cells \cup {NoCell}
    BY <2>2 DEF LastRef, HandleInv, TypeOK
  <2>4. LastRef(count, handle[d])
    BY <2>2, <2>3 DEF LastRef, AddRef
  <2> QED BY <2>2, <2>4, <1>0 DEF KernelAfterClose, After
<1>10. ASSUME NEW d \in Slots, NEW h \in Slots, Accept(h, d) PROVE FALSE
  <2>1. \/ kernel' = kernel
        \/ \E e \in Fds : kernel[e] = Free /\ kernel' = [kernel EXCEPT ![e] = Tcp(TRUE)]
    BY <1>10 DEF Accept
  <2> QED BY <2>1, <1>0
<1>11. ASSUME NEW d \in Slots, NEW h \in Slots,
              Construct(d) \/ CopyConstruct(d, h) \/ MoveConstruct(d, h) \/ Swap(d, h)
       PROVE  FALSE
  BY <1>11 DEF Construct, CopyConstruct, MoveConstruct, Swap
<1>12. \E h \in Slots : After(h)[f] = Free
  BY <1>6, <1>7, <1>8, <1>9, <1>10, <1>11 DEF Next
<1> QED BY <1>12 DEF After

\* An open descriptor is closed, or changed in any way, only by an operation on the one object
\* that has it.
THEOREM SharedSocketsUndisturbed == Spec => OnlyOwnerDisturbs
<1>1. HandleInv /\ [Next]_vars
        => [\A f \in Fds : kernel[f] # Free /\ kernel'[f] # kernel[f]
              => Cardinality({h \in Slots : handle[h].sock = f}) = 1]_vars
  BY KernelChange, CloseDisturbs DEF vars
<1> QED BY <1>1, HandleInvariant, PTL DEF Spec, OnlyOwnerDisturbs
=============================================================================
