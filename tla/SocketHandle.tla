---------------------------- MODULE SocketHandle ----------------------------
(* Ownership of operating system sockets by Socket objects (Socket.cpp): a   *)
(* Socket is a handle that copies share through a reference count on the     *)
(* heap, and the last of them closes the descriptor.  Every operation that   *)
(* creates, copies, moves, assigns, swaps, reopens or closes a handle is an  *)
(* action; transferring data is MessageChannel's subject.                    *)
(*                                                                           *)
(* The class is not thread safe and says so: an operation is one step.  The  *)
(* kernel hands out any free descriptor, and any of its calls may fail.      *)
EXTENDS Naturals, FiniteSets

CONSTANTS
  Slots,     \* the places in memory that may hold a Socket object
  Fds,       \* the descriptors of the process
  Cells,     \* the heap cells a reference count may live in
  Ports,     \* the ports listened on
  NoFd,      \* INVALID_SOCKET
  NoCell,    \* a null refCount_
  NoPort     \* upnpPort_ = 0

ASSUME HandleAssumption ==
  /\ NoFd \notin Fds /\ NoCell \notin Cells /\ NoPort \notin Ports
  /\ IsFiniteSet(Slots)

VARIABLES
  handle,    \* handle[h]: the Socket in slot h, or Dead
  count,     \* count[r]: the reference count in cell r, 0 when the cell is free
  kernel,    \* kernel[f]: what descriptor f is
  mapped     \* the ports the router forwards to this machine

vars == <<handle, count, kernel, mapped>>

Statuses == {"invalid", "valid", "listen", "connected"}

Dead == [alive |-> FALSE, sock |-> NoFd, ref |-> NoCell, status |-> "invalid",
         bcast |-> FALSE, upnp |-> NoPort]

\* The default constructor.
Empty == [Dead EXCEPT !.alive = TRUE]

Free == [kind |-> "free", blocking |-> TRUE]

TypeOK ==
  /\ handle \in [Slots -> [alive : BOOLEAN, sock : Fds \cup {NoFd}, ref : Cells \cup {NoCell},
                           status : Statuses, bcast : BOOLEAN, upnp : Ports \cup {NoPort}]]
  /\ count \in [Cells -> Nat]
  /\ kernel \in [Fds -> [kind : {"free", "tcp", "udp"}, blocking : BOOLEAN]]
  /\ mapped \subseteq Ports

Init ==
  /\ handle = [h \in Slots |-> Dead]
  /\ count = [r \in Cells |-> 0]
  /\ kernel = [f \in Fds |-> Free]
  /\ mapped = {}

Alive(h) == handle[h].alive

-----------------------------------------------------------------------------
(* Close(), as the part of a step it is in almost every operation: what it   *)
(* leaves of a count, of the kernel's sockets and of the router's ports when *)
(* the object s gives up its reference.                                      *)

\* The decremented count has reached zero.
\* Mutant of LastRef: the socket is closed one reference too late.
LastRefBelowZero(n, s) == s.ref # NoCell /\ n[s.ref] <= 0

LastRef(n, s) == s.ref # NoCell /\ n[s.ref] <= 1

CountAfterClose(n, s) == IF s.ref = NoCell THEN n ELSE [n EXCEPT ![s.ref] = @ - 1]

\* Mutant of KernelAfterClose: the references of other handles are ignored.
KernelAfterAnyClose(n, s) ==
  IF s.sock # NoFd THEN [kernel EXCEPT ![s.sock] = Free] ELSE kernel

KernelAfterClose(n, s) ==
  IF LastRef(n, s) /\ s.sock # NoFd THEN [kernel EXCEPT ![s.sock] = Free] ELSE kernel

\* UPnP::ClosePort may throw, which is logged.
Unmap(n, s) ==
  mapped' \in IF LastRef(n, s) /\ s.upnp # NoPort THEN {mapped, mapped \ {s.upnp}} ELSE {mapped}

\* What Close leaves of the object.
Closed(s) == [s EXCEPT !.sock = NoFd, !.status = "invalid", !.ref = NoCell]

Release(n, s) ==
  /\ count' = CountAfterClose(n, s)
  /\ kernel' = KernelAfterClose(n, s)
  /\ Unmap(n, s)

Close(h) ==
  /\ Alive(h)
  /\ Release(count, handle[h])
  /\ handle' = [handle EXCEPT ![h] = Closed(@)]

-----------------------------------------------------------------------------
(* Operations that open a socket.                                            *)

Tcp(blocking) == [kind |-> "tcp", blocking |-> blocking]
Udp == [kind |-> "udp", blocking |-> TRUE]

\* Close and then socket(), which yields a free descriptor for k: a new count of one, whose
\* cell may be the one just freed.  The rest of the object stays.
Reopen(h, f, r, k, status) ==
  LET n == CountAfterClose(count, handle[h])
      o == KernelAfterClose(count, handle[h])
  IN
  /\ Alive(h)
  /\ n[r] = 0 /\ o[f] = Free
  /\ count' = [n EXCEPT ![r] = 1]
  /\ kernel' = [o EXCEPT ![f] = k]
  /\ handle' = [handle EXCEPT ![h] = [@ EXCEPT !.sock = f, !.ref = r, !.status = status,
                                              !.bcast = k.kind = "udp"]]

\* socket() fails: the object is invalid, yet it owns a count.
ReopenFails(h, r, udp) ==
  LET n == CountAfterClose(count, handle[h]) IN
  /\ Alive(h)
  /\ n[r] = 0
  /\ count' = [n EXCEPT ![r] = 1]
  /\ kernel' = KernelAfterClose(count, handle[h])
  /\ handle' = [handle EXCEPT ![h] = [Closed(@) EXCEPT !.ref = r, !.bcast = udp]]
  /\ Unmap(count, handle[h])

Create(h) ==
  \E r \in Cells :
    \/ \E f \in Fds : \E k \in {Tcp(TRUE), Udp} :
         Reopen(h, f, r, k, "valid") /\ Unmap(count, handle[h])
    \/ \E udp \in BOOLEAN : ReopenFails(h, r, udp)

\* Listen: up to two attempts (one per protocol family), each beginning with Create, so what is
\* left is the last one's: no socket, a socket that could not bind or listen, or success.
\* OpenPort is called after a success on IPv4 and may throw.
Listen(h, port) ==
  \E r \in Cells :
    \/ ReopenFails(h, r, FALSE)
    \/ \E f \in Fds : Reopen(h, f, r, Tcp(TRUE), "valid") /\ Unmap(count, handle[h])
    \/ \E f \in Fds :
         /\ Reopen(h, f, r, Tcp(TRUE), "listen")
         /\ Unmap(count, handle[h]) \/ mapped' = mapped \cup {port}

\* Connect: one Create per address tried.  Left behind is a non-blocking socket when the last
\* attempt fails, and one set back to blocking after a success.  (Without an address to try
\* nothing happens.)
Connect(h) ==
  \E r \in Cells :
    \/ ReopenFails(h, r, FALSE)
    \/ \E f \in Fds :
         /\ \/ Reopen(h, f, r, Tcp(FALSE), "valid")
            \/ Reopen(h, f, r, Tcp(TRUE), "connected")
         /\ Unmap(count, handle[h])

\* Accept on h returns a new object in slot d: connected, or empty when it fails.
Accept(h, d) ==
  /\ Alive(h) /\ ~Alive(d)
  /\ UNCHANGED mapped
  /\ \/ /\ handle[h].status = "listen"
        /\ \E f \in Fds : \E r \in Cells :
             /\ kernel[f] = Free /\ count[r] = 0
             /\ kernel' = [kernel EXCEPT ![f] = Tcp(TRUE)]
             /\ count' = [count EXCEPT ![r] = 1]
             /\ handle' = [handle EXCEPT ![d] =
                  [Empty EXCEPT !.sock = f, !.ref = r, !.status = "connected"]]
     \/ /\ handle' = [handle EXCEPT ![d] = Empty]
        /\ UNCHANGED <<count, kernel>>

-----------------------------------------------------------------------------
(* Construction, destruction, assignment.                                    *)

Construct(d) ==
  /\ ~Alive(d)
  /\ handle' = [handle EXCEPT ![d] = Empty]
  /\ UNCHANGED <<count, kernel, mapped>>

Destroy(h) ==
  /\ Alive(h)
  /\ Release(count, handle[h])
  /\ handle' = [handle EXCEPT ![h] = Dead]

\* A copy refers to the same socket; it does not inherit the forwarded port.
Copy(s) == [s EXCEPT !.upnp = NoPort]

AddRef(s) == IF s.ref = NoCell THEN count ELSE [count EXCEPT ![s.ref] = @ + 1]

\* Mutant of CopyConstruct: the copy does not count.
CopyConstructUncounted(d, h) ==
  /\ Alive(h) /\ ~Alive(d)
  /\ handle' = [handle EXCEPT ![d] = Copy(handle[h])]
  /\ UNCHANGED <<count, kernel, mapped>>

CopyConstruct(d, h) ==
  /\ Alive(h) /\ ~Alive(d)
  /\ handle' = [handle EXCEPT ![d] = Copy(handle[h])]
  /\ count' = AddRef(handle[h])
  /\ UNCHANGED <<kernel, mapped>>

\* Mutant of MovedFrom: the source keeps its reference.
MovedFromKeepsRef(s) == [s EXCEPT !.sock = NoFd, !.status = "invalid", !.upnp = NoPort]

\* What a move leaves of its source: everything but isBroadcast.
MovedFrom(s) == [Closed(s) EXCEPT !.upnp = NoPort]

MoveConstruct(d, h) ==
  /\ Alive(h) /\ ~Alive(d)
  /\ handle' = [handle EXCEPT ![d] = handle[h], ![h] = MovedFrom(@)]
  /\ UNCHANGED <<count, kernel, mapped>>

\* swap(): isBroadcast is not among the members it exchanges.
Swapped(own, other) == [other EXCEPT !.bcast = own.bcast]

Swap(g, h) ==
  /\ Alive(g) /\ Alive(h) /\ g # h
  /\ handle' = [handle EXCEPT ![g] = Swapped(@, handle[h]), ![h] = Swapped(@, handle[g])]
  /\ UNCHANGED <<count, kernel, mapped>>

\* Mutant of CopyAssign: the old socket is released before the new one is referenced.
CopyAssignReleaseFirst(d, h) ==
  /\ Alive(d) /\ Alive(h)
  /\ kernel' = KernelAfterClose(count, handle[d])
  /\ Unmap(count, handle[d])
  /\ count' = IF handle[h].ref = NoCell
                THEN CountAfterClose(count, handle[d])
                ELSE [CountAfterClose(count, handle[d]) EXCEPT ![handle[h].ref] = @ + 1]
  /\ handle' = [handle EXCEPT ![d] = Swapped(@, Copy(handle[h]))]

\* operator= takes a copy, swaps with it and lets it close what d held; d may be h itself.
CopyAssign(d, h) ==
  /\ Alive(d) /\ Alive(h)
  /\ Release(AddRef(handle[h]), handle[d])
  /\ handle' = [handle EXCEPT ![d] = Swapped(@, Copy(handle[h]))]

MoveAssign(d, h) ==
  /\ Alive(d) /\ Alive(h) /\ d # h
  /\ Release(count, handle[d])
  /\ handle' = [handle EXCEPT ![d] = Swapped(@, handle[h]), ![h] = MovedFrom(@)]

Next ==
  \/ \E h \in Slots : Construct(h) \/ Destroy(h) \/ Close(h) \/ Create(h) \/ Connect(h)
  \/ \E h \in Slots : \E p \in Ports : Listen(h, p)
  \/ \E d, h \in Slots :
       \/ Accept(h, d)
       \/ CopyConstruct(d, h) \/ MoveConstruct(d, h)
       \/ CopyAssign(d, h) \/ MoveAssign(d, h) \/ Swap(d, h)

Spec == Init /\ [][Next]_vars
-----------------------------------------------------------------------------
Owners(r) == {h \in Slots : handle[h].ref = r}

\* A reference count is the number of objects that refer to it, over any sequence of copies,
\* moves, assignments to oneself and reopenings of a shared handle.
CountsOwners == \A r \in Cells : count[r] = Cardinality(Owners(r))

\* No descriptor is leaked and none is used after it was closed: it is open exactly as long as
\* some object has it, isValid() tells which objects have one, and none is without a count (the
\* assertion in Close).
OpenIffHeld ==
  /\ \A f \in Fds : kernel[f] # Free <=> \E h \in Slots : handle[h].sock = f
  /\ \A h \in Slots :
       /\ handle[h].status # "invalid" <=> handle[h].sock # NoFd
       /\ handle[h].ref = NoCell => handle[h].sock = NoFd

\* Objects that have the same descriptor share its count and agree on its status: the kernel
\* may give out a closed descriptor again, but never to a second, independent owner.
SharersAgree ==
  \A g, h \in Slots :
    handle[g].sock = handle[h].sock /\ handle[g].sock # NoFd
      => handle[g].ref = handle[h].ref /\ handle[g].status = handle[h].status

\* An open descriptor is closed, or changed in any way, only by an operation on the one object
\* that has it: what is done to one object never disturbs the socket another one shares.
OnlyOwnerDisturbs ==
  [][\A f \in Fds :
       kernel[f] # Free /\ kernel'[f] # kernel[f]
         => Cardinality({h \in Slots : handle[h].sock = f}) = 1]_vars

\* Socket.h: IsBroadcast tells, for a valid socket, whether it is a broadcast socket.
BroadcastTold ==
  \A h \in Slots :
    handle[h].status # "invalid" => (handle[h].bcast <=> kernel[handle[h].sock].kind = "udp")

\* Socket.h: upnpPort_ is the port opened with UPnP, or 0; Close takes it back with the last
\* reference, so that forwarding ends when nothing listens any more.
ForwardingEnds ==
  (\A h \in Slots : handle[h].status # "listen") => mapped = {}
=============================================================================
