---------------------------- MODULE SocketConnect ----------------------------
(* Socket::Connect (Socket.cpp): the addresses of a host are tried in turn   *)
(* on a non-blocking socket, each polled a limited number of times, and with *)
(* a Socks4 proxy the connection is made to the proxy, which is then asked   *)
(* for the host.  One call is one behaviour; the kernel and the peer take    *)
(* their steps between those of the call.                                    *)
(*                                                                           *)
(* Time is counted in naps of 50 ms.  Families of addresses are left out, as *)
(* is the exception for UDP addresses: HostToIp compares a protocol with     *)
(* SOCK_DGRAM and never yields one.                                          *)
EXTENDS Naturals, Sequences

CONSTANTS
  Addrs,          \* the addresses of the network
  Lists,          \* what resolving a name may yield: sequences of addresses
  Loopback,       \* the address of "localhost"
  OneDigit,       \* the addresses whose four numbers have one digit each
  Elsewhere,      \* where a request leads that does not name an address of Addrs
  NoAddr,         \* no request was sent
  MaxPolls,       \* 8: an address is left when its polls exceed this
  MaxProxyPolls,  \* 8: the polls for the answer of a proxy
  Immediate,      \* whether connect() on a non-blocking socket may succeed at once
  Signals         \* whether select may be interrupted

ASSUME ConnectAssumption ==
  /\ Loopback \in Addrs /\ OneDigit \subseteq Addrs
  /\ Lists \subseteq Seq(Addrs \ {Loopback})
  /\ NoAddr \notin Addrs \cup {Elsewhere} /\ Elsewhere \notin Addrs
  /\ MaxPolls \in Nat /\ MaxProxyPolls \in Nat \ {0}
  /\ Immediate \in BOOLEAN /\ Signals \in BOOLEAN

VARIABLES
  call,          \* the arguments: the type of proxy, and whether the host is "localhost"
  ips,           \* the addresses of the host
  proxyIps,      \* the addresses of the proxy
  pc,            \* where the call is
  at,            \* the address being tried, an index of the list used
  timeout,       \* polls of this address
  proxyTimeout,  \* polls for the proxy's answer
  done,
  object,        \* the Socket: its status and the mode of its descriptor
  conn,          \* the kernel's connection
  asked,         \* the address the peer has been asked to connect to
  reply,         \* what the peer has sent: nothing, a part, or 8 bytes that grant or reject
  slept,         \* history: naps taken
  shortcut       \* history: what spared the call a poll that found the connection complete

connectVars == <<call, ips, proxyIps, pc, at, timeout, proxyTimeout, done, object, conn, asked,
                 reply, slept, shortcut>>

Proxies == {"none", "socks4", "socks5"}
NoSocket == [status |-> "invalid", blocking |-> TRUE]
NonBlocking == [status |-> "valid", blocking |-> FALSE]

TypeOK ==
  /\ call \in [proxy : Proxies, localhost : BOOLEAN]
  /\ ips \in Seq(Addrs) /\ proxyIps \in Seq(Addrs)
  /\ pc \in {"resolve", "next", "poll", "await", "nap", "true", "false"}
  /\ at \in Nat \ {0} /\ timeout \in 0 .. MaxPolls + 1 /\ proxyTimeout \in 0 .. MaxProxyPolls
  /\ done \in BOOLEAN /\ slept \in Nat
  /\ shortcut \in {"none", "immediate", "misread"}
  /\ object \in [status : {"invalid", "valid", "connected"}, blocking : BOOLEAN]
  /\ conn \in {"none", "pending", "established", "refused"}
  /\ asked \in Addrs \cup {Elsewhere, NoAddr}
  /\ reply \in {"nothing", "part", "granted", "rejected"}

Init ==
  /\ call \in [proxy : Proxies, localhost : BOOLEAN]
  /\ ips = <<>> /\ proxyIps = <<>>
  /\ pc = "resolve" /\ at = 1 /\ timeout = 0 /\ proxyTimeout = 0 /\ done = FALSE
  /\ object = NoSocket /\ conn = "none" /\ asked = NoAddr /\ reply = "nothing"
  /\ slept = 0 /\ shortcut = "none"

Running == pc \notin {"true", "false"}

\* A proxy is not used for localhost.
UsesProxy == call.proxy # "none" /\ ~call.localhost
UsedIps == IF UsesProxy THEN proxyIps ELSE ips

-----------------------------------------------------------------------------
(* The call.                                                                 *)

\* What HostToIp may return; localhost is not looked up.
HostToIp(localhost) == IF localhost THEN {<<Loopback>>} ELSE Lists

\* The addresses of the proxy, if there is one, and then those of the host.
Resolve ==
  /\ pc = "resolve"
  /\ proxyIps' \in IF call.proxy = "none" THEN {<<>>} ELSE HostToIp(FALSE)
  /\ IF call.proxy # "none" /\ proxyIps' = <<>>
       THEN ips' = <<>>
       ELSE ips' \in HostToIp(call.localhost)
  /\ pc' = IF ips' = <<>> THEN "false" ELSE "next"
  /\ UNCHANGED <<call, at, timeout, proxyTimeout, done, object, conn, asked, reply, slept, shortcut>>

\* Create closes the socket of the address before.
StartOf(sock, c) == object' = sock /\ conn' = c /\ asked' = NoAddr /\ reply' = "nothing"

\* On to the next address.
SkipAddress ==
  /\ pc = "next" /\ at <= Len(UsedIps)
  /\ at' = at + 1
  /\ UNCHANGED <<call, ips, proxyIps, pc, timeout, proxyTimeout, done, slept, shortcut>>

CreateFails == SkipAddress /\ StartOf(NoSocket, "none")

\* A ResolvedAddr without an address, which the loopback always has: the socket stays.
Unresolved ==
  /\ SkipAddress /\ UsedIps[at] # Loopback
  /\ StartOf(NonBlocking, "none")

\* connect() fails at once.
RefusedAtOnce == SkipAddress /\ StartOf(NonBlocking, "refused")

\* Mutant of StartConnecting: the polls of all addresses are counted together, from above.
StartConnectingLate ==
  /\ pc = "next" /\ at <= Len(UsedIps)
  /\ StartOf(NonBlocking, "pending")
  /\ pc' = "poll"
  /\ UNCHANGED <<call, ips, proxyIps, at, timeout, proxyTimeout, done, slept, shortcut>>

\* EINPROGRESS.
StartConnecting ==
  /\ pc = "next" /\ at <= Len(UsedIps)
  /\ StartOf(NonBlocking, "pending")
  /\ timeout' = 0 /\ pc' = "poll"
  /\ UNCHANGED <<call, ips, proxyIps, at, proxyTimeout, done, slept, shortcut>>

\* Connected without a wait: straight out of the loop, proxy or not.
ConnectImmediately ==
  /\ Immediate
  /\ pc = "next" /\ at <= Len(UsedIps)
  /\ object' = [status |-> "connected", blocking |-> TRUE]
  /\ conn' = "established" /\ asked' = NoAddr /\ reply' = "nothing"
  /\ done' = TRUE /\ pc' = "true" /\ shortcut' = "immediate"
  /\ UNCHANGED <<call, ips, proxyIps, at, timeout, proxyTimeout, slept>>

ListExhausted ==
  /\ pc = "next" /\ at > Len(UsedIps)
  /\ pc' = "false"
  /\ UNCHANGED <<call, ips, proxyIps, at, timeout, proxyTimeout, done, object, conn, asked, reply,
                 slept, shortcut>>

PollNothing ==
  /\ pc = "poll" /\ conn = "pending"
  /\ pc' = "nap"
  /\ UNCHANGED <<call, ips, proxyIps, at, timeout, proxyTimeout, done, object, conn, asked, reply,
                 slept, shortcut>>

\* The socket is ready and SO_ERROR is set: on to the next address.
PollError ==
  /\ pc = "poll" /\ conn = "refused"
  /\ at' = at + 1 /\ pc' = "next"
  /\ UNCHANGED <<call, ips, proxyIps, timeout, proxyTimeout, done, object, conn, asked, reply,
                 slept, shortcut>>

\* The addresses a Socks4 request may name.  sscanf reads four characters separated by points: it
\* finds one-digit numbers only, and what it stores are the characters and not the numbers.
\* Without such an address bytes are left as they were on the stack.
Requests ==
  IF \E i \in 1 .. Len(ips) : ips[i] \in OneDigit THEN {Elsewhere} ELSE Addrs \cup {Elsewhere}

\* The case for Socks4: the request is sent (a connection still in progress takes no data), and
\* its answer is waited for.
Requested ==
  /\ asked' \in IF conn = "established" THEN Requests ELSE {asked}
  /\ proxyTimeout' = 0 /\ pc' = "await"
  /\ UNCHANGED done

\* The socket is ready without an error, or select was interrupted: its -1 differs from 0 as well,
\* and a connection still in progress has no error.  The proxy's dialogue depends on its type
\* alone, also when the connection bypasses it.
PollReady ==
  /\ pc = "poll"
  /\ conn = "established" \/ (Signals /\ conn = "pending")
  /\ shortcut' = IF conn = "pending" THEN "misread" ELSE shortcut
  /\ CASE call.proxy = "socks4" -> Requested
       [] call.proxy = "socks5" -> pc' = "false" /\ UNCHANGED <<asked, proxyTimeout, done>>
       [] OTHER -> done' = TRUE /\ pc' = "nap" /\ UNCHANGED <<asked, proxyTimeout>>
  /\ UNCHANGED <<call, ips, proxyIps, at, timeout, object, conn, reply, slept>>

EightBytes == reply \in {"granted", "rejected"}

AwaitAnswer ==
  /\ pc = "await" /\ ~EightBytes /\ proxyTimeout < MaxProxyPolls
  /\ proxyTimeout' = proxyTimeout + 1 /\ slept' = slept + 5
  /\ UNCHANGED <<call, ips, proxyIps, pc, at, timeout, done, object, conn, asked, reply, shortcut>>

\* Mutant of AnswerTooLate: a peer that has begun to answer is waited for without a limit.
AnswerTooLateIfSilent ==
  /\ pc = "await" /\ proxyTimeout = MaxProxyPolls /\ reply = "nothing"
  /\ pc' = "false"
  /\ UNCHANGED <<call, ips, proxyIps, at, timeout, proxyTimeout, done, object, conn, asked, reply,
                 slept, shortcut>>

\* All polls used up, whether or not the answer came during the last.
AnswerTooLate ==
  /\ pc = "await" /\ proxyTimeout = MaxProxyPolls
  /\ pc' = "false"
  /\ UNCHANGED <<call, ips, proxyIps, at, timeout, proxyTimeout, done, object, conn, asked, reply,
                 slept, shortcut>>

\* Mutant of ReadAnswer: any answer will do.
ReadAnyAnswer ==
  /\ pc = "await" /\ EightBytes /\ proxyTimeout < MaxProxyPolls
  /\ done' = TRUE /\ pc' = "nap"
  /\ UNCHANGED <<call, ips, proxyIps, at, timeout, proxyTimeout, object, conn, asked, reply,
                 slept, shortcut>>

ReadAnswer ==
  /\ pc = "await" /\ EightBytes /\ proxyTimeout < MaxProxyPolls
  /\ done' = (reply = "granted")
  /\ pc' = IF reply = "granted" THEN "nap" ELSE "false"
  /\ UNCHANGED <<call, ips, proxyIps, at, timeout, proxyTimeout, object, conn, asked, reply,
                 slept, shortcut>>

\* Mutant of Nap: its time is not counted.
NapUncounted ==
  /\ pc = "nap"
  /\ slept' = slept + 1 /\ timeout' = timeout
  /\ pc' = IF done THEN "true" ELSE "poll"
  /\ object' = IF done THEN [status |-> "connected", blocking |-> TRUE] ELSE object
  /\ UNCHANGED <<call, ips, proxyIps, at, proxyTimeout, done, conn, asked, reply, shortcut>>

\* Sleep(50) at the end of each poll, successful or not.  After a success the socket is made
\* blocking again and the call returns true; without one, after too many polls the address is
\* left.
Nap ==
  /\ pc = "nap"
  /\ slept' = slept + 1 /\ timeout' = timeout + 1
  /\ CASE done ->
            pc' = "true" /\ at' = at /\ object' = [status |-> "connected", blocking |-> TRUE]
       [] ~done /\ timeout' > MaxPolls -> pc' = "next" /\ at' = at + 1 /\ object' = object
       [] OTHER -> pc' = "poll" /\ at' = at /\ object' = object
  /\ UNCHANGED <<call, ips, proxyIps, proxyTimeout, done, conn, asked, reply, shortcut>>

CallStep ==
  \/ Resolve
  \/ CreateFails \/ Unresolved \/ RefusedAtOnce
  \/ StartConnecting \/ ConnectImmediately \/ ListExhausted
  \/ PollNothing \/ PollError \/ PollReady
  \/ AwaitAnswer \/ AnswerTooLate \/ ReadAnswer
  \/ Nap

-----------------------------------------------------------------------------
(* The network, while the call runs.                                         *)

Settle ==
  /\ Running /\ conn = "pending"
  /\ conn' \in {"established", "refused"}
  /\ UNCHANGED <<call, ips, proxyIps, pc, at, timeout, proxyTimeout, done, object, asked, reply,
                 slept, shortcut>>

\* A proxy answers a request; another server may send whatever it likes.
PeerSends ==
  /\ pc = "await" /\ conn = "established" /\ ~EightBytes
  /\ asked # NoAddr \/ ~UsesProxy
  /\ reply' \in {"part", "granted", "rejected"} \ {reply}
  /\ UNCHANGED <<call, ips, proxyIps, pc, at, timeout, proxyTimeout, done, object, conn, asked,
                 slept, shortcut>>

Next == CallStep \/ Settle \/ PeerSends

\* The calling thread runs; nothing is assumed of the network.
ConnectSpec == Init /\ [][Next]_connectVars /\ WF_connectVars(CallStep)
-----------------------------------------------------------------------------
\* What the result of a call says holds on each of its many exits.  After true the object is
\* connected and blocking, its connection is established, unless an interrupted select made a
\* connection in progress look complete, and a Socks4 proxy has granted the request, unless the
\* connection did not have to be waited for.  After false the object is not connected, and
\* non-blocking if there is a socket: with this, SocketHandle!Connect has all outcomes.
ResultHolds ==
  /\ pc = "true" =>
       /\ object = [status |-> "connected", blocking |-> TRUE]
       /\ conn = "established" \/ shortcut = "misread"
       /\ call.proxy = "socks4" => reply = "granted" \/ shortcut = "immediate"
  /\ pc = "false" => object \in {NoSocket, NonBlocking}

\* A call sleeps at most nine naps for each address tried and the polls of one proxy dialogue:
\* 450 ms an address and 2 s, whatever the network does.
BoundedWait == slept <= (MaxPolls + 1) * at + 5 * MaxProxyPolls

\* Every call returns, by its own counting alone: no answer of the network is needed.
CallReturns == <>(~Running)

\* Socket.cpp: hostname is the target, and true means success: the connection, or the tunnel of
\* the proxy, leads to an address of the host.
TrueReachesTarget ==
  pc = "true" /\ UsesProxy => \E i \in 1 .. Len(ips) : asked = ips[i]
=============================================================================
