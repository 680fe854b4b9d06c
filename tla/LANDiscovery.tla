---------------------------- MODULE LANDiscovery ----------------------------
(* Finding game servers in the local network (LANDiscovery*.cpp): a service  *)
(* on each of several hosts announces itself by UDP broadcast and answers    *)
(* requests; a client keeps a list of the services it heard of.  Run, on     *)
(* both sides, is called from the application's main loop and handles every  *)
(* datagram that waits; each datagram is a step, for the network moves in    *)
(* between.                                                                  *)
(*                                                                           *)
(* Clients do not interact, so there is one.  Datagrams of other programs    *)
(* are skipped or end a Run early, to be continued by the next; they change  *)
(* nothing and are left out.  A Start whose Create or Bind fails is left out *)
(* too: the object is as if it had not been called, but for a socket that    *)
(* nothing reads from and the next Start replaces.                           *)
EXTENDS Naturals, Sequences

CONSTANTS
  Services,   \* the hosts, each known by its IP
  Data,       \* what SetPayload is called with: sequences of bytes
  Width,      \* the size of Info::Payload, 192 in the code
  Garbage,    \* the content of memory nobody has initialized
  Capacity,   \* infos a socket buffer, or the way to it, can hold
  Pending,    \* requests a socket buffer, or the way to it, can hold
  None        \* no entry in the client's list

ASSUME DiscoveryAssumption ==
  /\ Width \in Nat /\ Capacity \in Nat /\ Pending \in Nat \ {0}
  /\ \A d \in Data : Len(d) \in 0 .. Width /\ DOMAIN d = 1 .. Len(d)

VARIABLES
  service,    \* service[s]: the LANDiscoveryService on s
  isRunning,  \* of the LANDiscoveryClient
  services,   \* services[s]: the payload the client lists s with, or None
  asked,      \* asked[s]: requests on their way to s (one is like the other)
  requests,   \* requests[s]: requests in the buffer of s's socket
  answers,    \* answers[s]: infos from s on their way to the client
  inbox,      \* inbox[s]: infos from s in the buffer of the client's socket
  offered,    \* offered[s]: history, the payloads s has been active with
  mishap      \* mishap[s]: history, the network or a crash has cheated the client about s
              \* since it last asked everyone anew

serviceVars == <<service, offered>>
clientVars == <<isRunning, services>>
vars == <<serviceVars, clientVars, asked, requests, answers, inbox, mishap>>

Bytes == (UNION {{d[i] : i \in DOMAIN d} : d \in Data}) \cup {Garbage}
Payload == [1 .. Width -> Bytes]
Info == [active : BOOLEAN, payload : Payload]

\* A constructed service: the payload is not initialized.
NewService == [isRunning |-> FALSE, dataChanged |-> FALSE, active |-> FALSE,
               payload |-> [i \in 1 .. Width |-> Garbage]]

TypeOK ==
  /\ service \in [Services -> [isRunning : BOOLEAN, dataChanged : BOOLEAN, active : BOOLEAN,
                               payload : Payload]]
  /\ isRunning \in BOOLEAN
  /\ services \in [Services -> Payload \cup {None}]
  /\ asked \in [Services -> 0 .. Pending] /\ requests \in [Services -> 0 .. Pending]
  /\ answers \in [Services -> Seq(Info)] /\ inbox \in [Services -> Seq(Info)]
  /\ offered \in [Services -> SUBSET Payload]
  /\ mishap \in [Services -> BOOLEAN]

Init ==
  /\ service = [s \in Services |-> NewService]
  /\ isRunning = FALSE
  /\ services = [s \in Services |-> None]
  /\ asked = [s \in Services |-> 0] /\ requests = [s \in Services |-> 0]
  /\ answers = [s \in Services |-> << >>] /\ inbox = [s \in Services |-> << >>]
  /\ offered = [s \in Services |-> {}]
  /\ mishap = [s \in Services |-> FALSE]

Mishap(s) == mishap' = [mishap EXCEPT ![s] = TRUE]

-----------------------------------------------------------------------------
(* The service.                                                              *)

\* An info goes out to the client; one too many for the buffers is lost.
SendInfo(s, active) ==
  IF Len(answers[s]) < Capacity
    THEN /\ answers' = [answers EXCEPT ![s] =
                          Append(@, [active |-> active, payload |-> service[s].payload])]
         /\ UNCHANGED mishap
    ELSE Mishap(s) /\ UNCHANGED answers

\* Shorter data leaves the rest of the payload as it was.
SetPayload(s, data) ==
  LET p == [i \in 1 .. Width |-> IF i <= Len(data) THEN data[i] ELSE service[s].payload[i]] IN
  /\ service' = [service EXCEPT ![s] =
                   [@ EXCEPT !.payload = p, !.active = TRUE, !.dataChanged = TRUE]]
  /\ offered' = [offered EXCEPT ![s] = @ \cup {p}]
  /\ UNCHANGED <<clientVars, asked, requests, answers, inbox, mishap>>

ServiceStart(s) ==
  /\ ~service[s].isRunning
  /\ service' = [service EXCEPT ![s].isRunning = TRUE]
  /\ UNCHANGED <<offered, clientVars, asked, requests, answers, inbox, mishap>>

\* Mutant of ServiceStop: the goodbye is forgotten.
ServiceStopSilently(s) ==
  /\ service[s].isRunning
  /\ service' = [service EXCEPT ![s] =
                   [@ EXCEPT !.active = FALSE, !.dataChanged = FALSE, !.isRunning = FALSE]]
  /\ requests' = [requests EXCEPT ![s] = 0]
  /\ UNCHANGED <<offered, clientVars, asked, answers, inbox, mishap>>

\* A last info tells that the service is no longer active; closing the socket drops what
\* waited in its buffer.
ServiceStop(s) ==
  /\ service[s].isRunning
  /\ IF service[s].active THEN SendInfo(s, FALSE) ELSE UNCHANGED <<answers, mishap>>
  /\ service' = [service EXCEPT ![s] =
                   [@ EXCEPT !.active = FALSE, !.dataChanged = FALSE, !.isRunning = FALSE]]
  /\ requests' = [requests EXCEPT ![s] = 0]
  /\ UNCHANGED <<offered, clientVars, asked, inbox>>

\* Run, first part: a new payload is announced.
Announce(s) ==
  /\ service[s].isRunning /\ service[s].dataChanged
  /\ SendInfo(s, service[s].active)
  /\ service' = [service EXCEPT ![s].dataChanged = FALSE]
  /\ UNCHANGED <<offered, clientVars, asked, requests, inbox>>

\* Mutant of Answer: an answer without a request.
AnswerUnasked(s) ==
  /\ service[s].isRunning /\ ~service[s].dataChanged
  /\ requests' = [requests EXCEPT ![s] = @ - 1]
  /\ SendInfo(s, service[s].active)
  /\ UNCHANGED <<serviceVars, clientVars, asked, inbox>>

\* Run, second part: a request is answered.
Answer(s) ==
  /\ service[s].isRunning /\ ~service[s].dataChanged
  /\ requests[s] > 0
  /\ requests' = [requests EXCEPT ![s] = @ - 1]
  /\ SendInfo(s, service[s].active)
  /\ UNCHANGED <<serviceVars, clientVars, asked, inbox>>

\* The host of s dies and comes back with a new service.
Crash(s) ==
  /\ service[s] # NewService
  /\ service' = [service EXCEPT ![s] = NewService]
  /\ requests' = [requests EXCEPT ![s] = 0]
  /\ Mishap(s)
  /\ UNCHANGED <<offered, clientVars, asked, answers, inbox>>

-----------------------------------------------------------------------------
(* The client.                                                               *)

\* Mutant of Refresh: nobody is asked.
RefreshAsksNobody ==
  /\ services' = [s \in Services |-> None]
  /\ UNCHANGED <<asked, mishap>>

\* The list is cleared and every service asked; on a closed socket the sending fails.  (A
\* request too many is lost, and another one is on its way.)
Refresh ==
  /\ services' = [s \in Services |-> None]
  /\ IF isRunning'
       THEN /\ asked' = [s \in Services |-> IF asked[s] < Pending THEN asked[s] + 1 ELSE asked[s]]
            /\ mishap' = [s \in Services |->
                 mishap[s] /\ (answers[s] # << >> \/ inbox[s] # << >>)]
       ELSE UNCHANGED <<asked, mishap>>

ClientRefresh ==
  /\ UNCHANGED isRunning
  /\ Refresh
  /\ UNCHANGED <<serviceVars, requests, answers, inbox>>

\* Start ends with a Refresh.
ClientStart ==
  /\ ~isRunning
  /\ isRunning' = TRUE
  /\ Refresh
  /\ UNCHANGED <<serviceVars, requests, answers, inbox>>

\* The list survives, what waited in the socket's buffer does not.
ClientStop ==
  /\ isRunning
  /\ isRunning' = FALSE
  /\ inbox' = [s \in Services |-> << >>]
  /\ UNCHANGED <<serviceVars, services, asked, requests, answers, mishap>>

\* Mutant of Receive: the active flag is not looked at.
ReceiveAll(s) ==
  /\ isRunning
  /\ inbox[s] # << >>
  /\ services' = [services EXCEPT ![s] = Head(inbox[s]).payload]
  /\ inbox' = [inbox EXCEPT ![s] = Tail(@)]
  /\ UNCHANGED <<serviceVars, isRunning, asked, requests, answers, mishap>>

\* Run: an info lists its sender, or strikes it from the list.
Receive(s) ==
  /\ isRunning
  /\ inbox[s] # << >>
  /\ services' = [services EXCEPT ![s] =
                    IF Head(inbox[s]).active THEN Head(inbox[s]).payload ELSE None]
  /\ inbox' = [inbox EXCEPT ![s] = Tail(@)]
  /\ UNCHANGED <<serviceVars, isRunning, asked, requests, answers, mishap>>

-----------------------------------------------------------------------------
(* The network.  Datagrams for a socket that is not bound vanish.            *)

RequestArrives(s) ==
  /\ asked[s] > 0
  /\ asked' = [asked EXCEPT ![s] = @ - 1]
  /\ requests' = IF service[s].isRunning /\ requests[s] < Pending
                   THEN [requests EXCEPT ![s] = @ + 1] ELSE requests
  /\ UNCHANGED <<serviceVars, clientVars, answers, inbox, mishap>>

Without(q, i) == SubSeq(q, 1, i - 1) \o SubSeq(q, i + 1, Len(q))

\* The info i-th under way is put into the client's buffer, if there is one with room.
Buffer(s, i) ==
  inbox' = IF isRunning /\ Len(inbox[s]) < Capacity
             THEN [inbox EXCEPT ![s] = Append(@, answers[s][i])] ELSE inbox

\* It arrives; one that overtakes others is a mishap, as is one that finds the buffer full.
InfoArrives(s, i) ==
  /\ i \in DOMAIN answers[s]
  /\ answers' = [answers EXCEPT ![s] = Without(@, i)]
  /\ Buffer(s, i)
  /\ IF i > 1 \/ (isRunning /\ Len(inbox[s]) = Capacity) THEN Mishap(s) ELSE UNCHANGED mishap
  /\ UNCHANGED <<serviceVars, clientVars, asked, requests>>

\* It arrives, and another copy is still under way.
InfoDoubled(s, i) ==
  /\ i \in DOMAIN answers[s]
  /\ Buffer(s, i)
  /\ Mishap(s)
  /\ UNCHANGED <<serviceVars, clientVars, asked, requests, answers>>

LoseRequest(s) ==
  /\ asked[s] > 0
  /\ asked' = [asked EXCEPT ![s] = @ - 1]
  /\ Mishap(s)
  /\ UNCHANGED <<serviceVars, clientVars, requests, answers, inbox>>

LoseInfo(s) ==
  /\ \E i \in DOMAIN answers[s] : answers' = [answers EXCEPT ![s] = Without(@, i)]
  /\ Mishap(s)
  /\ UNCHANGED <<serviceVars, clientVars, asked, requests, inbox>>

Next ==
  \/ \E s \in Services :
       \/ \E data \in Data : SetPayload(s, data)
       \/ ServiceStart(s) \/ ServiceStop(s) \/ Announce(s) \/ Answer(s) \/ Crash(s)
       \/ Receive(s)
       \/ \E i \in 1 .. Capacity : InfoArrives(s, i) \/ InfoDoubled(s, i)
       \/ RequestArrives(s) \/ LoseRequest(s) \/ LoseInfo(s)
  \/ ClientStart \/ ClientStop \/ ClientRefresh

Spec == Init /\ [][Next]_vars

\* The network may lose and double for ever, but not always the same thing: an info that is
\* sent again and again finds its way out and gets through.
SentOut(s) == Answer(s) /\ answers'[s] # answers[s]
GetsThrough(s) ==
  \E i \in DOMAIN answers[s] :
    answers[s][i].active /\ Len(inbox[s]) < Capacity /\ InfoArrives(s, i)

\* Both main loops go round, and the client's user refreshes again and again.
Fairness ==
  /\ \A s \in Services :
       /\ WF_vars(Announce(s)) /\ WF_vars(Receive(s)) /\ WF_vars(InfoArrives(s, 1))
       /\ SF_vars(SentOut(s)) /\ SF_vars(RequestArrives(s)) /\ SF_vars(GetsThrough(s))
  /\ WF_vars(ClientRefresh)

FairSpec == Spec /\ Fairness
-----------------------------------------------------------------------------
\* The client lists a service only with a payload that service has offered, whatever the
\* network does to the datagrams and however often both sides restart.
OnlyOffered == \A s \in Services : services[s] # None => services[s] \in offered[s]

\* Nothing about s is under way, and s has nothing to announce.
Quiet(s) ==
  /\ asked[s] = 0 /\ requests[s] = 0 /\ answers[s] = << >> /\ inbox[s] = << >>
  /\ service[s].isRunning => ~service[s].dataChanged

Available(s) == service[s].isRunning /\ service[s].active

\* Announcements, answers, goodbyes and refreshes add up: when all has calmed down a running
\* client lists exactly the services that are available, each with its current payload, in
\* whatever order both sides were started, stopped and changed.  Loss, reordering, duplication
\* and crashes break this until the client asks anew.
ListsAvailable ==
  \A s \in Services :
    isRunning /\ Quiet(s) /\ ~mishap[s] =>
      services[s] = IF Available(s) THEN service[s].payload ELSE None

\* A service that stays available is listed again after every refresh, even if the network
\* loses, doubles and reorders datagrams for ever.
ListedAgain ==
  \A s \in Services :
    <>[](isRunning /\ Available(s)) => []<>(services[s] # None)
=============================================================================
