------------------------ MODULE LANDiscovery_proofs -------------------------
(* What the client's list says is true, for any number of services, any      *)
(* payloads and any sizes of the buffers: the payloads in it were offered by *)
(* the services it names, and in the end it is complete and up to date.      *)
EXTENDS LANDiscovery, SequenceTheorems, TLAPS

USE DiscoveryAssumption DEF DiscoveryAssumption

\* An info that calls s active carries a payload s has been active with.
Genuine(s, info) == info.active => info.payload \in offered[s]

AllGenuine ==
  \A s \in Services :
    /\ Genuine(s, service[s])
    /\ \A i \in 1 .. Len(answers[s]) : Genuine(s, answers[s][i])
    /\ \A i \in 1 .. Len(inbox[s]) : Genuine(s, inbox[s][i])

\* What the client will list the sender of info with.
Listing(info) == IF info.active THEN info.payload ELSE None

\* What it should list s with.
Truth(s) == IF Available(s) THEN service[s].payload ELSE None

\* s has nothing to announce.
Announced(s) == service[s].isRunning => ~service[s].dataChanged

\* A payload is announced once, and only a running service has announced one.
FlagsAgree ==
  \A s \in Services :
    /\ service[s].dataChanged => service[s].active
    /\ service[s].active /\ ~service[s].dataChanged => service[s].isRunning

LastIsTrue(s, q) == Listing(q[Len(q)]) = Truth(s)

\* The last word about s is the truth: the youngest info under way, if there is none the youngest
\* one in the client's buffer, and if that is empty too the list itself, unless an available
\* service still has a request to answer.
LastWord(s) ==
  /\ answers[s] # << >> => LastIsTrue(s, answers[s])
  /\ answers[s] = << >> /\ inbox[s] # << >> => LastIsTrue(s, inbox[s])
  /\ answers[s] = << >> /\ inbox[s] = << >> /\ isRunning
       /\ (Available(s) => asked[s] = 0 /\ requests[s] = 0)
       => services[s] = Truth(s)

\* A closed socket has no buffer, and no buffer holds more than its capacity.
BufferBounded == \A s \in Services : Len(inbox[s]) <= IF isRunning THEN Capacity ELSE 0

LastWords == \A s \in Services : ~mishap[s] /\ Announced(s) => LastWord(s)

TruthInv == TypeOK /\ FlagsAgree /\ BufferBounded /\ LastWords

Service == [isRunning : BOOLEAN, dataChanged : BOOLEAN, active : BOOLEAN, payload : Payload]

-----------------------------------------------------------------------------
\* Without(q, i) is q, shorter by its i-th element.
LEMMA WithoutFacts ==
  ASSUME NEW S, NEW q \in Seq(S), NEW i \in 1 .. Len(q)
  PROVE  /\ Without(q, i) \in Seq(S) /\ Len(Without(q, i)) = Len(q) - 1
         /\ \A j \in 1 .. Len(q) - 1 : Without(q, i)[j] = IF j < i THEN q[j] ELSE q[j + 1]
<1> DEFINE u == SubSeq(q, 1, i - 1)
           v == SubSeq(q, i + 1, Len(q))
<1>1. u \in Seq(S) /\ Len(u) = i - 1 /\ \A j \in 1 .. i - 1 : u[j] = q[j]
  OBVIOUS
<1>2. v \in Seq(S) /\ Len(v) = Len(q) - i /\ \A j \in 1 .. Len(q) - i : v[j] = q[j + i]
  OBVIOUS
<1> HIDE DEF u, v
<1>3. u \o v \in Seq(S) /\ Len(u \o v) = Len(q) - 1
  <2>1. u \o v \in Seq(S) /\ Len(u \o v) = Len(u) + Len(v)
    BY <1>1, <1>2, ConcatProperties
  <2> QED BY <1>1, <1>2, <2>1
<1>4. ASSUME NEW j \in 1 .. Len(q) - 1
      PROVE  (u \o v)[j] = IF j < i THEN q[j] ELSE q[j + 1]
  <2>1. (u \o v)[j] = IF j <= Len(u) THEN u[j] ELSE v[j - Len(u)]
    BY <1>1, <1>2
  <2>2. CASE j < i
    BY <1>1, <2>1, <2>2
  <2>3. CASE ~(j < i)
    <3>1. j - Len(u) \in 1 .. Len(q) - i /\ (j - Len(u)) + i = j + 1
      BY <1>1, <2>3
    <3> QED BY <1>1, <1>2, <2>1, <2>3, <3>1
  <2> QED BY <2>2, <2>3
<1> QED BY <1>3, <1>4 DEF Without, u, v

\* The tail of a sequence has the same last element, or there was one element only.
LEMMA TailFacts ==
  ASSUME NEW S, NEW q \in Seq(S), q # << >>
  PROVE  /\ Len(q) = 1 \/ Len(q) > 1
         /\ Len(q) = 1 => Tail(q) = << >>
         /\ Len(q) > 1 => Tail(q) # << >> /\ Tail(q)[Len(Tail(q))] = q[Len(q)]
<1> DEFINE r == Tail(q)
<1>1. Len(q) \in Nat /\ Len(q) # 0
  OBVIOUS
<1>2. r \in Seq(S) /\ Len(r) = Len(q) - 1
  OBVIOUS
<1>3. Len(q) > 1 => r[Len(q) - 1] = q[Len(q)]
  BY <1>1
<1> HIDE DEF r
<1>4. r = << >> <=> Len(r) = 0
  BY <1>2
<1>5. /\ Len(q) = 1 \/ Len(q) > 1
      /\ Len(q) = 1 => r = << >>
      /\ Len(q) > 1 => r # << >> /\ r[Len(r)] = q[Len(q)]
  BY <1>1, <1>2, <1>3, <1>4
<1> QED BY <1>5 DEF r

\* What SendInfo does: one more info under way, or a mishap.
LEMMA SendInfoFacts ==
  ASSUME TypeOK, NEW s \in Services, NEW active \in BOOLEAN, SendInfo(s, active)
  PROVE  /\ answers' \in [Services -> Seq(Info)] /\ mishap' \in [Services -> BOOLEAN]
         /\ \A t \in Services \ {s} : answers'[t] = answers[t] /\ mishap'[t] = mishap[t]
         /\ \/ /\ answers'[s] = Append(answers[s], [active |-> active, payload |-> service[s].payload])
               /\ mishap'[s] = mishap[s]
            \/ answers'[s] = answers[s] /\ mishap'[s]
<1> DEFINE info == [active |-> active, payload |-> service[s].payload]
<1>1. info \in Info /\ answers[s] \in Seq(Info)
  BY DEF TypeOK, Info
<1>2. Append(answers[s], info) \in Seq(Info)
  BY <1>1
<1> HIDE DEF info
<1>3. CASE Len(answers[s]) < Capacity
  <2>1. answers' = [answers EXCEPT ![s] = Append(@, info)] /\ mishap' = mishap
    BY <1>3 DEF SendInfo, info
  <2> QED BY <2>1, <1>2 DEF TypeOK, info
<1>4. CASE ~(Len(answers[s]) < Capacity)
  <2>1. mishap' = [mishap EXCEPT ![s] = TRUE] /\ answers' = answers
    BY <1>4 DEF SendInfo, Mishap
  <2> QED BY <2>1 DEF TypeOK
<1> QED BY <1>3, <1>4

\* What Buffer does: an info under way is the last one in the buffer, or it is lost.
LEMMA BufferFacts ==
  ASSUME TypeOK, NEW s \in Services, NEW i \in 1 .. Len(answers[s]), Buffer(s, i)
  PROVE  /\ inbox' \in [Services -> Seq(Info)]
         /\ \A t \in Services \ {s} : inbox'[t] = inbox[t]
         /\ isRunning /\ Len(inbox[s]) < Capacity => inbox'[s] = Append(inbox[s], answers[s][i])
         /\ ~(isRunning /\ Len(inbox[s]) < Capacity) => inbox'[s] = inbox[s]
<1>1. answers[s][i] \in Info /\ inbox[s] \in Seq(Info)
  BY DEF TypeOK
<1>2. Append(inbox[s], answers[s][i]) \in Seq(Info)
  BY <1>1
<1> QED BY <1>2 DEF Buffer, TypeOK

\* What taking the i-th info from the network leaves.
LEMMA TakenFacts ==
  ASSUME TypeOK, NEW s \in Services, NEW i \in 1 .. Len(answers[s]),
         answers' = [answers EXCEPT ![s] = Without(@, i)]
  PROVE  /\ answers' \in [Services -> Seq(Info)]
         /\ \A t \in Services \ {s} : answers'[t] = answers[t]
         /\ answers'[s] = Without(answers[s], i) /\ Len(answers'[s]) = Len(answers[s]) - 1
         /\ \A j \in 1 .. Len(answers[s]) - 1 :
              answers'[s][j] = IF j < i THEN answers[s][j] ELSE answers[s][j + 1]
<1>1. answers[s] \in Seq(Info) /\ answers \in [Services -> Seq(Info)]
  BY DEF TypeOK
<1>2. Without(answers[s], i) \in Seq(Info)
  BY <1>1, WithoutFacts
<1>3. answers'[s] = Without(answers[s], i)
  BY <1>1
<1>4. Len(answers'[s]) = Len(answers[s]) - 1
  BY <1>1, <1>3, WithoutFacts
<1>5. \A j \in 1 .. Len(answers[s]) - 1 :
        answers'[s][j] = IF j < i THEN answers[s][j] ELSE answers[s][j + 1]
  BY <1>1, <1>3, WithoutFacts
<1> QED BY <1>1, <1>2, <1>3, <1>4, <1>5

\* What a payload becomes in SetPayload, and the state of a new service.
LEMMA PayloadFacts ==
  /\ \A s \in Services, data \in Data : TypeOK =>
       [i \in 1 .. Width |-> IF i <= Len(data) THEN data[i] ELSE service[s].payload[i]] \in Payload
  /\ NewService \in Service
<1>1. ASSUME TypeOK, NEW s \in Services, NEW data \in Data
      PROVE  [i \in 1 .. Width |-> IF i <= Len(data) THEN data[i] ELSE service[s].payload[i]] \in Payload
  <2> SUFFICES ASSUME NEW i \in 1 .. Width
               PROVE  (IF i <= Len(data) THEN data[i] ELSE service[s].payload[i]) \in Bytes
    BY DEF Payload
  <2>1. service[s].payload[i] \in Bytes
    BY <1>1 DEF TypeOK, Payload
  <2>2. ASSUME i <= Len(data) PROVE data[i] \in Bytes
    <3>1. i \in DOMAIN data
      BY <2>2
    <3>2. data[i] \in {data[k] : k \in DOMAIN data}
      BY <3>1
    <3>3. {data[k] : k \in DOMAIN data} \in {{d[k] : k \in DOMAIN d} : d \in Data}
      OBVIOUS
    <3> QED BY <3>2, <3>3, Zenon DEF Bytes
  <2> QED BY <2>1, <2>2
<1>2. NewService \in Service
  <2>1. Garbage \in Bytes
    BY Zenon DEF Bytes
  <2>2. [i \in 1 .. Width |-> Garbage] \in Payload
    BY <2>1 DEF Payload
  <2> QED BY <2>2 DEF NewService, Service
<1> QED BY <1>1, <1>2

-----------------------------------------------------------------------------
LEMMA TypeInit == Init => TypeOK
<1>1. NewService \in Service /\ << >> \in Seq(Info)
  BY PayloadFacts
<1>2. ASSUME Init PROVE TypeOK
  <2>1. service \in [Services -> Service]
    BY <1>1, <1>2 DEF Init
  <2>2. answers \in [Services -> Seq(Info)] /\ inbox \in [Services -> Seq(Info)]
    BY <1>1, <1>2 DEF Init
  <2>3. /\ isRunning \in BOOLEAN /\ services \in [Services -> Payload \cup {None}]
        /\ asked \in [Services -> 0 .. Pending] /\ requests \in [Services -> 0 .. Pending]
    <3>1. 0 \in 0 .. Pending /\ None \in Payload \cup {None} /\ FALSE \in BOOLEAN
      OBVIOUS
    <3> QED BY <1>2, <3>1, Zenon DEF Init
  <2>4. offered \in [Services -> SUBSET Payload] /\ mishap \in [Services -> BOOLEAN]
    BY <1>2 DEF Init
  <2> QED BY <2>1, <2>2, <2>3, <2>4 DEF TypeOK, Service
<1> QED BY <1>2

\* Every step keeps the types.
LEMMA TypeStep == TypeOK /\ [Next]_vars => TypeOK'
<1> SUFFICES ASSUME TypeOK, [Next]_vars PROVE TypeOK'
  OBVIOUS
<1> USE DEF serviceVars, clientVars
<1>1. ASSUME NEW s \in Services, NEW data \in Data, SetPayload(s, data) PROVE TypeOK'
  <2> DEFINE p == [i \in 1 .. Width |-> IF i <= Len(data) THEN data[i] ELSE service[s].payload[i]]
  <2>1. p \in Payload
    BY PayloadFacts
  <2> HIDE DEF p
  <2>2. /\ service' = [service EXCEPT ![s] =
                          [@ EXCEPT !.payload = p, !.active = TRUE, !.dataChanged = TRUE]]
        /\ offered' = [offered EXCEPT ![s] = @ \cup {p}]
        /\ UNCHANGED <<clientVars, asked, requests, answers, inbox, mishap>>
    BY <1>1 DEF SetPayload, p
  <2>3. service' \in [Services -> Service] /\ offered' \in [Services -> SUBSET Payload]
    BY <2>1, <2>2 DEF TypeOK, Service
  <2> QED BY <2>2, <2>3 DEF TypeOK, Service
<1>2. ASSUME NEW s \in Services, ServiceStart(s) PROVE TypeOK'
  BY <1>2 DEF ServiceStart, TypeOK
<1>3. ASSUME NEW s \in Services, ServiceStop(s) PROVE TypeOK'
  <2>1. answers' \in [Services -> Seq(Info)] /\ mishap' \in [Services -> BOOLEAN]
    BY <1>3, SendInfoFacts DEF ServiceStop, TypeOK
  <2>2. service' \in [Services -> Service]
    <3>1. service' = [service EXCEPT ![s] =
                        [@ EXCEPT !.active = FALSE, !.dataChanged = FALSE, !.isRunning = FALSE]]
      BY <1>3 DEF ServiceStop
    <3> QED BY <3>1, ZenonT(30) DEF TypeOK, Service
  <2>3. requests' \in [Services -> 0 .. Pending]
    <3>1. requests' = [requests EXCEPT ![s] = 0]
      BY <1>3 DEF ServiceStop
    <3> QED BY <3>1 DEF TypeOK
  <2> QED BY <1>3, <2>1, <2>2, <2>3 DEF ServiceStop, TypeOK, Service
<1>4. ASSUME NEW s \in Services, Announce(s) PROVE TypeOK'
  <2>1. service[s].active \in BOOLEAN
    BY DEF TypeOK
  <2>2. answers' \in [Services -> Seq(Info)] /\ mishap' \in [Services -> BOOLEAN]
    BY <1>4, <2>1, SendInfoFacts DEF Announce
  <2> QED BY <1>4, <2>2 DEF Announce, TypeOK
<1>5. ASSUME NEW s \in Services, Answer(s) PROVE TypeOK'
  <2>1. service[s].active \in BOOLEAN
    BY DEF TypeOK
  <2>2. answers' \in [Services -> Seq(Info)] /\ mishap' \in [Services -> BOOLEAN]
    BY <1>5, <2>1, SendInfoFacts DEF Answer
  <2>3. requests' \in [Services -> 0 .. Pending]
    <3>1. requests' = [requests EXCEPT ![s] = @ - 1] /\ requests[s] > 0
      BY <1>5 DEF Answer
    <3> QED BY <3>1 DEF TypeOK
  <2> QED BY <1>5, <2>2, <2>3 DEF Answer, TypeOK
<1>6. ASSUME NEW s \in Services, Crash(s) PROVE TypeOK'
  BY <1>6, PayloadFacts DEF Crash, Mishap, TypeOK, Service
<1>7. ASSUME NEW s \in Services, Receive(s) PROVE TypeOK'
  <2>1. Head(inbox[s]) \in Info /\ Tail(inbox[s]) \in Seq(Info)
    BY <1>7 DEF Receive, TypeOK
  <2>2. Head(inbox[s]).payload \in Payload
    BY <2>1 DEF Info
  <2> QED BY <1>7, <2>1, <2>2 DEF Receive, TypeOK
<1>8. ASSUME NEW s \in Services, NEW i \in 1 .. Capacity, InfoArrives(s, i) PROVE TypeOK'
  <2>1. i \in 1 .. Len(answers[s])
    BY <1>8 DEF InfoArrives, TypeOK
  <2>2. answers' \in [Services -> Seq(Info)] /\ inbox' \in [Services -> Seq(Info)]
    BY <1>8, <2>1, TakenFacts, BufferFacts DEF InfoArrives
  <2>3. mishap' \in [Services -> BOOLEAN]
    BY <1>8 DEF InfoArrives, Mishap, TypeOK
  <2> QED BY <1>8, <2>2, <2>3 DEF InfoArrives, TypeOK
<1>9. ASSUME NEW s \in Services, NEW i \in 1 .. Capacity, InfoDoubled(s, i) PROVE TypeOK'
  <2>1. i \in 1 .. Len(answers[s])
    BY <1>9 DEF InfoDoubled, TypeOK
  <2>2. inbox' \in [Services -> Seq(Info)]
    BY <1>9, <2>1, BufferFacts DEF InfoDoubled
  <2> QED BY <1>9, <2>2 DEF InfoDoubled, Mishap, TypeOK
<1>10. ASSUME NEW s \in Services, RequestArrives(s) PROVE TypeOK'
  BY <1>10 DEF RequestArrives, TypeOK
<1>11. ASSUME NEW s \in Services, LoseRequest(s) PROVE TypeOK'
  BY <1>11 DEF LoseRequest, Mishap, TypeOK
<1>12. ASSUME NEW s \in Services, LoseInfo(s) PROVE TypeOK'
  <2>1. PICK i \in DOMAIN answers[s] : answers' = [answers EXCEPT ![s] = Without(@, i)]
    BY <1>12 DEF LoseInfo
  <2>2. i \in 1 .. Len(answers[s])
    BY DEF TypeOK
  <2>3. answers' \in [Services -> Seq(Info)]
    BY <2>1, <2>2, TakenFacts
  <2> QED BY <1>12, <2>3 DEF LoseInfo, Mishap, TypeOK
<1>13. ASSUME Refresh, isRunning' \in BOOLEAN, UNCHANGED <<serviceVars, requests, answers, inbox>>
       PROVE  TypeOK'
  <2>1. services' \in [Services -> Payload \cup {None}]
    BY <1>13 DEF Refresh
  <2>2. asked' \in [Services -> 0 .. Pending] /\ mishap' \in [Services -> BOOLEAN]
    <3>1. CASE isRunning'
      <4>1. \A s \in Services : asked[s] \in 0 .. Pending /\ mishap[s] \in BOOLEAN
        BY DEF TypeOK
      <4>2. asked' = [s \in Services |-> IF asked[s] < Pending THEN asked[s] + 1 ELSE asked[s]]
            /\ mishap' = [s \in Services |-> mishap[s] /\ (answers[s] # << >> \/ inbox[s] # << >>)]
        BY <1>13, <3>1 DEF Refresh
      <4> QED BY <4>1, <4>2
    <3>2. CASE ~isRunning'
      BY <1>13, <3>2 DEF Refresh, TypeOK
    <3> QED BY <3>1, <3>2
  <2> QED BY <1>13, <2>1, <2>2 DEF TypeOK
<1>14. CASE ClientStart \/ ClientRefresh
  BY <1>13, <1>14 DEF ClientStart, ClientRefresh, TypeOK
<1>15. CASE ClientStop
  <2>1. inbox' \in [Services -> Seq(Info)]
    BY <1>15 DEF ClientStop
  <2> QED BY <1>15, <2>1 DEF ClientStop, TypeOK
<1>16. CASE UNCHANGED vars
  BY <1>16 DEF vars, TypeOK
<1> QED
  BY <1>1, <1>2, <1>3, <1>4, <1>5, <1>6, <1>7, <1>8, <1>9, <1>10, <1>11, <1>12, <1>14, <1>15, <1>16
  DEF Next

\* States, lists, datagrams and histories keep their types.
THEOREM DiscoveryTypes == Spec => []TypeOK
BY TypeInit, TypeStep, PTL DEF Spec

-----------------------------------------------------------------------------
(* Only what was offered is ever announced, carried or listed.               *)

OfferedInv == TypeOK /\ AllGenuine /\ OnlyOffered

\* What leaves the histories, the list and the buffer alone and sends at most one more info from
\* s, with a payload s may announce, keeps everything genuine.
LEMMA SentGenuine ==
  ASSUME OfferedInv, NEW s \in Services, NEW active \in BOOLEAN, SendInfo(s, active),
         active => service[s].active,
         \A t \in Services : service'[t].payload = service[t].payload
                              /\ (service'[t].active => service[t].active),
         UNCHANGED <<offered, services, inbox>>
  PROVE  AllGenuine' /\ OnlyOffered'
<1> DEFINE info == [active |-> active, payload |-> service[s].payload]
<1>1. \A t \in Services : answers[t] \in Seq(Info)
  BY DEF OfferedInv, TypeOK
<1>2. Genuine(s, info)
  BY DEF OfferedInv, AllGenuine, Genuine
<1>3. ASSUME NEW t \in Services, NEW i \in 1 .. Len(answers'[t]) PROVE Genuine(t, answers'[t][i])
  <2>1. CASE answers'[t] = answers[t]
    BY <1>3, <2>1 DEF OfferedInv, AllGenuine
  <2>2. CASE t = s /\ answers'[s] = Append(answers[s], info)
    <3>1. answers'[t][i] = info \/ (i \in 1 .. Len(answers[t]) /\ answers'[t][i] = answers[t][i])
      BY <1>1, <1>3, <2>2
    <3> QED BY <1>2, <2>2, <3>1 DEF OfferedInv, AllGenuine
  <2> QED BY <2>1, <2>2, SendInfoFacts DEF OfferedInv
<1>4. \A t \in Services : Genuine(t, service'[t])
  BY DEF OfferedInv, AllGenuine, Genuine
<1> QED BY <1>3, <1>4 DEF OfferedInv, AllGenuine, Genuine, OnlyOffered

\* So does the network, which carries some of the infos to the buffer.
LEMMA CarriedGenuine ==
  ASSUME OfferedInv, UNCHANGED <<offered, service, services>>,
         \A t \in Services : \A i \in 1 .. Len(answers'[t]) :
           \E j \in 1 .. Len(answers[t]) : answers'[t][i] = answers[t][j],
         \A t \in Services : \A i \in 1 .. Len(inbox'[t]) :
           \/ \E j \in 1 .. Len(inbox[t]) : inbox'[t][i] = inbox[t][j]
           \/ \E j \in 1 .. Len(answers[t]) : inbox'[t][i] = answers[t][j]
  PROVE  AllGenuine' /\ OnlyOffered'
<1>1. \A t \in Services : \A i \in 1 .. Len(answers'[t]) : Genuine(t, answers'[t][i])
  BY DEF OfferedInv, AllGenuine
<1>2. \A t \in Services : \A i \in 1 .. Len(inbox'[t]) : Genuine(t, inbox'[t][i])
  BY DEF OfferedInv, AllGenuine
<1> QED BY <1>1, <1>2 DEF OfferedInv, AllGenuine, Genuine, OnlyOffered

\* What Without and Buffer leave came from where CarriedGenuine wants it.
LEMMA TakenFrom ==
  ASSUME TypeOK, NEW s \in Services, NEW i \in 1 .. Len(answers[s]),
         answers' = [answers EXCEPT ![s] = Without(@, i)]
  PROVE  \A t \in Services : \A k \in 1 .. Len(answers'[t]) :
           \E j \in 1 .. Len(answers[t]) : answers'[t][k] = answers[t][j]
<1> SUFFICES ASSUME NEW t \in Services, NEW k \in 1 .. Len(answers'[t])
             PROVE  \E j \in 1 .. Len(answers[t]) : answers'[t][k] = answers[t][j]
  OBVIOUS
<1>1. CASE t = s
  <2>0. answers[s] \in Seq(Info)
    BY DEF TypeOK
  <2>1. /\ Len(answers'[s]) = Len(answers[s]) - 1
        /\ \A j \in 1 .. Len(answers[s]) - 1 :
             answers'[s][j] = IF j < i THEN answers[s][j] ELSE answers[s][j + 1]
    BY TakenFacts, ZenonT(30)
  <2>2. k \in 1 .. Len(answers[s]) /\ k + 1 \in 1 .. Len(answers[s])
    BY <1>1, <2>0, <2>1
  <2> QED BY <1>1, <2>0, <2>1, <2>2
<1>2. CASE t # s
  BY <1>2, TakenFacts
<1> QED BY <1>1, <1>2

LEMMA BufferFrom ==
  ASSUME TypeOK, NEW s \in Services, NEW i \in 1 .. Len(answers[s]), Buffer(s, i)
  PROVE  \A t \in Services : \A k \in 1 .. Len(inbox'[t]) :
           \/ \E j \in 1 .. Len(inbox[t]) : inbox'[t][k] = inbox[t][j]
           \/ \E j \in 1 .. Len(answers[t]) : inbox'[t][k] = answers[t][j]
<1> SUFFICES ASSUME NEW t \in Services, NEW k \in 1 .. Len(inbox'[t])
             PROVE  \/ \E j \in 1 .. Len(inbox[t]) : inbox'[t][k] = inbox[t][j]
                    \/ \E j \in 1 .. Len(answers[t]) : inbox'[t][k] = answers[t][j]
  OBVIOUS
<1>1. CASE inbox'[t] = inbox[t]
  BY <1>1
<1>2. CASE t = s /\ inbox'[s] = Append(inbox[s], answers[s][i])
  <2>1. inbox[s] \in Seq(Info)
    BY DEF TypeOK
  <2>2. (k \in 1 .. Len(inbox[s]) /\ inbox'[s][k] = inbox[s][k]) \/ inbox'[s][k] = answers[s][i]
    BY <1>2, <2>1
  <2> QED BY <1>2, <2>2
<1> QED BY <1>1, <1>2, BufferFacts

LEMMA OfferedStep == OfferedInv /\ [Next]_vars => OfferedInv'
<1> SUFFICES ASSUME OfferedInv, [Next]_vars PROVE AllGenuine' /\ OnlyOffered'
  BY TypeStep DEF OfferedInv
<1> USE DEF serviceVars, clientVars
<1>0. TypeOK /\ \A s \in Services : service[s] \in Service
  BY DEF OfferedInv, TypeOK, Service
<1>1. ASSUME NEW s \in Services, NEW data \in Data, SetPayload(s, data)
      PROVE  AllGenuine' /\ OnlyOffered'
  <2> DEFINE p == [i \in 1 .. Width |-> IF i <= Len(data) THEN data[i] ELSE service[s].payload[i]]
  <2>1. p \in Payload
    BY <1>0, PayloadFacts
  <2> HIDE DEF p
  <2>2. /\ service' = [service EXCEPT ![s] =
                          [@ EXCEPT !.payload = p, !.active = TRUE, !.dataChanged = TRUE]]
        /\ offered' = [offered EXCEPT ![s] = @ \cup {p}]
        /\ UNCHANGED <<services, answers, inbox>>
    BY <1>1 DEF SetPayload, p
  <2>3. /\ p \in offered'[s] /\ \A t \in Services : offered[t] \subseteq offered'[t]
        /\ service'[s].payload = p /\ \A t \in Services \ {s} : service'[t] = service[t]
    BY <1>0, <2>2 DEF TypeOK, Service
  <2> QED BY <2>2, <2>3 DEF OfferedInv, AllGenuine, Genuine, OnlyOffered
<1>2. ASSUME NEW s \in Services, ServiceStart(s) PROVE AllGenuine' /\ OnlyOffered'
  <2>1. \A t \in Services : service'[t].payload = service[t].payload /\ service'[t].active = service[t].active
    BY <1>0, <1>2 DEF ServiceStart, TypeOK
  <2> QED BY <1>2, <2>1 DEF ServiceStart, OfferedInv, AllGenuine, Genuine, OnlyOffered
<1>3. ASSUME NEW s \in Services, ServiceStop(s) PROVE AllGenuine' /\ OnlyOffered'
  <2>1. \A t \in Services : service'[t].payload = service[t].payload /\ (service'[t].active => service[t].active)
    BY <1>0, <1>3 DEF ServiceStop, TypeOK, Service
  <2>2. UNCHANGED <<offered, services, inbox>>
    BY <1>3 DEF ServiceStop
  <2>3. CASE SendInfo(s, FALSE)
    BY <2>1, <2>2, <2>3, SentGenuine
  <2>4. CASE UNCHANGED answers
    BY <2>1, <2>2, <2>4 DEF OfferedInv, AllGenuine, Genuine, OnlyOffered
  <2> QED BY <1>3, <2>3, <2>4 DEF ServiceStop
<1>4. ASSUME NEW s \in Services, Announce(s) PROVE AllGenuine' /\ OnlyOffered'
  <2>1. \A t \in Services : service'[t].payload = service[t].payload /\ service'[t].active = service[t].active
    BY <1>0, <1>4 DEF Announce, TypeOK, Service
  <2>2. /\ UNCHANGED <<offered, services, inbox>> /\ SendInfo(s, service[s].active)
        /\ service[s].active \in BOOLEAN
    BY <1>0, <1>4 DEF Announce, Service
  <2> QED BY <2>1, <2>2, SentGenuine
<1>5. ASSUME NEW s \in Services, Answer(s) PROVE AllGenuine' /\ OnlyOffered'
  <2>1. /\ UNCHANGED <<offered, services, inbox, service>> /\ SendInfo(s, service[s].active)
        /\ service[s].active \in BOOLEAN
    BY <1>0, <1>5 DEF Answer, Service
  <2> QED BY <2>1, SentGenuine
<1>6. ASSUME NEW s \in Services, Crash(s) PROVE AllGenuine' /\ OnlyOffered'
  <2>1. service' = [service EXCEPT ![s] = NewService] /\ ~NewService.active
        /\ UNCHANGED <<offered, services, answers, inbox>>
    BY <1>6 DEF Crash, NewService
  <2>2. ~service'[s].active /\ \A t \in Services \ {s} : service'[t] = service[t]
    BY <1>0, <2>1 DEF TypeOK
  <2> QED BY <2>1, <2>2 DEF OfferedInv, AllGenuine, Genuine, OnlyOffered
<1>7. ASSUME NEW s \in Services, Receive(s) PROVE AllGenuine' /\ OnlyOffered'
  <2>1. inbox[s] \in Seq(Info) /\ inbox[s] # << >> /\ services \in [Services -> Payload \cup {None}]
        /\ inbox \in [Services -> Seq(Info)]
    BY <1>0, <1>7 DEF Receive, TypeOK
  <2>2. /\ services' = [services EXCEPT ![s] = IF Head(inbox[s]).active THEN Head(inbox[s]).payload ELSE None]
        /\ inbox' = [inbox EXCEPT ![s] = Tail(@)] /\ UNCHANGED <<service, offered, answers>>
    BY <1>7 DEF Receive
  <2>3. Head(inbox[s]) = inbox[s][1] /\ 1 \in 1 .. Len(inbox[s])
    BY <2>1
  <2>4. Genuine(s, Head(inbox[s]))
    BY <2>3 DEF OfferedInv, AllGenuine
  <2>5. OnlyOffered'
    BY <2>1, <2>2, <2>4 DEF OfferedInv, OnlyOffered, Genuine
  <2>6. ASSUME NEW t \in Services, NEW i \in 1 .. Len(inbox'[t]) PROVE Genuine(t, inbox'[t][i])
    <3>1. CASE t = s
      <4>1. inbox'[s] = Tail(inbox[s]) /\ i + 1 \in 1 .. Len(inbox[s]) /\ inbox'[s][i] = inbox[s][i + 1]
        BY <2>1, <2>2, <2>6, <3>1
      <4> QED BY <3>1, <4>1 DEF OfferedInv, AllGenuine
    <3>2. CASE t # s
      <4>1. inbox'[t] = inbox[t]
        BY <2>1, <2>2, <3>2
      <4> QED BY <2>6, <4>1 DEF OfferedInv, AllGenuine
    <3> QED BY <3>1, <3>2
  <2> QED BY <2>2, <2>5, <2>6 DEF OfferedInv, AllGenuine, Genuine
<1>8. ASSUME NEW s \in Services, NEW i \in 1 .. Capacity, InfoArrives(s, i)
      PROVE  AllGenuine' /\ OnlyOffered'
  <2>1. i \in 1 .. Len(answers[s])
    BY <1>0, <1>8 DEF InfoArrives, TypeOK
  <2> QED BY <1>0, <1>8, <2>1, TakenFrom, BufferFrom, CarriedGenuine DEF InfoArrives
<1>9. ASSUME NEW s \in Services, NEW i \in 1 .. Capacity, InfoDoubled(s, i)
      PROVE  AllGenuine' /\ OnlyOffered'
  <2>1. i \in 1 .. Len(answers[s])
    BY <1>0, <1>9 DEF InfoDoubled, TypeOK
  <2> QED BY <1>0, <1>9, <2>1, BufferFrom, CarriedGenuine DEF InfoDoubled
<1>10. ASSUME NEW s \in Services, LoseInfo(s) PROVE AllGenuine' /\ OnlyOffered'
  <2>1. PICK i \in DOMAIN answers[s] : answers' = [answers EXCEPT ![s] = Without(@, i)]
    BY <1>10 DEF LoseInfo
  <2>2. i \in 1 .. Len(answers[s])
    BY <1>0 DEF TypeOK
  <2> QED BY <1>0, <1>10, <2>1, <2>2, TakenFrom, CarriedGenuine DEF LoseInfo
<1>11. ASSUME NEW s \in Services, RequestArrives(s) \/ LoseRequest(s) PROVE AllGenuine' /\ OnlyOffered'
  BY <1>11 DEF RequestArrives, LoseRequest, OfferedInv, AllGenuine, Genuine, OnlyOffered
<1>12. CASE ClientStart \/ ClientRefresh
  BY <1>12 DEF ClientStart, ClientRefresh, Refresh, OfferedInv, AllGenuine, Genuine, OnlyOffered
<1>13. CASE ClientStop
  BY <1>13 DEF ClientStop, OfferedInv, AllGenuine, Genuine, OnlyOffered
<1>14. CASE UNCHANGED vars
  BY <1>14 DEF vars, OfferedInv, AllGenuine, Genuine, OnlyOffered
<1> QED
  BY <1>1, <1>2, <1>3, <1>4, <1>5, <1>6, <1>7, <1>8, <1>9, <1>10, <1>11, <1>12, <1>13, <1>14 DEF Next

\* The client lists a service only with a payload that service has offered, whatever the network
\* does to the datagrams and however often both sides stop, crash and start.
THEOREM ListsOnlyOffered == Spec => []OnlyOffered
<1>1. Init => OfferedInv
  <2> SUFFICES ASSUME Init PROVE AllGenuine /\ OnlyOffered
    BY TypeInit DEF OfferedInv
  <2>1. ~NewService.active
    BY DEF NewService
  <2> QED BY <2>1 DEF Init, AllGenuine, Genuine, OnlyOffered
<1>2. OfferedInv => OnlyOffered
  BY DEF OfferedInv
<1> QED BY <1>1, <1>2, OfferedStep, PTL DEF Spec

-----------------------------------------------------------------------------
(* The last word is the truth, and so is a list to which nothing is under way. *)

LEMMA FlagsStep ==
  ASSUME TypeOK, FlagsAgree, BufferBounded, [Next]_vars PROVE FlagsAgree' /\ BufferBounded'
<1> USE DEF serviceVars, clientVars
<1>0. /\ service \in [Services -> Service] /\ inbox \in [Services -> Seq(Info)]
      /\ \A s \in Services : service[s] \in Service /\ inbox[s] \in Seq(Info)
  BY DEF TypeOK, Service
<1>1. ASSUME NEW s \in Services, UNCHANGED clientVars, UNCHANGED inbox, service' = [service EXCEPT ![s] = service'[s]],
             service'[s].dataChanged => service'[s].active,
             service'[s].active /\ ~service'[s].dataChanged => service'[s].isRunning
      PROVE  FlagsAgree' /\ BufferBounded'
  <2>1. \A t \in Services \ {s} : service'[t] = service[t]
    BY <1>0, <1>1
  <2> QED BY <1>1, <2>1 DEF FlagsAgree, BufferBounded
<1>2. ASSUME NEW s \in Services, NEW data \in Data, SetPayload(s, data) PROVE FlagsAgree' /\ BufferBounded'
  <2>1. service'[s].active /\ service'[s].dataChanged /\ service' = [service EXCEPT ![s] = service'[s]]
    BY <1>0, <1>2 DEF SetPayload, Service
  <2> QED BY <1>1, <1>2, <2>1 DEF SetPayload
<1>3. ASSUME NEW s \in Services, ServiceStart(s) PROVE FlagsAgree' /\ BufferBounded'
  <2>1. service' = [service EXCEPT ![s].isRunning = TRUE]
    BY <1>3 DEF ServiceStart
  <2>2. /\ service'[s].active = service[s].active /\ service'[s].dataChanged = service[s].dataChanged
        /\ service'[s].isRunning /\ service' = [service EXCEPT ![s] = service'[s]]
    BY <1>0, <2>1 DEF Service
  <2> QED BY <1>1, <1>3, <2>2 DEF ServiceStart, FlagsAgree
<1>4. ASSUME NEW s \in Services, ServiceStop(s) PROVE FlagsAgree' /\ BufferBounded'
  <2>1. service' = [service EXCEPT ![s] =
                      [@ EXCEPT !.active = FALSE, !.dataChanged = FALSE, !.isRunning = FALSE]]
    BY <1>4 DEF ServiceStop
  <2>2. ~service'[s].active /\ ~service'[s].dataChanged /\ service' = [service EXCEPT ![s] = service'[s]]
    BY <1>0, <2>1 DEF Service
  <2> QED BY <1>1, <1>4, <2>2 DEF ServiceStop
<1>5. ASSUME NEW s \in Services, Announce(s) PROVE FlagsAgree' /\ BufferBounded'
  <2>1. service' = [service EXCEPT ![s].dataChanged = FALSE] /\ service[s].isRunning
    BY <1>5 DEF Announce
  <2>2. /\ service'[s].active = service[s].active /\ ~service'[s].dataChanged
        /\ service'[s].isRunning /\ service' = [service EXCEPT ![s] = service'[s]]
    BY <1>0, <2>1 DEF Service
  <2> QED BY <1>1, <1>5, <2>2 DEF Announce
<1>6. ASSUME NEW s \in Services, Crash(s) PROVE FlagsAgree' /\ BufferBounded'
  <2>1. service' = [service EXCEPT ![s] = NewService] /\ ~NewService.active /\ ~NewService.dataChanged
    BY <1>6 DEF Crash, NewService
  <2>2. ~service'[s].active /\ ~service'[s].dataChanged /\ service' = [service EXCEPT ![s] = service'[s]]
    BY <1>0, <2>1
  <2> QED BY <1>1, <1>6, <2>2 DEF Crash
<1>7. ASSUME UNCHANGED service, \A t \in Services : Len(inbox'[t]) <= IF isRunning' THEN Capacity ELSE 0
      PROVE  FlagsAgree' /\ BufferBounded'
  BY <1>7 DEF FlagsAgree, BufferBounded
<1>8. ASSUME NEW s \in Services, Receive(s) PROVE FlagsAgree' /\ BufferBounded'
  <2>1. isRunning /\ inbox' = [inbox EXCEPT ![s] = Tail(@)] /\ inbox[s] # << >> /\ UNCHANGED <<service, isRunning>>
    BY <1>8 DEF Receive
  <2>2. Len(inbox'[s]) <= Len(inbox[s]) /\ \A t \in Services \ {s} : inbox'[t] = inbox[t]
    BY <1>0, <2>1
  <2> QED BY <1>0, <1>7, <2>1, <2>2 DEF BufferBounded
<1>9. ASSUME NEW s \in Services, NEW i \in 1 .. Len(answers[s]), Buffer(s, i), UNCHANGED <<service, isRunning>>
      PROVE  FlagsAgree' /\ BufferBounded'
  <2>1. ASSUME NEW t \in Services PROVE Len(inbox'[t]) <= IF isRunning THEN Capacity ELSE 0
    <3>1. CASE inbox'[t] = inbox[t]
      BY <3>1 DEF BufferBounded
    <3>2. CASE t = s /\ inbox'[s] = Append(inbox[s], answers[s][i]) /\ isRunning /\ Len(inbox[s]) < Capacity
      BY <1>0, <3>2
    <3> QED BY <1>9, <3>1, <3>2, BufferFacts
  <2> QED BY <1>7, <1>9, <2>1
<1>10. ASSUME NEW s \in Services, NEW i \in 1 .. Capacity, InfoArrives(s, i) \/ InfoDoubled(s, i)
       PROVE  FlagsAgree' /\ BufferBounded'
  <2>1. i \in 1 .. Len(answers[s])
    BY <1>10 DEF InfoArrives, InfoDoubled, TypeOK
  <2> QED BY <1>9, <1>10, <2>1 DEF InfoArrives, InfoDoubled
<1>11. ASSUME NEW s \in Services, Answer(s) \/ RequestArrives(s) \/ LoseRequest(s) \/ LoseInfo(s)
       PROVE  FlagsAgree' /\ BufferBounded'
  BY <1>11 DEF Answer, RequestArrives, LoseRequest, LoseInfo, FlagsAgree, BufferBounded
<1>12. CASE ClientStart \/ ClientRefresh
  <2>1. UNCHANGED <<service, inbox>> /\ (isRunning => isRunning')
    BY <1>12 DEF ClientStart, ClientRefresh
  <2>2. \A t \in Services : Len(inbox[t]) <= IF isRunning' THEN Capacity ELSE 0
    BY <1>0, <2>1 DEF BufferBounded
  <2> QED BY <1>7, <2>1, <2>2
<1>13. CASE ClientStop
  <2>1. UNCHANGED service /\ ~isRunning' /\ \A t \in Services : Len(inbox'[t]) = 0
    BY <1>13 DEF ClientStop
  <2> QED BY <1>7, <2>1
<1>14. CASE UNCHANGED vars
  BY <1>14 DEF vars, FlagsAgree, BufferBounded
<1> QED
  BY <1>2, <1>3, <1>4, <1>5, <1>6, <1>8, <1>10, <1>11, <1>12, <1>13, <1>14 DEF Next

\* A step that leaves alone what is known about t leaves the last word about it alone.
Same(t) ==
  /\ service'[t] = service[t] /\ answers'[t] = answers[t] /\ inbox'[t] = inbox[t]
  /\ services'[t] = services[t] /\ asked'[t] = asked[t] /\ requests'[t] = requests[t]
  /\ mishap'[t] = mishap[t] /\ isRunning' = isRunning

\* The last word about t stays the truth.
Kept(t) == ~mishap'[t] /\ Announced(t)' => LastWord(t)'

LEMMA SameKept == ASSUME LastWords, NEW t \in Services, Same(t) PROVE Kept(t)
BY DEF LastWords, Same, Kept, Announced, LastWord, LastIsTrue, Truth, Available, Listing

\* A new info about the state s is in from now on is the last word.
LEMMA SentKept ==
  ASSUME TypeOK, NEW s \in Services, NEW active \in BOOLEAN, SendInfo(s, active),
         Truth(s)' = IF active THEN service[s].payload ELSE None
  PROVE  Kept(s)
<1> DEFINE info == [active |-> active, payload |-> service[s].payload]
<1>1. CASE answers'[s] = Append(answers[s], info)
  <2>1. answers[s] \in Seq(Info) /\ info \in Info
    BY DEF TypeOK, Info
  <2>2. answers'[s] # << >> /\ answers'[s][Len(answers'[s])] = info
    BY <1>1, <2>1
  <2>3. Listing(info) = Truth(s)'
    BY DEF Listing
  <2> QED BY <2>2, <2>3 DEF Kept, LastWord, LastIsTrue, Listing
<1>2. CASE mishap'[s]
  BY <1>2 DEF Kept
<1> QED BY <1>1, <1>2, SendInfoFacts

LEMMA LastWordsStep ==
  ASSUME TruthInv, [Next]_vars PROVE LastWords'
<1> USE DEF serviceVars, clientVars
<1>0. /\ TypeOK /\ FlagsAgree /\ BufferBounded /\ LastWords
      /\ service \in [Services -> Service] /\ \A s \in Services : service[s] \in Service
      /\ answers \in [Services -> Seq(Info)] /\ \A s \in Services : answers[s] \in Seq(Info)
      /\ inbox \in [Services -> Seq(Info)] /\ \A s \in Services : inbox[s] \in Seq(Info)
      /\ requests \in [Services -> 0 .. Pending] /\ asked \in [Services -> 0 .. Pending]
  BY DEF TruthInv, TypeOK, Service
<1>Q. mishap \in [Services -> BOOLEAN] /\ services \in [Services -> Payload \cup {None}]
  BY <1>0 DEF TypeOK
<1> SUFFICES ASSUME NEW t \in Services PROVE Kept(t)
  BY DEF LastWords, Kept
<1>1. ASSUME NEW s \in Services, NEW data \in Data, SetPayload(s, data) PROVE Kept(t)
  <2>1. CASE t # s
    <3>1. Same(t)
      BY <1>0, <1>1, <2>1 DEF SetPayload, Same
    <3> QED BY <1>0, <3>1, SameKept
  <2>2. CASE t = s
    <3>1. /\ service'[s].dataChanged /\ service'[s].isRunning = service[s].isRunning
          /\ UNCHANGED <<clientVars, asked, requests, answers, inbox, mishap>>
      BY <1>0, <1>1 DEF SetPayload, Service
    <3>2. CASE service[s].isRunning
      BY <2>2, <3>1, <3>2 DEF Kept, Announced
    <3>3. CASE ~service[s].isRunning
      <4>1. /\ ~Available(s) /\ ~Available(s)' /\ Truth(s) = None /\ Truth(s)' = None
            /\ Announced(s)
        BY <3>1, <3>3 DEF Available, Truth, Announced
      <4> QED BY <1>0, <2>2, <3>1, <4>1 DEF Kept, LastWords, LastWord, LastIsTrue, Listing
    <3> QED BY <3>2, <3>3
  <2> QED BY <2>1, <2>2
<1>2. ASSUME NEW s \in Services, ServiceStart(s) PROVE Kept(t)
  <2>0. /\ service' = [service EXCEPT ![s].isRunning = TRUE] /\ ~service[s].isRunning
        /\ UNCHANGED <<clientVars, asked, requests, answers, inbox, mishap>>
    BY <1>2 DEF ServiceStart
  <2>1. CASE t # s
    <3>1. Same(t)
      BY <1>0, <2>0, <2>1 DEF Same
    <3> QED BY <1>0, <3>1, SameKept
  <2>2. CASE t = s
    <3>1. /\ service'[s].isRunning /\ service'[s].dataChanged = service[s].dataChanged
          /\ service'[s].active = service[s].active
      BY <1>0, <2>0 DEF Service
    <3>2. CASE service[s].dataChanged
      BY <2>2, <3>1, <3>2 DEF Kept, Announced
    <3>3. CASE ~service[s].dataChanged
      <4>1. /\ ~Available(s) /\ ~Available(s)' /\ Truth(s) = None /\ Truth(s)' = None
            /\ Announced(s)
        BY <1>0, <2>0, <3>1, <3>3 DEF Available, Truth, Announced, FlagsAgree
      <4> QED BY <1>0, <2>0, <2>2, <4>1 DEF Kept, LastWords, LastWord, LastIsTrue, Listing
    <3> QED BY <3>2, <3>3
  <2> QED BY <2>1, <2>2
<1>3. ASSUME NEW s \in Services, ServiceStop(s) PROVE Kept(t)
  <2>0. /\ service[s].isRunning
        /\ service' = [service EXCEPT ![s] =
             [@ EXCEPT !.active = FALSE, !.dataChanged = FALSE, !.isRunning = FALSE]]
        /\ requests' = [requests EXCEPT ![s] = 0]
        /\ UNCHANGED <<offered, clientVars, asked, inbox>>
        /\ IF service[s].active THEN SendInfo(s, FALSE) ELSE UNCHANGED <<answers, mishap>>
    BY <1>3 DEF ServiceStop
  <2>1. CASE t # s
    <3>1. answers'[t] = answers[t] /\ mishap'[t] = mishap[t]
      BY <1>0, <2>0, <2>1, SendInfoFacts
    <3>2. Same(t)
      BY <1>0, <2>0, <2>1, <3>1 DEF Same
    <3> QED BY <1>0, <3>2, SameKept
  <2>2. CASE t = s
    <3>1. ~service'[s].isRunning /\ ~Available(s)' /\ Truth(s)' = None
      BY <1>0, <2>0 DEF Service, Available, Truth
    <3>2. CASE service[s].active
      <4>1. SendInfo(s, FALSE)
        BY <2>0, <3>2
      <4> QED BY <1>0, <2>2, <3>1, <4>1, SentKept
    <3>3. CASE ~service[s].active
      <4>1. ~Available(s) /\ Truth(s) = None /\ Announced(s) /\ UNCHANGED <<answers, mishap>>
        BY <1>0, <2>0, <3>3 DEF Available, Truth, Announced, FlagsAgree
      <4> QED BY <1>0, <2>0, <2>2, <3>1, <4>1 DEF Kept, LastWords, LastWord, LastIsTrue, Listing
    <3> QED BY <3>2, <3>3
  <2> QED BY <2>1, <2>2
<1>4. ASSUME NEW s \in Services, Announce(s) PROVE Kept(t)
  <2>0. /\ service[s].isRunning /\ service' = [service EXCEPT ![s].dataChanged = FALSE]
        /\ SendInfo(s, service[s].active) /\ service[s].active \in BOOLEAN
        /\ UNCHANGED <<clientVars, asked, requests, inbox>>
    BY <1>0, <1>4 DEF Announce, Service
  <2>1. CASE t # s
    <3>1. answers'[t] = answers[t] /\ mishap'[t] = mishap[t]
      BY <1>0, <2>0, <2>1, SendInfoFacts
    <3>2. Same(t)
      BY <1>0, <2>0, <2>1, <3>1 DEF Same
    <3> QED BY <1>0, <3>2, SameKept
  <2>2. CASE t = s
    <3>1. service'[s].isRunning /\ service'[s].active = service[s].active
          /\ service'[s].payload = service[s].payload
      BY <1>0, <2>0 DEF Service
    <3>2. Truth(s)' = IF service[s].active THEN service[s].payload ELSE None
      BY <3>1 DEF Truth, Available
    <3> QED BY <1>0, <2>0, <2>2, <3>2, SentKept
  <2> QED BY <2>1, <2>2
<1>5. ASSUME NEW s \in Services, Answer(s) PROVE Kept(t)
  <2>0. /\ service[s].isRunning /\ SendInfo(s, service[s].active) /\ service[s].active \in BOOLEAN
        /\ requests' = [requests EXCEPT ![s] = @ - 1]
        /\ UNCHANGED <<service, clientVars, asked, inbox>>
    BY <1>0, <1>5 DEF Answer, Service
  <2>1. CASE t # s
    <3>1. answers'[t] = answers[t] /\ mishap'[t] = mishap[t]
      BY <1>0, <2>0, <2>1, SendInfoFacts
    <3>2. Same(t)
      BY <1>0, <2>0, <2>1, <3>1 DEF Same
    <3> QED BY <1>0, <3>2, SameKept
  <2>2. CASE t = s
    <3>1. Truth(s)' = IF service[s].active THEN service[s].payload ELSE None
      BY <2>0 DEF Truth, Available
    <3> QED BY <1>0, <2>0, <2>2, <3>1, SentKept
  <2> QED BY <2>1, <2>2
<1>6. ASSUME NEW s \in Services, Mishap(s), \A u \in Services \ {s} : Same(u) PROVE Kept(t)
  <2>1. CASE t # s
    BY <1>0, <1>6, <2>1, SameKept
  <2>2. CASE t = s
    BY <1>Q, <1>6, <2>2 DEF Mishap, Kept
  <2> QED BY <2>1, <2>2
<1>7. ASSUME NEW s \in Services, Crash(s) PROVE Kept(t)
  <2>1. \A u \in Services \ {s} : Same(u)
    BY <1>0, <1>Q, <1>7 DEF Crash, Same, Mishap
  <2> QED BY <1>6, <1>7, <2>1 DEF Crash
<1>8. ASSUME NEW s \in Services, LoseRequest(s) PROVE Kept(t)
  <2>1. \A u \in Services \ {s} : Same(u)
    BY <1>0, <1>Q, <1>8 DEF LoseRequest, Same, Mishap
  <2> QED BY <1>6, <1>8, <2>1 DEF LoseRequest
<1>9. ASSUME NEW s \in Services, LoseInfo(s) PROVE Kept(t)
  <2>1. \A u \in Services \ {s} : Same(u)
    BY <1>0, <1>Q, <1>9 DEF LoseInfo, Same, Mishap
  <2> QED BY <1>6, <1>9, <2>1 DEF LoseInfo
<1>10. ASSUME NEW s \in Services, NEW i \in 1 .. Capacity, InfoDoubled(s, i) PROVE Kept(t)
  <2>1. i \in 1 .. Len(answers[s])
    BY <1>0, <1>10 DEF InfoDoubled
  <2>2. \A u \in Services \ {s} : inbox'[u] = inbox[u]
    BY <1>0, <1>10, <2>1, BufferFacts DEF InfoDoubled
  <2>3. \A u \in Services \ {s} : Same(u)
    BY <1>0, <1>Q, <1>10, <2>2 DEF InfoDoubled, Same, Mishap
  <2> QED BY <1>6, <1>10, <2>3 DEF InfoDoubled
<1>11. ASSUME NEW s \in Services, NEW i \in 1 .. Capacity, InfoArrives(s, i) PROVE Kept(t)
  <2>0. /\ i \in 1 .. Len(answers[s]) /\ answers' = [answers EXCEPT ![s] = Without(@, i)]
        /\ Buffer(s, i) /\ UNCHANGED <<service, clientVars, asked, requests>>
        /\ IF i > 1 \/ (isRunning /\ Len(inbox[s]) = Capacity) THEN Mishap(s) ELSE UNCHANGED mishap
    BY <1>0, <1>11 DEF InfoArrives
  <2>1. \A u \in Services \ {s} : inbox'[u] = inbox[u] /\ answers'[u] = answers[u]
    BY <1>0, <2>0, BufferFacts, TakenFacts
  <2>2. \A u \in Services \ {s} : mishap'[u] = mishap[u]
    BY <1>Q, <2>0 DEF Mishap
  <2>3. \A u \in Services \ {s} : Same(u)
    BY <2>0, <2>1, <2>2 DEF Same
  <2>4. CASE i > 1 \/ (isRunning /\ Len(inbox[s]) = Capacity)
    BY <1>6, <2>0, <2>3, <2>4
  <2>5. CASE i = 1 /\ ~(isRunning /\ Len(inbox[s]) = Capacity) /\ t = s
    <3>1. mishap' = mishap
      BY <2>0, <2>5
    <3>2. /\ Len(answers'[s]) = Len(answers[s]) - 1
          /\ \A j \in 1 .. Len(answers[s]) - 1 :
               answers'[s][j] = IF j < i THEN answers[s][j] ELSE answers[s][j + 1]
          /\ answers'[s] \in Seq(Info)
      BY <1>0, <2>0, TakenFacts
    <3>3. answers[s] # << >> /\ Len(answers[s]) \in Nat
      BY <1>0, <2>0
    <3>4. SUFFICES ASSUME ~mishap[s], Announced(s), LastIsTrue(s, answers[s])
                   PROVE  LastWord(s)'
      BY <1>0, <2>0, <2>5, <3>1, <3>3 DEF Kept, Announced, LastWords, LastWord
    <3>5. CASE Len(answers[s]) > 1
      <4>1. answers'[s][Len(answers'[s])] = answers[s][Len(answers[s])] /\ answers'[s] # << >>
        BY <2>5, <3>2, <3>3, <3>5
      <4> QED BY <2>0, <3>4, <4>1 DEF LastWord, LastIsTrue, Truth, Available, Listing
    <3>6. CASE Len(answers[s]) = 1 /\ isRunning
      <4>1. Len(inbox[s]) < Capacity
        BY <1>0, <2>5, <3>6 DEF BufferBounded
      <4>2. inbox'[s] = Append(inbox[s], answers[s][i])
        BY <1>0, <2>0, <4>1, <3>6, BufferFacts
      <4>3. answers[s][i] \in Info
        BY <1>0, <2>0
      <4>4. inbox[s] \in Seq(Info) /\ i = 1
        BY <1>0, <2>5
      <4>5. inbox'[s] # << >> /\ inbox'[s][Len(inbox'[s])] = answers[s][1]
        BY <4>2, <4>3, <4>4
      <4>6. answers'[s] = << >>
        BY <3>2, <3>6
      <4> QED BY <2>0, <3>4, <3>6, <4>5, <4>6 DEF LastWord, LastIsTrue, Truth, Available, Listing
    <3>7. CASE Len(answers[s]) = 1 /\ ~isRunning
      <4>1. inbox'[s] = inbox[s]
        BY <1>0, <2>0, <3>7, BufferFacts
      <4>2. Len(inbox[s]) <= 0 /\ inbox[s] \in Seq(Info)
        BY <1>0, <3>7 DEF BufferBounded
      <4>3. inbox[s] = << >>
        BY <4>2
      <4>4. answers'[s] = << >>
        BY <3>2, <3>7
      <4> QED BY <2>0, <3>7, <4>1, <4>3, <4>4 DEF LastWord
    <3>8. Len(answers[s]) > 1 \/ Len(answers[s]) = 1
      <4>1. answers[s] \in Seq(Info)
        BY <1>0
      <4> QED BY <3>3, <4>1, TailFacts
    <3> QED BY <3>5, <3>6, <3>7, <3>8
  <2>6. CASE t # s
    BY <1>0, <2>3, <2>6, SameKept
  <2> QED BY <1>0, <2>0, <2>4, <2>5, <2>6
<1>12. ASSUME NEW s \in Services, RequestArrives(s) PROVE Kept(t)
  <2>0. /\ asked[s] > 0 /\ asked' = [asked EXCEPT ![s] = @ - 1]
        /\ requests' = IF service[s].isRunning /\ requests[s] < Pending
                         THEN [requests EXCEPT ![s] = @ + 1] ELSE requests
        /\ UNCHANGED <<service, clientVars, answers, inbox, mishap>>
    BY <1>12 DEF RequestArrives
  <2>1. CASE t # s
    <3>1. Same(t)
      BY <1>0, <2>0, <2>1 DEF Same
    <3> QED BY <1>0, <3>1, SameKept
  <2>2. CASE t = s
    <3>1. Available(s) => requests'[s] # 0
      BY <1>0, <2>0 DEF Available
    <3>2. Available(s)' = Available(s) /\ Truth(s)' = Truth(s) /\ Announced(s)' = Announced(s)
      BY <2>0 DEF Available, Truth, Announced
    <3> QED BY <1>0, <2>0, <2>2, <3>1, <3>2 DEF Kept, LastWords, LastWord, LastIsTrue, Listing
  <2> QED BY <2>1, <2>2
<1>13. ASSUME NEW s \in Services, Receive(s) PROVE Kept(t)
  <2>0. /\ isRunning /\ inbox[s] # << >>
        /\ services' = [services EXCEPT ![s] = Listing(Head(inbox[s]))]
        /\ inbox' = [inbox EXCEPT ![s] = Tail(@)]
        /\ UNCHANGED <<service, isRunning, asked, requests, answers, mishap>>
    BY <1>13 DEF Receive, Listing
  <2>1. CASE t # s
    <3>1. Same(t)
      BY <1>0, <1>Q, <2>0, <2>1 DEF Same
    <3> QED BY <1>0, <3>1, SameKept
  <2>2. CASE t = s
    <3>1. Available(s)' = Available(s) /\ Truth(s)' = Truth(s) /\ Announced(s)' = Announced(s)
      BY <2>0 DEF Available, Truth, Announced
    <3>2. SUFFICES ASSUME ~mishap[s], Announced(s), LastWord(s) PROVE LastWord(s)'
      BY <1>0, <2>0, <2>2, <3>1 DEF Kept, LastWords
    <3>3. inbox'[s] = Tail(inbox[s]) /\ services'[s] = Listing(inbox[s][1])
      BY <1>0, <1>Q, <2>0
    <3>6. inbox[s] \in Seq(Info)
      BY <1>0
    <3>4. CASE Len(inbox[s]) = 1
      <4>0. inbox'[s] = << >>
        BY <2>0, <3>3, <3>4, <3>6, TailFacts
      <4>1. answers[s] = << >> => services'[s] = Truth(s)
        BY <2>0, <3>2, <3>3, <3>4 DEF LastWord, LastIsTrue
      <4> QED BY <2>0, <3>1, <3>2, <4>0, <4>1 DEF LastWord, LastIsTrue, Listing
    <3>5. CASE Len(inbox[s]) > 1
      <4>1. inbox'[s] # << >> /\ inbox'[s][Len(inbox'[s])] = inbox[s][Len(inbox[s])]
        BY <2>0, <3>3, <3>5, <3>6, TailFacts
      <4> QED BY <2>0, <3>1, <3>2, <4>1 DEF LastWord, LastIsTrue, Listing
    <3>7. Len(inbox[s]) = 1 \/ Len(inbox[s]) > 1
      BY <2>0, <3>6, TailFacts
    <3> QED BY <3>4, <3>5, <3>7
  <2> QED BY <2>1, <2>2
<1>14. CASE ClientStart \/ ClientRefresh
  <2>0. Refresh /\ UNCHANGED <<service, requests, answers, inbox>>
    BY <1>14 DEF ClientStart, ClientRefresh
  <2>1. Available(t)' = Available(t) /\ Truth(t)' = Truth(t) /\ Announced(t)' = Announced(t)
    BY <2>0 DEF Available, Truth, Announced
  <2>2. services'[t] = None /\ (~Available(t) => Truth(t) = None)
    BY <2>0 DEF Refresh, Truth
  <2>3. CASE isRunning'
    <3>0. /\ asked'[t] = IF asked[t] < Pending THEN asked[t] + 1 ELSE asked[t]
          /\ mishap'[t] = (mishap[t] /\ (answers[t] # << >> \/ inbox[t] # << >>))
      BY <2>0, <2>3, Zenon DEF Refresh
    <3>1. ~mishap'[t] => ~mishap[t] \/ (answers[t] = << >> /\ inbox[t] = << >>)
      BY <3>0, Zenon
    <3>2. asked'[t] # 0
      <4>1. asked[t] \in 0 .. Pending
        BY <1>0
      <4> QED BY <3>0, <4>1, SMT
    <3> QED BY <1>0, <2>0, <2>1, <2>2, <3>1, <3>2 DEF Kept, LastWords, LastWord, LastIsTrue, Listing
  <2>4. CASE ~isRunning'
    <3>1. mishap' = mishap
      BY <2>0, <2>4 DEF Refresh
    <3> QED BY <1>0, <2>0, <2>1, <2>4, <3>1 DEF Kept, LastWords, LastWord, LastIsTrue, Listing
  <2> QED BY <2>3, <2>4
<1>15. CASE ClientStop
  <2>1. ~isRunning' /\ inbox'[t] = << >> /\ UNCHANGED <<service, services, asked, requests, answers, mishap>>
    BY <1>15 DEF ClientStop
  <2>2. Truth(t)' = Truth(t) /\ Announced(t)' = Announced(t)
    BY <2>1 DEF Available, Truth, Announced
  <2> QED BY <1>0, <2>1, <2>2 DEF Kept, LastWords, LastWord, LastIsTrue, Listing
<1>16. CASE UNCHANGED vars
  <2>1. Same(t)
    BY <1>16 DEF vars, Same
  <2> QED BY <1>0, <2>1, SameKept
<1> QED
  BY <1>1, <1>2, <1>3, <1>4, <1>5, <1>7, <1>8, <1>9, <1>10, <1>11, <1>12, <1>13, <1>14, <1>15, <1>16
  DEF Next

\* When all has calmed down a running client lists exactly the services that are available, each
\* with its current payload, unless the network or a crash has cheated it since it last asked.
THEOREM ListIsComplete == Spec => []ListsAvailable
<1>1. Init => TruthInv
  <2> SUFFICES ASSUME Init PROVE FlagsAgree /\ BufferBounded /\ LastWords
    BY TypeInit DEF TruthInv
  <2>1. ~NewService.active /\ ~NewService.dataChanged
    BY DEF NewService
  <2> QED BY <2>1 DEF Init, FlagsAgree, BufferBounded, LastWords, LastWord
<1>2. TruthInv /\ [Next]_vars => TruthInv'
  BY TypeStep, FlagsStep, LastWordsStep DEF TruthInv
<1>3. TruthInv => ListsAvailable
  BY DEF TruthInv, LastWords, LastWord, Announced, Truth, Quiet, ListsAvailable
<1> QED BY <1>1, <1>2, <1>3, PTL DEF Spec
=============================================================================
