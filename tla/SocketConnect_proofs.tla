------------------------ MODULE SocketConnect_proofs ------------------------
(* What a call of Socket::Connect returns, and how long it waits, for any    *)
(* addresses, any limits of the polls, and any network and proxy.            *)
EXTENDS SocketConnect, TLAPS

\* The naps of the addresses that were left.
Earlier == (MaxPolls + 1) * (at - 1)

\* What has been slept, by where the call is: the polls of this address have been counted, and the
\* dialogue with a proxy is held once in a call.
NapsCounted ==
  /\ pc \in {"poll", "await", "nap"} => timeout <= MaxPolls
  /\ pc = "resolve" => slept = 0
  /\ pc = "next" => slept <= Earlier
  /\ pc = "poll" => slept <= Earlier + timeout
  /\ pc = "await" => slept <= Earlier + timeout + 5 * proxyTimeout
  /\ pc = "nap" => slept <= Earlier + timeout + (IF done THEN 5 * MaxProxyPolls ELSE 0)
  /\ pc \in {"true", "false"} => BoundedWait

\* What the call relies on at its exits: the socket is non-blocking until the call succeeds, a wait
\* for an answer follows a connection, and done is set by a connection or an answer.
ObjectFollows ==
  /\ pc \in {"resolve", "next"} => object \in {NoSocket, NonBlocking}
  /\ pc \in {"poll", "await", "nap"} => object = NonBlocking
  /\ done => pc \in {"nap", "true"}
  /\ pc = "await" => conn = "established" \/ shortcut = "misread"
  /\ pc = "nap" /\ done =>
       /\ conn = "established" \/ shortcut = "misread"
       /\ call.proxy = "socks4" => reply = "granted"

ConnectInv == TypeOK /\ NapsCounted /\ ObjectFollows /\ ResultHolds

-----------------------------------------------------------------------------
\* The next address has a nap more for each of its polls than the one before.
LEMMA OneMore == ASSUME NEW a \in Nat \ {0}
                 PROVE  /\ (MaxPolls + 1) * (a - 1) \in Nat
                        /\ (MaxPolls + 1) * ((a + 1) - 1) = (MaxPolls + 1) * (a - 1) + (MaxPolls + 1)
                        /\ (MaxPolls + 1) * a = (MaxPolls + 1) * (a - 1) + (MaxPolls + 1)
<1>1. PICK m \in Nat \ {0} : m = MaxPolls + 1
  BY ConnectAssumption DEF ConnectAssumption
<1>2. PICK b \in Nat : a = b + 1
  <2>1. a - 1 \in Nat /\ a = (a - 1) + 1
    OBVIOUS
  <2> QED BY <2>1
<1>3. m * b \in Nat /\ m * (b + 1) = m * b + m
  BY <1>1, <1>2
<1> QED BY <1>1, <1>2, <1>3
-----------------------------------------------------------------------------
(* Types.                                                                    *)

\* Every step keeps the types: the polls stay within their limits because they are compared first.
LEMMA TypeStep == ASSUME TypeOK, NapsCounted, [Next]_connectVars
                  PROVE  TypeOK'
<1> USE ConnectAssumption DEF ConnectAssumption, TypeOK
<1>1. CASE Resolve
  <2>1. Seq(Addrs \ {Loopback}) \subseteq Seq(Addrs) /\ <<>> \in Seq(Addrs) /\ <<Loopback>> \in Seq(Addrs)
    OBVIOUS
  <2>2. \A localhost \in BOOLEAN : HostToIp(localhost) \subseteq Seq(Addrs)
    BY <2>1 DEF HostToIp
  <2>3. call.localhost \in BOOLEAN
    OBVIOUS
  <2>4. proxyIps' \in Seq(Addrs) /\ ips' \in Seq(Addrs)
    BY <1>1, <2>1, <2>2, <2>3 DEF Resolve
  <2>5. pc' \in {"false", "next"}
    BY <1>1 DEF Resolve
  <2> QED BY <1>1, <2>4, <2>5 DEF Resolve
<1>2. CASE CreateFails
  BY <1>2 DEF CreateFails, SkipAddress, StartOf, NoSocket, NonBlocking, NapsCounted
<1>3. CASE Unresolved
  BY <1>3 DEF Unresolved, SkipAddress, StartOf, NoSocket, NonBlocking, NapsCounted
<1>4. CASE RefusedAtOnce
  BY <1>4 DEF RefusedAtOnce, SkipAddress, StartOf, NoSocket, NonBlocking, NapsCounted
<1>5. CASE StartConnecting
  BY <1>5 DEF StartConnecting, StartOf, NoSocket, NonBlocking, NapsCounted
<1>6. CASE ConnectImmediately
  BY <1>6 DEF ConnectImmediately, NoSocket, NonBlocking, NapsCounted
<1>7. CASE ListExhausted
  BY <1>7 DEF ListExhausted, NoSocket, NonBlocking, NapsCounted
<1>8. CASE PollNothing
  BY <1>8 DEF PollNothing, NoSocket, NonBlocking, NapsCounted
<1>9. CASE PollError
  BY <1>9 DEF PollError, NoSocket, NonBlocking, NapsCounted
<1>10. CASE PollReady
  <2>1. Requests \subseteq Addrs \cup {Elsewhere}
    BY DEF Requests
  <2>2. /\ asked' \in Addrs \cup {Elsewhere, NoAddr} /\ proxyTimeout' \in 0 .. MaxProxyPolls
        /\ pc' \in {"await", "false", "nap"} /\ done' \in BOOLEAN
    <3>1. CASE call.proxy = "socks4"
      BY <1>10, <2>1, <3>1 DEF PollReady, Requested
    <3>2. CASE call.proxy = "socks5"
      BY <1>10, <3>2 DEF PollReady
    <3>3. CASE call.proxy = "none"
      BY <1>10, <3>3 DEF PollReady
    <3> QED BY <3>1, <3>2, <3>3 DEF Proxies
  <2>3. shortcut' \in {"none", "immediate", "misread"}
    BY <1>10 DEF PollReady
  <2> QED BY <1>10, <2>2, <2>3 DEF PollReady
<1>11. CASE AwaitAnswer
  BY <1>11 DEF AwaitAnswer, NoSocket, NonBlocking, NapsCounted
<1>12. CASE AnswerTooLate
  BY <1>12 DEF AnswerTooLate, NoSocket, NonBlocking, NapsCounted
<1>13. CASE ReadAnswer
  BY <1>13 DEF ReadAnswer, NoSocket, NonBlocking, NapsCounted
<1>14. CASE Nap
  <2>1. timeout' \in 0 .. MaxPolls + 1 /\ slept' \in Nat
    BY <1>14 DEF Nap, NapsCounted
  <2>2. /\ pc' \in {"true", "next", "poll"} /\ at' \in Nat \ {0}
        /\ object' \in [status : {"invalid", "valid", "connected"}, blocking : BOOLEAN]
    <3>1. CASE done
      <4>1. pc' = "true" /\ at' = at /\ object' = [status |-> "connected", blocking |-> TRUE]
        BY <1>14, <3>1 DEF Nap
      <4> QED BY <4>1
    <3>2. CASE ~done /\ timeout' > MaxPolls
      BY <1>14, <3>2 DEF Nap
    <3>3. CASE ~done /\ ~(timeout' > MaxPolls)
      BY <1>14, <3>3 DEF Nap
    <3> QED BY <3>1, <3>2, <3>3
  <2> QED BY <1>14, <2>1, <2>2 DEF Nap
<1>15. CASE Settle
  BY <1>15 DEF Settle, Running, NoSocket, NonBlocking, NapsCounted
<1>16. CASE PeerSends
  BY <1>16 DEF PeerSends, NoSocket, NonBlocking, NapsCounted
<1>17. CASE UNCHANGED connectVars
  BY <1>17 DEF connectVars, NoSocket, NonBlocking, NapsCounted
<1> QED BY <1>1, <1>2, <1>3, <1>4, <1>5, <1>6, <1>7, <1>8, <1>9, <1>10, <1>11, <1>12, <1>13, <1>14, <1>15, <1>16, <1>17 DEF Next, CallStep

-----------------------------------------------------------------------------
(* Naps.                                                                     *)

\* Every step counts the time it sleeps.
LEMMA NapStep == ASSUME TypeOK, TypeOK', NapsCounted, ObjectFollows, [Next]_connectVars
                 PROVE  NapsCounted'
<1>0. /\ at \in Nat \ {0} /\ slept \in Nat /\ timeout \in Nat /\ proxyTimeout \in 0 .. MaxProxyPolls
      /\ MaxPolls \in Nat /\ MaxProxyPolls \in Nat \ {0} /\ done \in BOOLEAN
  BY ConnectAssumption DEF TypeOK, ConnectAssumption
<1>a. PICK e \in Nat : /\ e = (MaxPolls + 1) * (at - 1)
                       /\ (MaxPolls + 1) * ((at + 1) - 1) = e + (MaxPolls + 1)
                       /\ (MaxPolls + 1) * at = e + (MaxPolls + 1)
  BY <1>0, OneMore
<1>1. CASE Resolve
  BY <1>1, <1>0, <1>a DEF Resolve, HostToIp, NapsCounted, ObjectFollows, BoundedWait, Earlier
<1>2. CASE CreateFails
  BY <1>2, <1>0, <1>a DEF CreateFails, SkipAddress, StartOf, NapsCounted, ObjectFollows, BoundedWait, Earlier
<1>3. CASE Unresolved
  BY <1>3, <1>0, <1>a DEF Unresolved, SkipAddress, StartOf, NapsCounted, ObjectFollows, BoundedWait, Earlier
<1>4. CASE RefusedAtOnce
  BY <1>4, <1>0, <1>a DEF RefusedAtOnce, SkipAddress, StartOf, NapsCounted, ObjectFollows, BoundedWait, Earlier
<1>5. CASE StartConnecting
  BY <1>5, <1>0, <1>a DEF StartConnecting, StartOf, NapsCounted, ObjectFollows, BoundedWait, Earlier
<1>6. CASE ConnectImmediately
  BY <1>6, <1>0, <1>a DEF ConnectImmediately, NapsCounted, ObjectFollows, BoundedWait, Earlier
<1>7. CASE ListExhausted
  BY <1>7, <1>0, <1>a DEF ListExhausted, NapsCounted, ObjectFollows, BoundedWait, Earlier
<1>8. CASE PollNothing
  BY <1>8, <1>0, <1>a DEF PollNothing, NapsCounted, ObjectFollows, BoundedWait, Earlier
<1>9. CASE PollError
  BY <1>9, <1>0, <1>a DEF PollError, NapsCounted, ObjectFollows, BoundedWait, Earlier
<1>10. CASE PollReady
  <2>1. slept <= e + timeout /\ timeout <= MaxPolls
    BY <1>10, <1>a DEF PollReady, NapsCounted, Earlier
  <2>2. UNCHANGED <<at, timeout, slept>>
    BY <1>10 DEF PollReady
  <2>3. CASE call.proxy = "socks4"
    <3>1. pc' = "await" /\ proxyTimeout' = 0
      BY <1>10, <2>3 DEF PollReady, Requested
    <3> QED BY <1>0, <1>a, <2>1, <2>2, <3>1 DEF NapsCounted, Earlier
  <2>4. CASE call.proxy = "socks5"
    <3>1. pc' = "false"
      BY <1>10, <2>4 DEF PollReady
    <3> QED BY <1>0, <1>a, <2>1, <2>2, <3>1 DEF NapsCounted, BoundedWait
  <2>5. CASE call.proxy = "none"
    <3>1. pc' = "nap" /\ done' = TRUE
      BY <1>10, <2>5 DEF PollReady
    <3> QED BY <1>0, <1>a, <2>1, <2>2, <3>1 DEF NapsCounted, Earlier
  <2> QED BY <2>3, <2>4, <2>5 DEF TypeOK, Proxies
<1>11. CASE AwaitAnswer
  BY <1>11, <1>0, <1>a DEF AwaitAnswer, NapsCounted, ObjectFollows, BoundedWait, Earlier
<1>12. CASE AnswerTooLate
  BY <1>12, <1>0, <1>a DEF AnswerTooLate, NapsCounted, ObjectFollows, BoundedWait, Earlier
<1>13. CASE ReadAnswer
  <2>1. slept <= e + timeout + 5 * proxyTimeout /\ timeout <= MaxPolls
    BY <1>13, <1>a DEF ReadAnswer, NapsCounted, Earlier
  <2>2. UNCHANGED <<at, timeout, slept>>
    BY <1>13 DEF ReadAnswer
  <2>3. CASE reply = "granted"
    <3>1. pc' = "nap" /\ done'
      BY <1>13, <2>3 DEF ReadAnswer
    <3> QED BY <1>0, <1>a, <2>1, <2>2, <3>1 DEF NapsCounted, Earlier
  <2>4. CASE reply # "granted"
    <3>1. pc' = "false"
      BY <1>13, <2>4 DEF ReadAnswer
    <3> QED BY <1>0, <1>a, <2>1, <2>2, <3>1 DEF NapsCounted, BoundedWait
  <2> QED BY <2>3, <2>4
<1>14. CASE Nap
  <2>1. slept <= e + timeout + (IF done THEN 5 * MaxProxyPolls ELSE 0) /\ timeout <= MaxPolls
    BY <1>14, <1>a DEF Nap, NapsCounted, Earlier
  <2>2. slept' = slept + 1 /\ timeout' = timeout + 1
    BY <1>14 DEF Nap
  <2>3. CASE done
    <3>1. pc' = "true" /\ at' = at
      BY <1>14, <2>3 DEF Nap
    <3> QED BY <1>0, <1>a, <2>1, <2>2, <2>3, <3>1 DEF NapsCounted, BoundedWait
  <2>4. CASE ~done /\ timeout' > MaxPolls
    <3>1. pc' = "next" /\ at' = at + 1
      BY <1>14, <2>4 DEF Nap
    <3> QED BY <1>0, <1>a, <2>1, <2>2, <2>4, <3>1 DEF NapsCounted, Earlier
  <2>5. CASE ~done /\ ~(timeout' > MaxPolls)
    <3>1. pc' = "poll" /\ at' = at
      BY <1>14, <2>5 DEF Nap
    <3> QED BY <1>0, <1>a, <2>1, <2>2, <2>5, <3>1 DEF NapsCounted, Earlier
  <2> QED BY <2>3, <2>4, <2>5
<1>15. CASE Settle
  BY <1>15, <1>0, <1>a DEF Settle, Running, NapsCounted, ObjectFollows, BoundedWait, Earlier
<1>16. CASE PeerSends
  BY <1>16, <1>0, <1>a DEF PeerSends, NapsCounted, ObjectFollows, BoundedWait, Earlier
<1>17. CASE UNCHANGED connectVars
  BY <1>17, <1>0, <1>a DEF connectVars, NapsCounted, ObjectFollows, BoundedWait, Earlier
<1> QED BY <1>1, <1>2, <1>3, <1>4, <1>5, <1>6, <1>7, <1>8, <1>9, <1>10, <1>11, <1>12, <1>13, <1>14, <1>15, <1>16, <1>17 DEF Next, CallStep

-----------------------------------------------------------------------------
(* The object and the result.                                                *)

\* Every step keeps the object, the connection and the answer in agreement with where the call is.
LEMMA ObjectStep == ASSUME TypeOK, ObjectFollows, ResultHolds, [Next]_connectVars
                    PROVE  ObjectFollows' /\ ResultHolds'
<1>1. CASE Resolve
  BY <1>1 DEF Resolve, HostToIp, TypeOK, ObjectFollows, ResultHolds, NoSocket, NonBlocking
<1>2. CASE CreateFails
  BY <1>2 DEF CreateFails, SkipAddress, StartOf, TypeOK, ObjectFollows, ResultHolds, NoSocket, NonBlocking
<1>3. CASE Unresolved
  BY <1>3 DEF Unresolved, SkipAddress, StartOf, TypeOK, ObjectFollows, ResultHolds, NoSocket, NonBlocking
<1>4. CASE RefusedAtOnce
  BY <1>4 DEF RefusedAtOnce, SkipAddress, StartOf, TypeOK, ObjectFollows, ResultHolds, NoSocket, NonBlocking
<1>5. CASE StartConnecting
  BY <1>5 DEF StartConnecting, StartOf, TypeOK, ObjectFollows, ResultHolds, NoSocket, NonBlocking
<1>6. CASE ConnectImmediately
  BY <1>6 DEF ConnectImmediately, TypeOK, ObjectFollows, ResultHolds, NoSocket, NonBlocking
<1>7. CASE ListExhausted
  BY <1>7 DEF ListExhausted, TypeOK, ObjectFollows, ResultHolds, NoSocket, NonBlocking
<1>8. CASE PollNothing
  BY <1>8 DEF PollNothing, TypeOK, ObjectFollows, ResultHolds, NoSocket, NonBlocking
<1>9. CASE PollError
  BY <1>9 DEF PollError, TypeOK, ObjectFollows, ResultHolds, NoSocket, NonBlocking
<1>10. CASE PollReady
  BY <1>10 DEF PollReady, Requested, Requests, TypeOK, ObjectFollows, ResultHolds, NoSocket, NonBlocking
<1>11. CASE AwaitAnswer
  BY <1>11 DEF AwaitAnswer, TypeOK, ObjectFollows, ResultHolds, NoSocket, NonBlocking
<1>12. CASE AnswerTooLate
  BY <1>12 DEF AnswerTooLate, TypeOK, ObjectFollows, ResultHolds, NoSocket, NonBlocking
<1>13. CASE ReadAnswer
  BY <1>13 DEF ReadAnswer, TypeOK, ObjectFollows, ResultHolds, NoSocket, NonBlocking
<1>14. CASE Nap
  BY <1>14 DEF Nap, TypeOK, ObjectFollows, ResultHolds, NoSocket, NonBlocking
<1>15. CASE Settle
  BY <1>15 DEF Settle, Running, TypeOK, ObjectFollows, ResultHolds, NoSocket, NonBlocking
<1>16. CASE PeerSends
  BY <1>16 DEF PeerSends, TypeOK, ObjectFollows, ResultHolds, NoSocket, NonBlocking
<1>17. CASE UNCHANGED connectVars
  BY <1>17 DEF connectVars, TypeOK, ObjectFollows, ResultHolds, NoSocket, NonBlocking
<1> QED BY <1>1, <1>2, <1>3, <1>4, <1>5, <1>6, <1>7, <1>8, <1>9, <1>10, <1>11, <1>12, <1>13, <1>14, <1>15, <1>16, <1>17 DEF Next, CallStep

-----------------------------------------------------------------------------
\* What is known of a call at each place of its code stays known until it returns.
THEOREM ConnectInductive == ConnectSpec => []ConnectInv
<1>1. Init => ConnectInv
  <2> SUFFICES ASSUME Init PROVE ConnectInv
    OBVIOUS
  <2>1. TypeOK
    <3>1. <<>> \in Seq(Addrs) /\ 1 \in Nat \ {0} /\ 0 \in 0 .. MaxPolls + 1 /\ 0 \in 0 .. MaxProxyPolls
      BY ConnectAssumption DEF ConnectAssumption
    <3> QED BY <3>1 DEF Init, TypeOK, NoSocket
  <2>2. NapsCounted /\ ObjectFollows /\ ResultHolds
    BY DEF Init, NapsCounted, ObjectFollows, ResultHolds, BoundedWait, NoSocket
  <2> QED BY <2>1, <2>2 DEF ConnectInv
<1>2. ConnectInv /\ [Next]_connectVars => ConnectInv'
  BY TypeStep, NapStep, ObjectStep DEF ConnectInv
<1> QED BY <1>1, <1>2, PTL DEF ConnectSpec

\* All state keeps its type, for any addresses and limits.
THEOREM ConnectTypes == ConnectSpec => []TypeOK
<1>1. ConnectInv => TypeOK
  BY DEF ConnectInv
<1> QED BY <1>1, ConnectInductive, PTL

\* The result of a call is true on each of its exits.
THEOREM ResultsTrue == ConnectSpec => []ResultHolds
<1>1. ConnectInv => ResultHolds
  BY DEF ConnectInv
<1> QED BY <1>1, ConnectInductive, PTL

\* A call waits at most its polls of the addresses tried and of one proxy, whatever the network does.
THEOREM WaitBounded == ConnectSpec => []BoundedWait
<1>1. ConnectInv => BoundedWait
  <2> SUFFICES ASSUME ConnectInv PROVE BoundedWait
    OBVIOUS
  <2>1. /\ at \in Nat \ {0} /\ slept \in Nat /\ timeout \in Nat /\ proxyTimeout \in 0 .. MaxProxyPolls
        /\ MaxPolls \in Nat /\ MaxProxyPolls \in Nat \ {0}
        /\ pc \in {"resolve", "next", "poll", "await", "nap", "true", "false"}
    BY ConnectAssumption DEF ConnectInv, TypeOK, ConnectAssumption
  <2>2. PICK e \in Nat : e = (MaxPolls + 1) * (at - 1) /\ (MaxPolls + 1) * at = e + (MaxPolls + 1)
    BY <2>1, OneMore
  <2> QED BY <2>1, <2>2 DEF ConnectInv, NapsCounted, BoundedWait, Earlier
<1> QED BY <1>1, ConnectInductive, PTL
=============================================================================
