------------------------------ MODULE LinkProofs ------------------------------
(***************************************************************************)
(* Theorems of the link to the device, NFSession, and of the clock client  *)
(* that it starts and stops, ClockClient.                                  *)
(*                                                                         *)
(* Of NFSession: types and the session invariants, for any devices, any    *)
(* number of connections, sessions, retries and releases, and what         *)
(* ClockClient assumes of the link: a link comes up over a stopped client. *)
(*                                                                         *)
(* Of ClockClient: types, the bound of its table of requests and the       *)
(* matching of responses, for any rates, timeout, limit and number of      *)
(* sessions, requests and resets.                                          *)
(***************************************************************************)
EXTENDS NFSession, ClockClient, FiniteSetTheorems, WellFoundedInduction, TLAPS

(* The link.                                                               *)

\* Every flag is a Boolean after every step.
LEMMA FlagsInvariant == FlagsOK /\ [Next]_vars => FlagsOK'
<1> SUFFICES ASSUME FlagsOK, [Next]_vars PROVE FlagsOK'
  OBVIOUS
<1> USE DEF FlagsOK, linkVars, tryVars
<1>1. ASSUME NEW d \in Devices, ConnectNfv3(d) PROVE FlagsOK'
  BY <1>1, Zenon DEF ConnectNfv3, StartConnectAttempt
<1>2. CASE DisconnectNfv3
  BY <1>2, Zenon DEF DisconnectNfv3
<1>3. CASE Tick
  <2>1. CASE ConnectTimeout
    BY <1>3, <2>1, Zenon DEF Tick, ConnectTimeout
  <2>2. CASE RetryConnectRequest
    BY <1>3, <2>2, Zenon DEF Tick, RetryConnectRequest
  <2>3. CASE StartReconnect
    BY <1>3, <2>3, Zenon DEF Tick, StartReconnect, StartConnectAttempt
  <2>4. CASE LinkTimeout
    BY <1>3, <2>4, Zenon DEF Tick, LinkTimeout
  <2>5. CASE SendLinkPing \/ NothingElseDue
    BY <1>3, <2>5, Zenon DEF Tick, SendLinkPing, NothingElseDue
  <2>6. QED
    BY <1>3, <2>1, <2>2, <2>3, <2>4, <2>5 DEF Tick
<1>4. CASE Receive
  <2> USE DEF LinkUp, LinkRefused, Ignored
  <2>1. ASSUME NEW s \in accepted, ReceiveSessionAccept(s) PROVE FlagsOK'
    BY <2>1, Zenon DEF ReceiveSessionAccept
  <2>2. ASSUME NEW d \in Devices, ReceiveData(d) \/ ReceiveLinkPong(d)
        PROVE  FlagsOK'
    BY <2>2, Zenon DEF ReceiveData, ReceiveLinkPong
  <2>3. ASSUME NEW d \in Devices, ReceiveConnectAck(d) PROVE FlagsOK'
    BY <2>3, Zenon DEF ReceiveConnectAck
  <2>4. ASSUME NEW d \in Devices, NEW type \in {"session_busy", "busy_ack"},
               ReceiveBusy(type, d)
        PROVE  FlagsOK'
    BY <2>4, Zenon DEF ReceiveBusy
  <2>5. QED
    BY <1>4, <2>1, <2>2, <2>3, <2>4 DEF Receive
<1>5. CASE SyncResponse \/ ClockSample
  BY <1>5, Zenon DEF SyncResponse, ClockSample
<1>6. CASE Device
  BY <1>6, Zenon DEF Device
<1>7. ASSUME NEW t \in Timers, Elapse(t) PROVE FlagsOK'
  BY <1>7, Zenon DEF Elapse
<1>8. CASE UNCHANGED vars
  BY <1>8, Zenon DEF vars
<1>9. QED
  BY <1>1, <1>2, <1>3, <1>4, <1>5, <1>6, <1>7, <1>8 DEF Next

\* Every other variable keeps its type.
LEMMA DataInvariant == DataOK /\ [Next]_vars => DataOK'
<1> USE ConstantsOK DEF ConstantsOK
<1> SUFFICES ASSUME DataOK, [Next]_vars PROVE DataOK'
  OBVIOUS
<1> USE DEF DataOK
<1>1. ASSUME NEW d \in Devices, ConnectNfv3(d) PROVE DataOK'
  BY <1>1 DEF ConnectNfv3, StartConnectAttempt, Nonces
<1>2. CASE DisconnectNfv3
  BY <1>2 DEF DisconnectNfv3, Asks, V3, V4
<1>3. CASE Tick
  <2> USE <1>3 DEF Tick, BurstDue, DueLeft, BurstSent, ScheduleReconnect
  <2>1. CASE ConnectTimeout
    BY <2>1 DEF ConnectTimeout, Asks
  <2>2. CASE RetryConnectRequest
    <3>1. CASE fallback'
      BY <2>2, <3>1 DEF RetryConnectRequest, Asks
    <3>2. CASE ~fallback'
      <4>1. ~(attempts >= OpenAttempts)
        BY <2>2, <3>2, Zenon DEF RetryConnectRequest
      <4>2. attempts + 1 \in 0..OpenAttempts
        BY <4>1
      <4>3. /\ opened' = opened \cup {<<target, nonce>>}
            /\ attempts' = attempts + 1
            /\ asked' = BurstSent /\ due' = DueLeft \ {"request"}
            /\ UNCHANGED <<protocol, session, clockSession>>
        BY <2>2, <3>2, Zenon DEF RetryConnectRequest
      <4>4. QED
        BY <4>2, <4>3 DEF Asks
    <3>3. QED
      BY <3>1, <3>2
  <2>3. CASE StartReconnect
    BY <2>3 DEF StartReconnect, StartConnectAttempt, Asks
  <2>4. CASE LinkTimeout
    BY <2>4 DEF LinkTimeout, Asks
  <2>5. CASE SendLinkPing
    BY <2>5 DEF SendLinkPing, Asks
  <2>6. CASE NothingElseDue
    BY <2>6 DEF NothingElseDue, Asks
  <2>7. QED
    BY <2>1, <2>2, <2>3, <2>4, <2>5, <2>6
<1>4. CASE Receive
  <2> USE DEF LinkUp, LinkRefused, Ignored, linkVars, tryVars, sentVars, fwVars
  <2>1. ASSUME NEW s \in accepted, ReceiveSessionAccept(s) PROVE DataOK'
    BY <2>1 DEF ReceiveSessionAccept, Sessions, V4
  <2>2. ASSUME NEW d \in Devices, ReceiveData(d) PROVE DataOK'
    BY <2>2 DEF ReceiveData
  <2>3. ASSUME NEW d \in Devices, ReceiveConnectAck(d) PROVE DataOK'
    BY <2>3 DEF ReceiveConnectAck, V3
  <2>4. ASSUME NEW d \in Devices, NEW type \in {"session_busy", "busy_ack"},
               ReceiveBusy(type, d)
        PROVE  DataOK'
    BY <2>4 DEF ReceiveBusy
  <2>5. ASSUME NEW d \in Devices, ReceiveLinkPong(d) PROVE DataOK'
    BY <2>5 DEF ReceiveLinkPong
  <2>6. QED
    BY <1>4, <2>1, <2>2, <2>3, <2>4, <2>5 DEF Receive
<1>5. CASE SyncResponse
  BY <1>5 DEF SyncResponse, linkVars, tryVars, sentVars, fwVars
<1>6. CASE ClockSample
  BY <1>6 DEF ClockSample, linkVars, tryVars, sentVars, fwVars
<1>7. CASE Device
  <2>1. accepted' \subseteq Sessions /\ answered' \subseteq Answers
           /\ fw' \in [Devices -> Owners]
    <3>1. ASSUME NEW d \in Devices, NEW n \in Nonces, FwOpen(d, n)
          PROVE  <2>1!:
      <4>1. CASE /\ Ours(d) /\ UNCHANGED answered
                 /\ \E k \in 1..MaxSessions :
                       LET s == [dev |-> d, nonce |-> n, k |-> k] IN
                       /\ s \notin accepted
                       /\ accepted' = accepted \cup {s}
                       /\ fw' = [fw EXCEPT ![d] = [kind |-> "v4", session |-> s]]
        <5>1. PICK k \in 1..MaxSessions :
                LET s == [dev |-> d, nonce |-> n, k |-> k] IN
                /\ accepted' = accepted \cup {s}
                /\ fw' = [fw EXCEPT ![d] = [kind |-> "v4", session |-> s]]
          BY <4>1
        <5>2. [dev |-> d, nonce |-> n, k |-> k] \in Sessions
          BY DEF Sessions
        <5>3. QED
          BY <4>1, <5>1, <5>2 DEF Owners
      <4>2. CASE /\ answered' = answered \cup {<<"session_busy", d>>}
                 /\ UNCHANGED <<accepted, fw>>
        BY <4>2 DEF Answers
      <4>3. QED
        BY <3>1, <4>1, <4>2 DEF FwOpen
    <3>2. ASSUME NEW d \in Devices, FwConnect(d) PROVE <2>1!:
      BY <3>2 DEF FwConnect, Owners, Answers
    <3>3. ASSUME NEW d \in Devices, FwPing(d) PROVE <2>1!:
      BY <3>3 DEF FwPing, Answers
    <3>4. ASSUME NEW d \in Devices, FwFree(d) \/ FwOtherMonitor(d) PROVE <2>1!:
      BY <3>4 DEF FwFree, FwOtherMonitor, Free, Owners
    <3>5. CASE LoseAnswer
      BY <3>5 DEF LoseAnswer
    <3>6. QED
      BY <1>7, <3>1, <3>2, <3>3, <3>4, <3>5 DEF Device
  <2>2. QED
    BY <1>7, <2>1 DEF Device, linkVars, tryVars, sentVars
<1>8. ASSUME NEW t \in Timers, Elapse(t) PROVE DataOK'
  BY <1>8 DEF Elapse, linkVars, tryVars, sentVars, fwVars
<1>9. CASE UNCHANGED vars
  BY <1>9 DEF vars
<1>10. QED
  BY <1>1, <1>2, <1>3, <1>4, <1>5, <1>6, <1>7, <1>8, <1>9 DEF Next

\* The start of the program is well typed.
LEMMA TypeCorrectInit == Init => TypeOK
<1>1. Init => FlagsOK
  BY Zenon DEF Init, FlagsOK
<1>2. Init => DataOK
  BY ConstantsOK DEF ConstantsOK, Init, DataOK, Free, Owners
<1>3. QED
  BY <1>1, <1>2 DEF TypeOK

\* Every step keeps the types of all variables.
LEMMA TypeStep == TypeOK /\ [Next]_vars => TypeOK'
  BY FlagsInvariant, DataInvariant DEF TypeOK

\* Type correctness of the link, the requests and the device, whatever the
\* network delivers: every variable keeps its type, the retry counter stays
\* within NF_V4_OPEN_ATTEMPTS and the release burst within its count.
THEOREM TypeCorrect == Spec => []TypeOK
  BY TypeCorrectInit, TypeStep, PTL DEF Spec

-----------------------------------------------------------------------------
(* The session invariants.                                                 *)

\* The protocols are told apart by these facts only.
LEMMA Protocols == V3 # V4 /\ V3 # 0 /\ V4 # 0
  BY DEF V3, V4

\* A running burst was running before it sent its next request.
LEMMA BurstRuns == DataOK /\ Tick /\ burst' > 0 => burst > 0
  BY ConstantsOK DEF ConstantsOK, DataOK, Tick

\* A step that leaves linkVars alone keeps their agreement.
LEMMA LinkUnchanged ==
    UNCHANGED linkVars /\ LinkStateConsistent => LinkStateConsistent'
<1> SUFFICES ASSUME UNCHANGED linkVars, LinkStateConsistent
             PROVE  LinkStateConsistent'
  OBVIOUS
<1>1. /\ want' = want /\ connecting' = connecting /\ connected' = connected
      /\ busy' = busy /\ protocol' = protocol /\ session' = session
      /\ clockSession' = clockSession
  BY DEF linkVars
<1>2. QED
  BY <1>1, Zenon DEF LinkStateConsistent

\* The link flags, the protocol, the session and the clock client agree after
\* every step that finds them agreeing.
LEMMA LinkStep ==
    TypeOK /\ LinkStateConsistent /\ [Next]_vars => LinkStateConsistent'
<1> SUFFICES ASSUME TypeOK, LinkStateConsistent, [Next]_vars
             PROVE  LinkStateConsistent'
  OBVIOUS
<1> USE Protocols DEF LinkStateConsistent
<1>1. ASSUME NEW d \in Devices, ConnectNfv3(d) PROVE LinkStateConsistent'
  BY <1>1, Zenon DEF ConnectNfv3, StartConnectAttempt
<1>2. CASE DisconnectNfv3
  BY <1>2, Zenon DEF DisconnectNfv3
<1>3. CASE Tick
  <2>1. CASE ConnectTimeout
    BY <1>3, <2>1, Zenon DEF Tick, ConnectTimeout
  <2>2. CASE RetryConnectRequest
    BY <1>3, <2>2, Zenon DEF Tick, RetryConnectRequest
  <2>3. CASE StartReconnect
    BY <1>3, <2>3, Zenon DEF Tick, StartReconnect, StartConnectAttempt
  <2>4. CASE LinkTimeout
    BY <1>3, <2>4, Zenon DEF Tick, LinkTimeout
  <2>5. CASE SendLinkPing
    BY <1>3, <2>5, Zenon DEF Tick, SendLinkPing
  <2>6. CASE NothingElseDue
    BY <1>3, <2>6, Zenon DEF Tick, NothingElseDue
  <2>7. QED
    BY <1>3, <2>1, <2>2, <2>3, <2>4, <2>5, <2>6 DEF Tick
<1>4. CASE Receive
  <2> USE DEF LinkUp, LinkRefused, Ignored
  <2>1. ASSUME NEW s \in accepted, ReceiveSessionAccept(s)
        PROVE  LinkStateConsistent'
    <3>1. s # NoSession
      BY ConstantsOK DEF ConstantsOK, TypeOK, DataOK
    <3>2. CASE AcceptIsCurrent(s)
      BY <2>1, <3>1, <3>2, Zenon DEF ReceiveSessionAccept, AcceptIsCurrent
    <3>3. CASE ~AcceptIsCurrent(s)
      BY <2>1, <3>3, LinkUnchanged, Zenon DEF ReceiveSessionAccept
    <3>4. QED
      BY <3>2, <3>3
  <2>2. ASSUME NEW d \in Devices, ReceiveData(d) \/ ReceiveLinkPong(d)
        PROVE  LinkStateConsistent'
    BY <2>2, LinkUnchanged, Zenon DEF ReceiveData, ReceiveLinkPong
  <2>3. ASSUME NEW d \in Devices, ReceiveConnectAck(d)
        PROVE  LinkStateConsistent'
    <3>1. CASE want /\ connecting
      <4>1. clockSession = NoSession
        BY <3>1, Zenon
      <4>2. /\ connecting' = FALSE /\ connected' = TRUE /\ busy' = FALSE
            /\ protocol' = V3 /\ session' = NoSession
            /\ want' = want /\ clockSession' = clockSession
        BY <2>3, <3>1 DEF ReceiveConnectAck
      <4>3. QED
        BY <3>1, <4>1, <4>2, Zenon
    <3>2. CASE ~(want /\ connecting)
      BY <2>3, <3>2, LinkUnchanged, Zenon DEF ReceiveConnectAck
    <3>3. QED
      BY <3>1, <3>2
  <2>4. ASSUME NEW d \in Devices, NEW type \in {"session_busy", "busy_ack"},
               ReceiveBusy(type, d)
        PROVE  LinkStateConsistent'
    <3>1. CASE want /\ connecting
      <4>1. /\ connecting' = FALSE /\ connected' = FALSE /\ busy' = TRUE
            /\ want' = want /\ protocol' = protocol /\ session' = session
            /\ clockSession' = clockSession
        BY <2>4, <3>1 DEF ReceiveBusy
      <4>2. QED
        BY <3>1, <4>1, Zenon
    <3>2. CASE ~(want /\ connecting)
      BY <2>4, <3>2, LinkUnchanged, Zenon DEF ReceiveBusy
    <3>3. QED
      BY <3>1, <3>2
  <2>5. QED
    BY <1>4, <2>1, <2>2, <2>3, <2>4 DEF Receive
<1>5. CASE SyncResponse \/ ClockSample
  BY <1>5, LinkUnchanged, Zenon DEF SyncResponse, ClockSample
<1>6. CASE Device
  BY <1>6, LinkUnchanged, Zenon DEF Device
<1>7. ASSUME NEW t \in Timers, Elapse(t) PROVE LinkStateConsistent'
  BY <1>7, LinkUnchanged, Zenon DEF Elapse
<1>8. CASE UNCHANGED vars
  BY <1>8, LinkUnchanged DEF vars, linkVars
<1>9. QED
  BY <1>1, <1>2, <1>3, <1>4, <1>5, <1>6, <1>7, <1>8 DEF Next

\* No step leaves a release burst running into an attempt or a link.  Only
\* DisconnectNfv3 starts one, and it drops the wish for a link.
LEMMA ReleaseStep ==
    TypeOK /\ LinkStateConsistent /\ ReleaseExcludesLink /\ [Next]_vars
        => ReleaseExcludesLink'
<1> SUFFICES ASSUME TypeOK, LinkStateConsistent, ReleaseExcludesLink, [Next]_vars
             PROVE  ReleaseExcludesLink'
  OBVIOUS
<1>0. ~(0 > 0)
  OBVIOUS
<1>a. ASSUME burst' = burst, want' = want, connecting' = connecting,
             connected' = connected
      PROVE  ReleaseExcludesLink'
  BY <1>a, Zenon DEF ReleaseExcludesLink
<1>b. ASSUME burst' = 0 PROVE ReleaseExcludesLink'
  BY <1>b, <1>0, Zenon DEF ReleaseExcludesLink
<1>1. ASSUME NEW d \in Devices, ConnectNfv3(d) PROVE ReleaseExcludesLink'
  BY <1>1, <1>b DEF ConnectNfv3
<1>2. CASE DisconnectNfv3
  BY <1>2, Zenon DEF DisconnectNfv3, ReleaseExcludesLink
<1>3. CASE Tick
  <2>1. CASE burst' > 0
    <3>1. burst > 0
      BY <1>3, <2>1, BurstRuns DEF TypeOK
    <3>2. ~want /\ ~connecting /\ ~connected
      BY <3>1, Zenon DEF ReleaseExcludesLink
    <3>3. want' = want
      BY <1>3 DEF Tick
    <3>4. NothingElseDue
      BY <1>3, <3>2, Zenon DEF Tick, ConnectTimeout, RetryConnectRequest,
         StartReconnect, LinkTimeout, SendLinkPing
    <3>5. connecting' = connecting /\ connected' = connected
      BY <3>4 DEF NothingElseDue
    <3>6. QED
      BY <3>2, <3>3, <3>5, Zenon DEF ReleaseExcludesLink
  <2>2. CASE ~(burst' > 0)
    BY <2>2, Zenon DEF ReleaseExcludesLink
  <2>3. QED
    BY <2>1, <2>2
<1>4. CASE Receive
  <2> USE DEF Ignored, linkVars
  <2>1. ASSUME NEW s \in accepted, ReceiveSessionAccept(s)
        PROVE  ReleaseExcludesLink'
    BY <2>1, <1>a, <1>b DEF ReceiveSessionAccept, LinkUp
  <2>2. ASSUME NEW d \in Devices, ReceiveData(d) \/ ReceiveLinkPong(d)
        PROVE  ReleaseExcludesLink'
    BY <2>2, <1>a DEF ReceiveData, ReceiveLinkPong
  <2>3. ASSUME NEW d \in Devices, ReceiveConnectAck(d)
        PROVE  ReleaseExcludesLink'
    BY <2>3, <1>a, <1>b DEF ReceiveConnectAck, LinkUp
  <2>4. ASSUME NEW d \in Devices, NEW type \in {"session_busy", "busy_ack"},
               ReceiveBusy(type, d)
        PROVE  ReleaseExcludesLink'
    <3>1. CASE want /\ connecting
      <4>1. ~(burst > 0) /\ burst' = burst
        <5>1. burst' = burst
          BY <2>4, <3>1 DEF ReceiveBusy, LinkRefused
        <5>2. ~(burst > 0)
          BY <3>1, Zenon DEF ReleaseExcludesLink
        <5>3. QED
          BY <5>1, <5>2
      <4>2. QED
        BY <4>1, Zenon DEF ReleaseExcludesLink
    <3>2. CASE ~(want /\ connecting)
      BY <2>4, <3>2, <1>a DEF ReceiveBusy
    <3>3. QED
      BY <3>1, <3>2
  <2>5. QED
    BY <1>4, <2>1, <2>2, <2>3, <2>4 DEF Receive
<1>5. CASE SyncResponse \/ ClockSample
  BY <1>5, <1>a DEF SyncResponse, ClockSample, linkVars
<1>6. CASE Device
  BY <1>6, <1>a DEF Device, linkVars
<1>7. ASSUME NEW t \in Timers, Elapse(t) PROVE ReleaseExcludesLink'
  BY <1>7, <1>a DEF Elapse, linkVars
<1>8. CASE UNCHANGED vars
  BY <1>8, <1>a DEF vars
<1>9. QED
  BY <1>1, <1>2, <1>3, <1>4, <1>5, <1>6, <1>7, <1>8 DEF Next

\* The session in use is one a device accepted for the current nonce.
LEMMA GrantStep ==
    TypeOK /\ SessionWasGranted /\ [Next]_vars => SessionWasGranted'
<1> SUFFICES ASSUME TypeOK, SessionWasGranted, [Next]_vars
             PROVE  SessionWasGranted'
  OBVIOUS
<1>a. ASSUME session' = session, nonce' = nonce, accepted \subseteq accepted'
      PROVE  SessionWasGranted'
  BY <1>a DEF SessionWasGranted
<1>b. ASSUME session' = NoSession PROVE SessionWasGranted'
  BY <1>b DEF SessionWasGranted
<1>1. ASSUME NEW d \in Devices, ConnectNfv3(d) PROVE SessionWasGranted'
  BY <1>1, <1>b DEF ConnectNfv3, StartConnectAttempt
<1>2. CASE DisconnectNfv3
  BY <1>2, <1>b DEF DisconnectNfv3
<1>3. CASE Tick
  <2>1. CASE StartReconnect
    BY <2>1, <1>b DEF StartReconnect, StartConnectAttempt
  <2>2. CASE ConnectTimeout \/ RetryConnectRequest \/ LinkTimeout
                \/ SendLinkPing \/ NothingElseDue
    BY <1>3, <2>2, <1>a DEF Tick, ConnectTimeout, RetryConnectRequest,
       LinkTimeout, SendLinkPing, NothingElseDue
  <2>3. QED
    BY <1>3, <2>1, <2>2 DEF Tick
<1>4. CASE Receive
  <2> USE DEF fwVars, linkVars
  <2>1. ASSUME NEW s \in accepted, ReceiveSessionAccept(s)
        PROVE  SessionWasGranted'
    <3>1. nonce' = nonce /\ accepted' = accepted
      BY <2>1 DEF ReceiveSessionAccept
    <3>2. CASE AcceptIsCurrent(s) /\ session' = s
      BY <3>1, <3>2 DEF AcceptIsCurrent, SessionWasGranted
    <3>3. CASE Ignored
      BY <3>1, <3>3, <1>a DEF Ignored
    <3>4. QED
      BY <2>1, <3>2, <3>3 DEF ReceiveSessionAccept
  <2>2. ASSUME NEW d \in Devices, ReceiveData(d) \/ ReceiveLinkPong(d)
        PROVE  SessionWasGranted'
    BY <2>2, <1>a DEF ReceiveData, ReceiveLinkPong
  <2>3. ASSUME NEW d \in Devices, ReceiveConnectAck(d)
        PROVE  SessionWasGranted'
    BY <2>3, <1>a, <1>b DEF ReceiveConnectAck, Ignored
  <2>4. ASSUME NEW d \in Devices, NEW type \in {"session_busy", "busy_ack"},
               ReceiveBusy(type, d)
        PROVE  SessionWasGranted'
    BY <2>4, <1>a DEF ReceiveBusy, LinkRefused, Ignored
  <2>5. QED
    BY <1>4, <2>1, <2>2, <2>3, <2>4 DEF Receive
<1>5. CASE SyncResponse \/ ClockSample
  BY <1>5, <1>a DEF SyncResponse, ClockSample, linkVars, fwVars
<1>6. CASE Device
  <2>1. accepted \subseteq accepted'
    BY <1>6 DEF Device, FwOpen, FwConnect, FwPing, FwFree, FwOtherMonitor, LoseAnswer
  <2>2. QED
    BY <1>6, <2>1, <1>a DEF Device, linkVars
<1>7. ASSUME NEW t \in Timers, Elapse(t) PROVE SessionWasGranted'
  BY <1>7, <1>a DEF Elapse, linkVars, fwVars
<1>8. CASE UNCHANGED vars
  BY <1>8, <1>a DEF vars
<1>9. QED
  BY <1>1, <1>2, <1>3, <1>4, <1>5, <1>6, <1>7, <1>8 DEF Next

\* A step that keeps the link up keeps what was negotiated for it.
LEMMA StableStep ==
    TypeOK /\ LinkStateConsistent /\ [Next]_vars =>
        (connected /\ connected' =>
            UNCHANGED <<protocol, session, clockSession, nonce>>)
<1> SUFFICES ASSUME TypeOK, LinkStateConsistent, [Next]_vars, connected, connected'
             PROVE  UNCHANGED <<protocol, session, clockSession, nonce>>
  OBVIOUS
<1>0. ~connecting
  BY Zenon DEF LinkStateConsistent
<1>1. ASSUME NEW d \in Devices, ConnectNfv3(d) PROVE FALSE
  BY <1>1, Zenon DEF ConnectNfv3, StartConnectAttempt
<1>2. ASSUME DisconnectNfv3 PROVE FALSE
  BY <1>2, Zenon DEF DisconnectNfv3
<1>3. CASE Tick
  <2>1. SendLinkPing \/ NothingElseDue
    BY <1>0, <1>3, Zenon DEF Tick, ConnectTimeout, RetryConnectRequest,
       StartReconnect, LinkTimeout
  <2>2. QED
    BY <1>3, <2>1 DEF Tick, SendLinkPing, NothingElseDue
<1>4. CASE Receive
  <2> USE <1>0 DEF Ignored, linkVars
  <2>1. ASSUME NEW s \in accepted, ReceiveSessionAccept(s)
        PROVE  UNCHANGED <<protocol, session, clockSession, nonce>>
    BY <2>1 DEF ReceiveSessionAccept, AcceptIsCurrent
  <2>2. ASSUME NEW d \in Devices,
               \/ ReceiveData(d) \/ ReceiveConnectAck(d) \/ ReceiveLinkPong(d)
               \/ \E type \in {"session_busy", "busy_ack"} : ReceiveBusy(type, d)
        PROVE  UNCHANGED <<protocol, session, clockSession, nonce>>
    BY <2>2 DEF ReceiveData, ReceiveConnectAck, ReceiveLinkPong, ReceiveBusy
  <2>3. QED
    BY <1>4, <2>1, <2>2 DEF Receive
<1>5. CASE SyncResponse \/ ClockSample \/ Device \/ \E t \in Timers : Elapse(t)
  BY <1>5 DEF SyncResponse, ClockSample, Device, Elapse, linkVars
<1>6. CASE UNCHANGED vars
  BY <1>6 DEF vars
<1>7. QED
  BY <1>1, <1>2, <1>3, <1>4, <1>5, <1>6 DEF Next

\* The inductive invariant: the session properties need each other and the
\* types, and none of them is inductive alone.
SessionInv ==
    TypeOK /\ LinkStateConsistent /\ ReleaseExcludesLink /\ SessionWasGranted

LEMMA SessionInvariant == Spec => []SessionInv
<1>1. Init => TypeOK
  BY TypeCorrectInit
<1>2. Init => LinkStateConsistent
  BY Protocols, Zenon DEF Init, LinkStateConsistent
<1>3. Init => ReleaseExcludesLink
  <2>1. ~(0 > 0)
    OBVIOUS
  <2>2. QED
    BY <2>1, Zenon DEF Init, ReleaseExcludesLink
<1>4. Init => SessionWasGranted
  BY DEF Init, SessionWasGranted
<1>5. SessionInv /\ [Next]_vars => SessionInv'
  BY TypeStep, LinkStep, ReleaseStep, GrantStep DEF SessionInv
<1>6. QED
  BY <1>1, <1>2, <1>3, <1>4, <1>5, PTL DEF Spec, SessionInv

\* After any interleaving of the buttons, the data timer, late and repeated
\* datagrams and the clock thread, the link flags, the protocol, the session
\* and the clock client agree.
THEOREM LinkStateAgrees == Spec => []LinkStateConsistent
  BY SessionInvariant, PTL DEF SessionInv

\* A leftover release burst never runs while a link is wanted.
THEOREM ReleaseNeverHitsLink == Spec => []ReleaseExcludesLink
  BY SessionInvariant, PTL DEF SessionInv

\* What the handlers rely on holds, for any number of devices, connections, sessions,
\* attempts and releases.
THEOREM LinkIsSound == Spec => []LinkSound
  BY SessionInvariant, PTL DEF SessionInv, LinkSound

\* The session in use was granted by a device for the latest Connect.
THEOREM SessionGranted == Spec => []SessionWasGranted
  BY SessionInvariant, PTL DEF SessionInv

\* No datagram, tick or answer changes what an established link negotiated.
THEOREM LinkNegotiationStable == Spec => SessionStable
<1>1. SessionInv /\ [Next]_vars =>
        [connected /\ connected' =>
            UNCHANGED <<protocol, session, clockSession, nonce>>]_vars
  BY StableStep DEF SessionInv
<1>2. QED
  BY <1>1, SessionInvariant, PTL DEF Spec, SessionStable

\* StartSession and RestartEstimation of ClockClient find no session: whenever a
\* link comes up, over NFv4 (start_session) or NFv3 (the diagnostics reset), the
\* client has been stopped, and it never goes from one session to another.
ClockStopsFirst ==
    [][/\ ~connected /\ connected' => clockSession = NoSession
       /\ clockSession' # clockSession => NoSession \in {clockSession, clockSession'}]_vars

\* A step that does not come upon a negotiation leaves the clock client alone or
\* stops it, and brings no link up.
LEMMA OnlyNegotiationStarts ==
    [Next]_vars /\ ~connecting =>
        clockSession' \in {clockSession, NoSession} /\ (connected' => connected)
<1> SUFFICES ASSUME [Next]_vars, ~connecting
             PROVE  clockSession' \in {clockSession, NoSession} /\ (connected' => connected)
  OBVIOUS
<1>1. CASE \/ \E d \in Devices : ConnectNfv3(d)
           \/ DisconnectNfv3
  BY <1>1, Zenon DEF ConnectNfv3, StartConnectAttempt, DisconnectNfv3
<1>2. CASE Tick
  <2>1. ASSUME \/ ConnectTimeout \/ RetryConnectRequest \/ LinkTimeout
               \/ SendLinkPing \/ NothingElseDue
        PROVE  UNCHANGED clockSession /\ (connected' => connected)
    BY <2>1 DEF ConnectTimeout, RetryConnectRequest, LinkTimeout, SendLinkPing,
       NothingElseDue
  <2>2. CASE StartReconnect
    BY <2>2, Zenon DEF StartReconnect, StartConnectAttempt
  <2>3. QED
    BY <1>2, <2>1, <2>2 DEF Tick
<1>3. CASE Receive
  <2> USE DEF Ignored, linkVars, AcceptIsCurrent
  <2>1. ASSUME NEW s \in accepted, ReceiveSessionAccept(s)
        PROVE  clockSession' = clockSession /\ connected' = connected
    BY <2>1, Zenon DEF ReceiveSessionAccept
  <2>2. ASSUME NEW d \in Devices,
               \/ ReceiveData(d) \/ ReceiveConnectAck(d) \/ ReceiveLinkPong(d)
               \/ \E type \in {"session_busy", "busy_ack"} : ReceiveBusy(type, d)
        PROVE  clockSession' = clockSession /\ connected' = connected
    BY <2>2, Zenon DEF ReceiveData, ReceiveConnectAck, ReceiveLinkPong, ReceiveBusy
  <2>3. QED
    BY <1>3, <2>1, <2>2 DEF Receive
<1>4. CASE SyncResponse \/ ClockSample \/ Device \/ \E t \in Timers : Elapse(t)
  BY <1>4 DEF SyncResponse, ClockSample, Device, Elapse, linkVars
<1>5. CASE UNCHANGED vars
  BY <1>5 DEF vars
<1>6. QED
  BY <1>1, <1>2, <1>3, <1>4, <1>5 DEF Next

\* The clock client is started from rest: every attempt to connect, of the user or
\* of the data timer, stops it first.
THEOREM ClockStartsFromRest == Spec => ClockStopsFirst
<1>1. LinkStateConsistent /\ connecting => clockSession = NoSession
  BY Protocols DEF LinkStateConsistent
<1>2. SessionInv /\ [Next]_vars =>
        [/\ ~connected /\ connected' => clockSession = NoSession
         /\ clockSession' # clockSession => NoSession \in {clockSession, clockSession'}]_vars
  BY <1>1, OnlyNegotiationStarts, Zenon DEF SessionInv
<1>3. QED
  BY <1>2, SessionInvariant, PTL DEF Spec, ClockStopsFirst

-----------------------------------------------------------------------------
(* The clock client.                                                       *)

\* Sessions are numbered in the order they start; requests are not ahead.
SessionsOrdered ==
    /\ clientSession \in {NoClockSession, gui.sessions}
    /\ \A r \in requested : r.session <= gui.sessions
    /\ \A r \in requested : r.session = clientSession => r.seq <= sequence

\* The number being sent is the latest of its session and not yet used in it.
SendingLatest ==
    aux = "sending" =>
        /\ job \in Requests /\ job.session <= gui.sessions
        /\ job.session = clientSession =>
              /\ job.seq = sequence
              /\ \A r \in requested : r.session = clientSession => r.seq # sequence

\* What the auxiliary thread goes on with has been assigned.
StepHasData ==
    /\ aux = "taken" => job \in Requests
    /\ aux = "read" => readEpoch \in Epochs

EpochBound == epoch <= gui.sessions + MaxResets + 1

\* No outstanding request has a matched response, nor was sent in the future.
MatchedIsGone ==
    /\ \A m \in matched : m.req \in requested
    /\ \A m \in matched, p \in outstanding : m.req.session = clientSession => m.req.seq # p.seq
    /\ \A p \in outstanding : p.at <= now

ClockInv ==
    /\ ClockTypeOK /\ SessionsOrdered /\ SendingLatest /\ StepHasData /\ EpochBound
    /\ OutstandingIsCurrent /\ MatchedIsGone /\ OneSamplePerRequest /\ NoLateSample

-----------------------------------------------------------------------------
(* The table of outstanding requests.                                      *)

\* A non-empty set of requests has an oldest one.
LEMMA OldestExists ==
  ASSUME NEW K, K \subseteq Pending, K # {}
  PROVE  \E p \in K : \A q \in K : p.seq <= q.seq
<1> DEFINE T == {p.seq : p \in K}
<1>1. T \subseteq Nat /\ T # {}
  BY ClockConstantsOK DEF Pending, ClockConstantsOK
<1> HIDE DEF T
<1>2. \E x \in T : \A y \in T : ~ (<<y, x>> \in OpToRel(<, Nat))
  BY <1>1, WFMin, NatLessThanWellFounded, Zenon
<1>3. PICK x \in T : \A y \in T : ~ (<<y, x>> \in OpToRel(<, Nat))
  BY <1>2
<1>4. \A y \in T : x <= y
  <2> TAKE y \in T
  <2>1. y < x => <<y, x>> \in OpToRel(<, Nat)
    BY <1>1 DEF OpToRel
  <2>2. ~(y < x)
    BY <1>3, <2>1
  <2>3. x \in Nat /\ y \in Nat
    BY <1>1
  <2>4. QED
    BY <2>2, <2>3
<1>5. QED
  BY <1>4 DEF T

\* Storing a request keeps the table finite and within OUTSTANDING_LIMIT.
LEMMA RoomMade ==
  ASSUME ClockTypeOK, Stored \in Pending
  PROVE  /\ Kept \ MakeRoom \subseteq Pending
         /\ IsFiniteSet(Kept \ MakeRoom)
         /\ Cardinality(Kept \ MakeRoom) <= OutstandingLimit
<1> DEFINE Others == {p \in outstanding : p.seq # job.seq}
<1>1. /\ Others \subseteq outstanding /\ outstanding \subseteq Pending
      /\ IsFiniteSet(outstanding) /\ Cardinality(outstanding) <= OutstandingLimit
  BY DEF ClockTypeOK
<1>2. IsFiniteSet(Others) /\ Cardinality(Others) <= Cardinality(outstanding)
  BY <1>1, FS_Subset
<1>3. Cardinality(Others) \in Nat /\ Cardinality(outstanding) \in Nat
  BY <1>1, <1>2, FS_CardinalityType
<1>4. Kept = Others \cup {Stored}
  BY DEF Kept
<1>5. /\ IsFiniteSet(Kept)
      /\ Cardinality(Kept) = IF Stored \in Others THEN Cardinality(Others)
                             ELSE Cardinality(Others) + 1
  BY <1>2, <1>4, FS_AddElement
<1> HIDE DEF Others
<1>6. OutstandingLimit \in Nat /\ Cardinality(Kept) \in Nat
  BY <1>5, FS_CardinalityType, ClockConstantsOK DEF ClockConstantsOK
<1>7. Cardinality(Kept) <= OutstandingLimit + 1
  BY <1>1, <1>2, <1>3, <1>5, <1>6
<1>8. Kept \subseteq Pending /\ Kept # {}
  BY <1>1, <1>4 DEF Kept
<1>9. CASE Cardinality(Kept) > OutstandingLimit
  <2>1. PICK o \in Kept : \A q \in Kept : o.seq <= q.seq
    BY <1>8, OldestExists
  <2>2. MakeRoom = Oldest /\ o \in Oldest
    BY <1>9, <2>1 DEF MakeRoom, Oldest
  <2>3. /\ IsFiniteSet(Kept \ {o})
        /\ Cardinality(Kept \ {o}) = Cardinality(Kept) - 1
    BY <1>5, <2>1, FS_RemoveElement
  <2>4. Kept \ MakeRoom \subseteq Kept \ {o}
    BY <2>2
  <2>5. IsFiniteSet(Kept \ MakeRoom)
           /\ Cardinality(Kept \ MakeRoom) <= Cardinality(Kept \ {o})
    BY <2>3, <2>4, FS_Subset
  <2>6. Cardinality(Kept \ MakeRoom) \in Nat
    BY <2>5, FS_CardinalityType
  <2>7. QED
    BY <1>6, <1>7, <1>8, <2>3, <2>5, <2>6
<1>10. CASE ~(Cardinality(Kept) > OutstandingLimit)
  <2>1. Kept \ MakeRoom = Kept
    BY <1>10 DEF MakeRoom
  <2>2. QED
    BY <1>5, <1>6, <1>8, <1>10, <2>1
<1>11. QED
  BY <1>9, <1>10

\* Dropping requests keeps it so.
LEMMA FewerRequests ==
  ASSUME ClockTypeOK, NEW S, S \subseteq outstanding
  PROVE  S \subseteq Pending /\ IsFiniteSet(S) /\ Cardinality(S) <= OutstandingLimit
<1>1. /\ outstanding \subseteq Pending /\ IsFiniteSet(outstanding)
      /\ Cardinality(outstanding) <= OutstandingLimit
  BY DEF ClockTypeOK
<1>2. IsFiniteSet(S) /\ Cardinality(S) <= Cardinality(outstanding)
  BY <1>1, FS_Subset
<1>3. Cardinality(S) \in Nat /\ Cardinality(outstanding) \in Nat /\ OutstandingLimit \in Nat
  BY <1>1, <1>2, FS_CardinalityType, ClockConstantsOK DEF ClockConstantsOK
<1>4. QED
  BY <1>1, <1>2, <1>3

-----------------------------------------------------------------------------
(* Every step preserves the types.                                         *)

TableOK ==
    /\ outstanding \subseteq Pending /\ IsFiniteSet(outstanding)
    /\ Cardinality(outstanding) <= OutstandingLimit

\* The table stays within its limit in every step.
LEMMA TableStep == ClockTypeOK /\ SendingLatest /\ [ClockNext]_clockVars => TableOK'
<1> SUFFICES ASSUME ClockTypeOK, SendingLatest, [ClockNext]_clockVars PROVE TableOK'
  OBVIOUS
<1> USE DEF TableOK
<1>1. ASSUME outstanding' \subseteq outstanding PROVE TableOK'
  BY <1>1, FewerRequests
<1>2. StartSession \/ StopSession => TableOK'
  BY <1>1 DEF StartSession, StopSession
<1>3. BeginClockEpoch \/ RestartEstimation => TableOK'
  BY <1>1 DEF BeginClockEpoch, RestartEstimation, clientVars
<1>4. ASSUME NEW c \in Contexts, TickDue(c) PROVE TableOK'
  BY <1>1, <1>4 DEF TickDue, Unexpired
<1>5. CASE SendRequest
  <2>1. Stored \in Pending
    BY <1>5 DEF SendRequest, SendingLatest, Stored, Pending, Requests, ClockTypeOK
  <2>2. outstanding' = Kept \ MakeRoom \/ outstanding' = outstanding
    BY <1>5 DEF SendRequest, Register
  <2>3. QED
    BY <1>1, <2>1, <2>2, RoomMade
<1>6. ASSUME NEW r \in requested, Match(r) \/ Mismatch(r) PROVE TableOK'
  BY <1>1, <1>6 DEF Match, Mismatch, Take, Unexpired
<1>7. SendFails \/ FeedEstimator \/ StoreMeasurement \/ CompareEpochs => TableOK'
  BY <1>1 DEF SendFails, FeedEstimator, StoreMeasurement, CompareEpochs, clientVars
<1>8. ReadEpoch \/ SyncBucket \/ TakeMeasurement \/ Record \/ ClockAdvances => TableOK'
  BY <1>1 DEF ReadEpoch, SyncBucket, TakeMeasurement, Record, ClockAdvances, clientVars
<1>9. UNCHANGED clockVars => TableOK'
  BY <1>1 DEF clockVars
<1>10. QED
  BY <1>2, <1>3, <1>4, <1>5, <1>6, <1>7, <1>8, <1>9 DEF ClockNext, Gui, Aux

\* The estimator's flag is a Boolean after every step.
LEMMA FedStep == fed \in BOOLEAN /\ [ClockNext]_clockVars => fed' \in BOOLEAN
<1> SUFFICES ASSUME fed \in BOOLEAN, [ClockNext]_clockVars PROVE fed' \in BOOLEAN
  OBVIOUS
<1>1. CASE Gui
  BY <1>1, Zenon DEF Gui, StartSession, BeginClockEpoch, StopSession, RestartEstimation, estVars
<1>2. ASSUME NEW c \in Contexts, TickDue(c) PROVE fed' \in BOOLEAN
  BY <1>2, Zenon DEF TickDue, estVars
<1>3. ASSUME NEW r \in requested, Match(r) \/ Mismatch(r) PROVE fed' \in BOOLEAN
  BY <1>3, Zenon DEF Match, Mismatch, estVars
<1>4. CASE FeedEstimator
  BY <1>4, Zenon DEF FeedEstimator
<1>5. CASE SendRequest \/ SendFails \/ StoreMeasurement \/ CompareEpochs \/ ReadEpoch
  BY <1>5, Zenon DEF SendRequest, SendFails, StoreMeasurement, CompareEpochs, ReadEpoch, estVars
<1>6. CASE SyncBucket \/ TakeMeasurement \/ Record \/ ClockAdvances \/ UNCHANGED clockVars
  BY <1>6, Zenon DEF SyncBucket, TakeMeasurement, Record, ClockAdvances, estVars, clockVars
<1>7. QED
  BY <1>1, <1>2, <1>3, <1>4, <1>5, <1>6, Zenon DEF ClockNext, Aux

\* The rest of TypeOK, with the facts about requests and epochs it rests on.
RestOK ==
    /\ now \in 0..MaxNow
    /\ clientSession \in 0..MaxSession /\ sequence \in 0..MaxSequence
    /\ next \in [Contexts -> Nat]
    /\ measurement \in Requests \cup {NoRequest}
    /\ epoch \in Epochs /\ bucketEpoch \in Epochs /\ readEpoch \in Epochs \cup {0}
    /\ aux \in AuxSteps /\ job \in Requests \cup {NoRequest}
    /\ gui \in [at: {"idle", "begin"}, sessions: 0..MaxSession]
    /\ requested \subseteq Requests
    /\ matched \subseteq [req: Requests, age: 0..MaxNow] /\ repeated \subseteq Requests
    /\ observations \subseteq Samples
    /\ StepHasData /\ EpochBound

LEMMA RestStep == ClockInv /\ [ClockNext]_clockVars => RestOK'
<1> USE ClockConstantsOK DEF ClockConstantsOK
<1> SUFFICES ASSUME ClockInv, [ClockNext]_clockVars PROVE RestOK'
  OBVIOUS
<1>0. RestOK /\ SendingLatest
  BY DEF ClockInv, ClockTypeOK, RestOK
<1> USE <1>0 DEF RestOK, StepHasData, EpochBound, AuxSteps, NoClockSession, Epochs, clientVars,
                 auxVars, netVars, estVars
<1>1. CASE StartSession
  BY <1>1 DEF StartSession, Contexts
<1>2. CASE BeginClockEpoch
  BY <1>2 DEF BeginClockEpoch
<1>3. CASE StopSession
  BY <1>3 DEF StopSession
<1>4. CASE RestartEstimation
  BY <1>4 DEF RestartEstimation
<1>5. ASSUME NEW c \in Contexts, TickDue(c) PROVE RestOK'
  <2>1. now + Interval(c) \in Nat
    BY DEF Interval
  <2>2. [session |-> clientSession, seq |-> sequence + 1, ctx |-> c] \in Requests
    BY <1>5 DEF TickDue, Requests
  <2>3. QED
    BY <1>5, <2>1, <2>2 DEF TickDue
<1>6. CASE SendRequest \/ SendFails
  BY <1>6 DEF SendRequest, SendFails, SendingLatest
<1>7. ASSUME NEW r \in requested, Match(r) PROVE RestOK'
  <2>1. PICK p \in Lookup(r) : matched' = matched \cup {[req |-> r, age |-> now - p.at]}
    BY <1>7 DEF Match
  <2>2. p \in outstanding /\ p.at <= now /\ p.at \in 0..MaxNow
    BY DEF Lookup, Unexpired, ClockInv, MatchedIsGone, ClockTypeOK, Pending
  <2>3. now - p.at \in 0..MaxNow
    BY <2>2
  <2>4. QED
    BY <1>7, <2>1, <2>3 DEF Match
<1>8. ASSUME NEW r \in requested, Mismatch(r) PROVE RestOK'
  BY <1>8 DEF Mismatch
<1>9. CASE FeedEstimator
  <2>1. \/ epoch' = epoch
        \/ epoch < gui.sessions + MaxResets + 1 /\ epoch' = epoch + 1
    BY <1>9, Zenon DEF FeedEstimator
  <2>2. /\ aux' = "fed"
        /\ now' = now /\ clientSession' = clientSession /\ sequence' = sequence /\ next' = next
        /\ measurement' = measurement /\ bucketEpoch' = bucketEpoch /\ job' = job
        /\ readEpoch' = readEpoch /\ gui' = gui /\ requested' = requested
        /\ matched' = matched /\ repeated' = repeated /\ observations' = observations
    BY <1>9, Zenon DEF FeedEstimator
  <2>3. epoch' \in Epochs /\ EpochBound'
    BY <2>1, <2>2
  <2>4. QED
    BY <2>2, <2>3
<1>10. CASE StoreMeasurement \/ CompareEpochs \/ ReadEpoch \/ SyncBucket
  BY <1>10 DEF StoreMeasurement, CompareEpochs, ReadEpoch, SyncBucket
<1>11. CASE TakeMeasurement
  BY <1>11 DEF TakeMeasurement
<1>12. CASE Record
  BY <1>12 DEF Record, Requests, Samples
<1>13. CASE ClockAdvances
  BY <1>13 DEF ClockAdvances
<1>14. CASE UNCHANGED clockVars
  BY <1>14 DEF clockVars
<1>15. QED
  BY <1>1, <1>2, <1>3, <1>4, <1>5, <1>6, <1>7, <1>8, <1>9, <1>10, <1>11, <1>12,
     <1>13, <1>14 DEF ClockNext, Gui, Aux

LEMMA ClockTypeStep == ClockInv /\ [ClockNext]_clockVars => ClockTypeOK' /\ StepHasData' /\ EpochBound'
<1>1. ClockInv /\ [ClockNext]_clockVars => TableOK'
  BY TableStep DEF ClockInv
<1>2. ClockInv /\ [ClockNext]_clockVars => fed' \in BOOLEAN
  BY FedStep DEF ClockInv, ClockTypeOK
<1>3. QED
  BY <1>1, <1>2, RestStep DEF TableOK, RestOK, ClockTypeOK

-----------------------------------------------------------------------------
(* Every step keeps requests and responses matched.                        *)

\* What the steps that send no request, match no response and change no
\* session leave as it was.
Exchanges == <<clientSession, sequence, gui.sessions, requested, matched, repeated>>

\* What such a step preserves, as long as it stores no request.
QuietInv ==
    /\ SessionsOrdered /\ SendingLatest
    /\ OutstandingIsCurrent /\ MatchedIsGone /\ OneSamplePerRequest /\ NoLateSample

LEMMA QuietStep ==
  ASSUME ClockInv, UNCHANGED Exchanges, outstanding' \subseteq outstanding,
         aux' = "sending" => aux = "sending" /\ job' = job, now' \in Nat, now <= now'
  PROVE  QuietInv'
<1> USE DEF ClockInv, QuietInv, Exchanges
<1>1. SessionsOrdered'
  BY DEF SessionsOrdered
<1>2. SendingLatest'
  BY DEF SendingLatest
<1>3. OutstandingIsCurrent'
  BY DEF OutstandingIsCurrent
<1>4. MatchedIsGone'
  <2>1. \A p \in outstanding' : p.at \in Nat /\ p.at <= now /\ now \in Nat
    BY ClockConstantsOK DEF MatchedIsGone, ClockTypeOK, Pending, ClockConstantsOK
  <2>2. QED
    BY <2>1 DEF MatchedIsGone
<1>5. OneSamplePerRequest' /\ NoLateSample'
  BY DEF OneSamplePerRequest, NoLateSample
<1>6. QED
  BY <1>1, <1>2, <1>3, <1>4, <1>5

\* The steps of the GUI thread.
LEMMA GuiStep == ClockInv /\ Gui => QuietInv'
<1> SUFFICES ASSUME ClockInv, Gui PROVE QuietInv'
  OBVIOUS
<1>0. /\ now \in Nat /\ gui.sessions \in Nat /\ clientSession \in Nat
      /\ requested \subseteq Requests /\ \A r \in requested : r.session \in Nat \ {0}
  BY ClockConstantsOK DEF ClockInv, ClockTypeOK, ClockConstantsOK, Requests
<1>1. CASE StartSession
  <2>1. /\ clientSession' = gui.sessions + 1 /\ sequence' = 0 /\ outstanding' = {}
        /\ gui'.sessions = gui.sessions + 1
        /\ UNCHANGED <<now, aux, job, requested, matched, repeated>>
    BY <1>1 DEF StartSession, auxVars, netVars
  <2>2. \A r \in requested : r.session <= gui'.sessions /\ r.session # clientSession'
    BY <1>0, <2>1 DEF ClockInv, SessionsOrdered
  <2>3. SessionsOrdered'
    BY <2>1, <2>2 DEF SessionsOrdered
  <2>4. SendingLatest'
    <3>1. aux = "sending" =>
            /\ job \in Requests /\ job.session <= gui'.sessions /\ job.session # clientSession'
      BY <1>0, <2>1, ClockConstantsOK DEF ClockInv, SendingLatest, Requests, ClockConstantsOK
    <3>2. QED
      BY <2>1, <3>1 DEF SendingLatest
  <2>5. OutstandingIsCurrent' /\ MatchedIsGone'
    BY <2>1 DEF ClockInv, OutstandingIsCurrent, MatchedIsGone
  <2>6. OneSamplePerRequest' /\ NoLateSample'
    BY <2>1 DEF ClockInv, OneSamplePerRequest, NoLateSample
  <2>7. QED
    BY <2>3, <2>4, <2>5, <2>6 DEF QuietInv
<1>2. CASE BeginClockEpoch \/ RestartEstimation
  <2>1. /\ UNCHANGED Exchanges /\ outstanding' = outstanding /\ now' = now
        /\ UNCHANGED <<aux, job>>
    BY <1>2 DEF BeginClockEpoch, RestartEstimation, Exchanges, clientVars, auxVars, netVars,
                ClockInv, ClockTypeOK
  <2>2. QED
    BY <1>0, <2>1, QuietStep
<1>3. CASE StopSession
  <2>1. /\ clientSession' = NoClockSession /\ outstanding' = {}
        /\ UNCHANGED <<now, sequence, aux, job, gui, requested, matched, repeated>>
    BY <1>3 DEF StopSession, auxVars, netVars
  <2>2. SessionsOrdered'
    BY <1>0, <2>1 DEF ClockInv, SessionsOrdered, NoClockSession
  <2>3. SendingLatest'
    BY <2>1 DEF ClockInv, SendingLatest, Requests, NoClockSession
  <2>4. OutstandingIsCurrent' /\ MatchedIsGone'
    BY <2>1 DEF ClockInv, OutstandingIsCurrent, MatchedIsGone
  <2>5. OneSamplePerRequest' /\ NoLateSample'
    BY <2>1 DEF ClockInv, OneSamplePerRequest, NoLateSample
  <2>6. QED
    BY <2>2, <2>3, <2>4, <2>5 DEF QuietInv
<1>4. QED
  BY <1>1, <1>2, <1>3 DEF Gui

\* The auxiliary thread sends: a number not used before in the session.
LEMMA SendStep ==
  ClockInv /\ ((\E c \in Contexts : TickDue(c)) \/ SendRequest \/ SendFails) => QuietInv'
<1> SUFFICES ASSUME ClockInv, (\E c \in Contexts : TickDue(c)) \/ SendRequest \/ SendFails
             PROVE  QuietInv'
  OBVIOUS
<1>0. /\ now \in Nat /\ sequence \in Nat /\ gui.sessions \in Nat /\ clientSession \in Nat
      /\ requested \subseteq Requests /\ outstanding \subseteq Pending
      /\ \A r \in requested : r.seq \in Nat
      /\ \A p \in outstanding : p.seq \in Nat /\ p.at \in Nat
  BY ClockConstantsOK DEF ClockInv, ClockTypeOK, ClockConstantsOK, Requests, Pending
<1>1. ASSUME NEW c \in Contexts, TickDue(c) PROVE QuietInv'
  <2>1. /\ sequence' = sequence + 1 /\ outstanding' \subseteq outstanding
        /\ clientSession # NoClockSession /\ sequence < MaxSequence
        /\ job' = [session |-> clientSession, seq |-> sequence + 1, ctx |-> c]
        /\ UNCHANGED <<now, clientSession, gui, requested, matched, repeated>>
    BY <1>1 DEF TickDue, Unexpired, netVars
  <2>2. SessionsOrdered'
    BY <1>0, <2>1 DEF ClockInv, SessionsOrdered
  <2>3. job' \in Requests
    BY <1>0, <2>1, ClockConstantsOK DEF Requests, ClockInv, ClockTypeOK, NoClockSession, ClockConstantsOK
  <2>4. \A r \in requested : r.session = clientSession => r.seq # sequence + 1
    BY <1>0 DEF ClockInv, SessionsOrdered
  <2>5. SendingLatest'
    BY <1>0, <2>1, <2>3, <2>4 DEF ClockInv, SendingLatest, SessionsOrdered, NoClockSession
  <2>6. OutstandingIsCurrent'
    BY <1>0, <2>1 DEF ClockInv, OutstandingIsCurrent
  <2>7. MatchedIsGone' /\ OneSamplePerRequest' /\ NoLateSample'
    BY <2>1 DEF ClockInv, MatchedIsGone, OneSamplePerRequest, NoLateSample
  <2>8. QED
    BY <2>2, <2>5, <2>6, <2>7 DEF QuietInv
<1>2. CASE SendRequest
  <2>1. /\ aux = "sending" /\ aux' = "idle" /\ requested' = requested \cup {job}
        /\ UNCHANGED <<now, clientSession, sequence, gui, matched, repeated>>
    BY <1>2 DEF SendRequest
  <2>2. /\ job \in Requests /\ job.session <= gui.sessions
        /\ job.session = clientSession =>
              /\ job.seq = sequence
              /\ \A r \in requested : r.session = clientSession => r.seq # sequence
    BY <2>1 DEF ClockInv, SendingLatest
  <2>3. SessionsOrdered' /\ SendingLatest'
    BY <1>0, <2>1, <2>2 DEF ClockInv, SessionsOrdered, SendingLatest
  <2>4. CASE job.session # clientSession
    <3>1. outstanding' = outstanding
      BY <1>2, <2>4 DEF SendRequest, Register
    <3>2. QED
      BY <2>1, <2>3, <3>1
      DEF QuietInv, ClockInv, OutstandingIsCurrent, MatchedIsGone, OneSamplePerRequest,
          NoLateSample
  <2>5. CASE job.session = clientSession
    <3>1. outstanding' \subseteq {p \in outstanding : p.seq # job.seq} \cup {Stored}
      BY <1>2, <2>5 DEF SendRequest, Register, Kept
    <3>2. Stored.session = clientSession /\ Stored.seq = sequence /\ Stored.at = now
      BY <2>2, <2>5 DEF Stored
    <3>3. OutstandingIsCurrent'
      BY <1>0, <2>1, <2>2, <2>5, <3>1, <3>2 DEF ClockInv, OutstandingIsCurrent
    <3>4. \A m \in matched : m.req.session = clientSession => m.req.seq # sequence
      BY <2>2, <2>5 DEF ClockInv, MatchedIsGone
    <3>5. MatchedIsGone'
      BY <1>0, <2>1, <3>1, <3>2, <3>4 DEF ClockInv, MatchedIsGone
    <3>6. QED
      BY <2>1, <2>3, <3>3, <3>5 DEF QuietInv, ClockInv, OneSamplePerRequest, NoLateSample
  <2>6. QED
    BY <2>4, <2>5
<1>3. CASE SendFails
  <2>1. UNCHANGED Exchanges /\ outstanding' = outstanding /\ now' = now /\ aux' = "idle"
    BY <1>3 DEF SendFails, Exchanges, clientVars, netVars
  <2>2. QED
    BY <1>0, <2>1, QuietStep
<1>4. QED
  BY <1>1, <1>2, <1>3

\* The auxiliary thread takes a response: of an outstanding, unexpired request.
LEMMA ResponseStep ==
  ASSUME ClockInv, NEW r \in requested, Match(r) \/ Mismatch(r)
  PROVE  QuietInv'
<1>0. /\ now \in Nat /\ ResponseTimeout \in Nat /\ outstanding \subseteq Pending
      /\ \A p \in outstanding : p.at \in Nat
  BY ClockConstantsOK DEF ClockInv, ClockTypeOK, ClockConstantsOK, Pending
<1>1. CASE Mismatch(r)
  <2>1. /\ UNCHANGED Exchanges /\ outstanding' \subseteq outstanding /\ now' = now
        /\ UNCHANGED <<aux, job>>
    BY <1>1 DEF Mismatch, Unexpired, Exchanges, auxVars, netVars
  <2>2. QED
    BY <1>0, <2>1, QuietStep
<1>2. CASE Match(r)
  <2>1. PICK p \in Lookup(r) :
              /\ Take(p)
              /\ matched' = matched \cup {[req |-> r, age |-> now - p.at]}
    BY <1>2 DEF Match
  <2>2. p \in outstanding /\ p.seq = r.seq /\ p.at + ResponseTimeout > now
    BY DEF Lookup, Unexpired
  <2>3. /\ r.session = clientSession /\ aux' = "matched"
        /\ repeated' = IF \E m \in matched : m.req = r THEN repeated \cup {r} ELSE repeated
        /\ UNCHANGED <<now, clientSession, sequence, gui, requested>>
    BY <1>2 DEF Match
  <2>4. outstanding' \subseteq outstanding \ {p}
    BY <2>1 DEF Take, Unexpired
  <2>5. SessionsOrdered' /\ SendingLatest'
    BY <2>3 DEF ClockInv, SessionsOrdered, SendingLatest
  <2>6. OutstandingIsCurrent'
    BY <2>3, <2>4 DEF ClockInv, OutstandingIsCurrent
  <2>7. MatchedIsGone'
    <3>1. \A q \in outstanding' : q.seq # r.seq
      BY <2>2, <2>4 DEF ClockInv, OutstandingIsCurrent
    <3>2. QED
      BY <2>1, <2>3, <2>4, <3>1 DEF ClockInv, MatchedIsGone
  <2>8. OneSamplePerRequest'
    <3>1. \A m \in matched : m.req # r
      BY <2>2, <2>3 DEF ClockInv, MatchedIsGone
    <3>2. QED
      BY <2>3, <3>1 DEF ClockInv, OneSamplePerRequest
  <2>9. NoLateSample'
    <3>1. now - p.at < ResponseTimeout
      BY <1>0, <2>2
    <3>2. QED
      BY <2>1, <3>1 DEF ClockInv, NoLateSample
  <2>10. QED
    BY <2>5, <2>6, <2>7, <2>8, <2>9 DEF QuietInv
<1>3. QED
  BY <1>1, <1>2

\* The remaining steps touch neither requests nor responses.
LEMMA OtherStep ==
  ASSUME ClockInv,
         \/ FeedEstimator \/ StoreMeasurement \/ CompareEpochs \/ ReadEpoch \/ SyncBucket
         \/ TakeMeasurement \/ Record \/ ClockAdvances \/ UNCHANGED clockVars
  PROVE  QuietInv'
<1>0. now \in Nat
  BY ClockConstantsOK DEF ClockInv, ClockTypeOK, ClockConstantsOK
<1> USE DEF Exchanges, clientVars, auxVars, netVars
<1>1. UNCHANGED Exchanges /\ outstanding' = outstanding
  BY DEF FeedEstimator, StoreMeasurement, CompareEpochs, ReadEpoch, SyncBucket,
         TakeMeasurement, Record, ClockAdvances, clockVars
<1>2. now' \in Nat /\ now <= now'
  BY <1>0 DEF FeedEstimator, StoreMeasurement, CompareEpochs, ReadEpoch, SyncBucket,
         TakeMeasurement, Record, ClockAdvances, clockVars
<1>3. aux' = "sending" => aux = "sending" /\ job' = job
  BY DEF FeedEstimator, StoreMeasurement, CompareEpochs, ReadEpoch, SyncBucket,
         TakeMeasurement, Record, ClockAdvances, clockVars
<1>4. QED
  BY <1>1, <1>2, <1>3, QuietStep

-----------------------------------------------------------------------------
LEMMA ClockInitSound == ClockInit => ClockInv
<1> SUFFICES ASSUME ClockInit PROVE ClockInv
  OBVIOUS
<1> USE ClockConstantsOK DEF ClockInit, ClockConstantsOK
<1>1. ClockTypeOK
  <2>1. /\ outstanding \subseteq Pending /\ IsFiniteSet(outstanding)
        /\ Cardinality(outstanding) <= OutstandingLimit
    BY FS_EmptySet
  <2>2. fed \in BOOLEAN
    BY Zenon
  <2>3. /\ now \in 0..MaxNow /\ clientSession \in 0..MaxSession /\ sequence \in 0..MaxSequence
        /\ next \in [Contexts -> Nat]
        /\ measurement \in {NoRequest} /\ job \in {NoRequest} /\ aux \in AuxSteps
        /\ gui \in [at: {"idle", "begin"}, sessions: 0..MaxSession]
    BY DEF AuxSteps, NoClockSession
  <2>4. epoch \in Epochs /\ bucketEpoch \in Epochs /\ readEpoch \in {0}
    BY DEF Epochs
  <2>5. QED
    BY <2>1, <2>2, <2>3, <2>4 DEF ClockTypeOK
<1>2. QED
  BY <1>1 DEF ClockInv, SessionsOrdered, SendingLatest, StepHasData, EpochBound,
              OutstandingIsCurrent, MatchedIsGone, OneSamplePerRequest, NoLateSample, NoClockSession

LEMMA ClockStep == ClockInv /\ [ClockNext]_clockVars => ClockInv'
<1> SUFFICES ASSUME ClockInv, [ClockNext]_clockVars PROVE ClockInv'
  OBVIOUS
<1>1. QuietInv'
  BY GuiStep, SendStep, ResponseStep, OtherStep DEF ClockNext, Aux
<1>2. QED
  BY <1>1, ClockTypeStep DEF QuietInv, ClockInv

LEMMA ClockInvariant == ClockSpec => []ClockInv
  BY ClockInitSound, ClockStep, PTL DEF ClockSpec

\* Every variable keeps its type and the table its limit, OUTSTANDING_LIMIT.
THEOREM ClockTypeCorrect == ClockSpec => []ClockTypeOK
<1>1. ClockInv => ClockTypeOK
  BY DEF ClockInv
<1>2. QED
  BY <1>1, ClockInvariant, PTL

\* Only requests of the running session are outstanding, under distinct numbers
\* that have been drawn: a session may end while its request is being sent.
THEOREM RequestsAreCurrent == ClockSpec => []OutstandingIsCurrent
<1>1. ClockInv => OutstandingIsCurrent
  BY DEF ClockInv
<1>2. QED
  BY <1>1, ClockInvariant, PTL

\* The table of requests is what both threads rely on, for any limits and rates.
THEOREM RequestsAreSound == ClockSpec => []RequestsSound
<1>1. ClockInv => RequestsSound
  BY DEF ClockInv, RequestsSound
<1>2. QED
  BY <1>1, ClockInvariant, PTL

\* No request yields two samples, however often its response arrives.
THEOREM SamplesAreUnique == ClockSpec => []OneSamplePerRequest
<1>1. ClockInv => OneSamplePerRequest
  BY DEF ClockInv
<1>2. QED
  BY <1>1, ClockInvariant, PTL

\* No response is taken once RESPONSE_TIMEOUT_US has passed since its request.
THEOREM SamplesAreInTime == ClockSpec => []NoLateSample
<1>1. ClockInv => NoLateSample
  BY DEF ClockInv
<1>2. QED
  BY <1>1, ClockInvariant, PTL

=============================================================================
