------------------------------ MODULE NFSession ------------------------------
(***************************************************************************)
(* The link of the NeuroFlap Monitor to a NeuroFlap device: negotiation    *)
(* (NFv4 first, NFv3 as fallback), busy refusal, liveness, reconnection    *)
(* and release.  The code is DataReceiver of data_receiver.py: the Qt data *)
(* timer calls _tick_nfv3_connection and then _process_udp_packet for each *)
(* queued datagram, the user's buttons call connect_nfv3 and               *)
(* disconnect_nfv3, all on the GUI thread; the auxiliary service thread    *)
(* answers clock traffic and refreshes the liveness timestamp.             *)
(*                                                                         *)
(* A millisecond deadline is a member of "due" once it has passed.  The    *)
(* GUI thread can stall for any time, so deadlines pass in any order.      *)
(* The firmware is not in the repository: fw and its actions say what the  *)
(* Monitor's code, the protocol documents and the NFv3 simulator expect    *)
(* of it.  UDP loses, delays, duplicates and reorders.                     *)
(***************************************************************************)
EXTENDS Naturals, FiniteSets

CONSTANTS
    Devices,        \* addresses a device can answer from
    MaxNonce,       \* bound: presses of Connect, each draws a fresh nonce
    MaxSessions,    \* bound: sessions a device opens for one nonce
    OpenAttempts,   \* NF_V4_OPEN_ATTEMPTS
    BurstCount,     \* NF_DISCONNECT_BURST_COUNT
    NoSession       \* session id 0

Nonces   == 1..MaxNonce
Sessions == [dev: Devices, nonce: Nonces, k: 1..MaxSessions]

ASSUME ConstantsOK ==
    /\ Devices # {}
    /\ MaxNonce \in Nat \ {0} /\ MaxSessions \in Nat
    /\ OpenAttempts \in Nat \ {0} /\ BurstCount \in Nat \ {0}
    /\ NoSession \notin Sessions

V3 == 3
V4 == 4
Timers  == {"connect", "request", "reconnect", "silence", "ping", "burst"}
Asks    == {"connect_req", "link_ping", "disconnect_req"} \X Devices
Answers == {"session_busy", "busy_ack", "connect_ack", "link_pong"} \X Devices
Owners  == [kind: {"free", "other", "v3", "v4"}, session: Sessions \cup {NoSession}]

VARIABLES
    want,           \* nf_want_connected
    connecting,     \* nf_connecting
    connected,      \* nf_connected
    busy,           \* nf_busy_owner_ip is set
    protocol,       \* nf_protocol: 0, 3 or 4
    session,        \* nf_session_id
    nonce,          \* nf_client_nonce
    target,         \* udp_target_ip and udp_target_port
    attempts,       \* nf_v4_open_attempts
    fallback,       \* nf_v4_fallback
    burst,          \* nf_disconnect_burst_left
    due,            \* deadlines that have passed
    clockSession,   \* session of nf_v4_clock, the NFv4 clock client
    auxAlive,       \* the auxiliary service thread is running
    opened,         \* SESSION_OPEN datagrams ever sent
    closed,         \* SESSION_CLOSE datagrams ever sent
    asked,          \* NFv3 requests ever sent
    accepted,       \* SESSION_ACCEPT datagrams ever sent by a device
    answered,       \* other answers on their way to the Monitor
    fw              \* who owns each device

linkVars == <<want, connecting, connected, busy, protocol, session, clockSession>>
tryVars  == <<attempts, fallback>>
sentVars == <<opened, closed, asked>>
fwVars   == <<accepted, answered, fw>>
vars     == <<want, connecting, connected, busy, protocol, session, nonce, target,
              attempts, fallback, burst, due, clockSession, auxAlive, opened, closed,
              asked, accepted, answered, fw>>

Free == [kind |-> "free", session |-> NoSession]

Init ==
    /\ want = FALSE /\ connecting = FALSE /\ connected = FALSE /\ busy = FALSE
    /\ protocol = 0 /\ session = NoSession /\ clockSession = NoSession
    /\ nonce = 0 /\ target \in Devices
    /\ attempts = 0 /\ fallback = FALSE
    /\ burst = 0 /\ due = {} /\ auxAlive = TRUE
    /\ opened = {} /\ closed = {} /\ asked = {}
    /\ accepted = {} /\ answered = {} /\ fw = [d \in Devices |-> Free]

-----------------------------------------------------------------------------
(* User commands (GUI thread).                                             *)

\* Mutant: the clock client keeps running into the new attempt.
StartAttemptKeepsClock(d, n) ==
    /\ connecting' = TRUE /\ connected' = FALSE /\ busy' = FALSE
    /\ protocol' = 0 /\ session' = NoSession /\ UNCHANGED clockSession
    /\ attempts' = 1 /\ fallback' = FALSE
    /\ opened' = opened \cup {<<d, n>>}
    /\ due' = {}

\* A fresh attempt forgets the previous session and stops the clock client.
StartConnectAttempt(d, n) ==
    /\ connecting' = TRUE /\ connected' = FALSE /\ busy' = FALSE
    /\ protocol' = 0 /\ session' = NoSession /\ clockSession' = NoSession
    /\ attempts' = 1 /\ fallback' = FALSE
    /\ opened' = opened \cup {<<d, n>>}
    /\ due' = {}

ConnectNfv3(d) ==
    /\ nonce < MaxNonce
    /\ want' = TRUE
    /\ nonce' = nonce + 1
    /\ target' = d
    /\ burst' = 0
    /\ StartConnectAttempt(d, nonce + 1)
    /\ UNCHANGED <<closed, asked, auxAlive, accepted, answered, fw>>

\* NFv4 sends one SESSION_CLOSE; NFv3 the first of a burst of requests.
DisconnectNfv3 ==
    /\ closed' = IF protocol = V4 /\ session # NoSession
                   THEN closed \cup {<<target, session>>} ELSE closed
    /\ asked' = IF protocol = V3
                  THEN asked \cup {<<"disconnect_req", target>>} ELSE asked
    /\ burst' = IF protocol = V3 THEN BurstCount - 1 ELSE 0
    /\ want' = FALSE /\ connecting' = FALSE /\ connected' = FALSE /\ busy' = FALSE
    /\ protocol' = 0 /\ session' = NoSession /\ clockSession' = NoSession
    /\ due' = {}
    /\ UNCHANGED <<nonce, target, attempts, fallback, auxAlive, opened,
                   accepted, answered, fw>>

-----------------------------------------------------------------------------
(* _tick_nfv3_connection: a due release first, then one branch.            *)

BurstDue  == burst > 0 /\ "burst" \in due
DueLeft   == IF BurstDue THEN due \ {"burst"} ELSE due
BurstSent == IF BurstDue THEN asked \cup {<<"disconnect_req", target>>} ELSE asked

\* _schedule_reconnect_ arms the reconnect deadline of a wanted link.
ScheduleReconnect == due' = IF want THEN DueLeft \ {"reconnect"} ELSE DueLeft

\* Mutant: the attempt times out in the fallback phase only.
TimeoutInFallbackOnly ==
    /\ connecting /\ "connect" \in due /\ fallback
    /\ connecting' = FALSE /\ connected' = FALSE
    /\ ScheduleReconnect
    /\ asked' = BurstSent
    /\ UNCHANGED <<busy, protocol, session, clockSession, attempts, fallback, opened>>

ConnectTimeout ==
    /\ connecting /\ "connect" \in due
    /\ connecting' = FALSE /\ connected' = FALSE
    /\ ScheduleReconnect
    /\ asked' = BurstSent
    /\ UNCHANGED <<busy, protocol, session, clockSession, attempts, fallback, opened>>

RetryConnectRequest ==
    /\ connecting /\ "connect" \notin due /\ "request" \in due
    /\ fallback' = (fallback \/ attempts >= OpenAttempts)
    /\ IF fallback'
         THEN /\ asked' = BurstSent \cup {<<"connect_req", target>>}
              /\ UNCHANGED <<attempts, opened>>
         ELSE /\ opened' = opened \cup {<<target, nonce>>}
              /\ attempts' = attempts + 1
              /\ asked' = BurstSent
    /\ due' = DueLeft \ {"request"}
    /\ UNCHANGED <<connecting, connected, busy, protocol, session, clockSession>>

\* Mutant: a busy answer stops the automatic reconnection.
ReconnectUnlessBusy ==
    /\ ~connecting /\ ~connected /\ ~busy
    /\ want /\ "reconnect" \in due
    /\ StartConnectAttempt(target, nonce)
    /\ asked' = BurstSent

StartReconnect ==
    /\ ~connecting /\ ~connected
    /\ want /\ "reconnect" \in due
    /\ StartConnectAttempt(target, nonce)
    /\ asked' = BurstSent

\* Mutant: NFv4 links return before the liveness check.
LinkTimeoutV3Only ==
    /\ ~connecting /\ connected /\ "silence" \in due /\ protocol # V4
    /\ connected' = FALSE
    /\ ScheduleReconnect
    /\ asked' = BurstSent
    /\ UNCHANGED <<connecting, busy, protocol, session, clockSession,
                   attempts, fallback, opened>>

LinkTimeout ==
    /\ ~connecting /\ connected /\ "silence" \in due
    /\ connected' = FALSE
    /\ ScheduleReconnect
    /\ asked' = BurstSent
    /\ UNCHANGED <<connecting, busy, protocol, session, clockSession,
                   attempts, fallback, opened>>

SendLinkPing ==
    /\ ~connecting /\ connected /\ "silence" \notin due
    /\ protocol # V4 /\ "ping" \in due
    /\ asked' = BurstSent \cup {<<"link_ping", target>>}
    /\ due' = DueLeft \ {"ping"}
    /\ UNCHANGED <<connecting, connected, busy, protocol, session, clockSession,
                   attempts, fallback, opened>>

NothingElseDue ==
    /\ connecting => {"connect", "request"} \cap due = {}
    /\ connected /\ ~connecting =>
           /\ "silence" \notin due
           /\ protocol = V4 \/ "ping" \notin due
    /\ ~connecting /\ ~connected => ~want \/ "reconnect" \notin due
    /\ asked' = BurstSent
    /\ due' = DueLeft
    /\ UNCHANGED <<connecting, connected, busy, protocol, session, clockSession,
                   attempts, fallback, opened>>

Tick ==
    /\ burst' = IF BurstDue THEN burst - 1 ELSE burst
    /\ \/ ConnectTimeout
       \/ RetryConnectRequest
       \/ StartReconnect
       \/ LinkTimeout
       \/ SendLinkPing
       \/ NothingElseDue
    /\ UNCHANGED <<want, nonce, target, auxAlive, closed, accepted, answered, fw>>

-----------------------------------------------------------------------------
(* _process_udp_packet: whoever sent the datagram becomes the target, then *)
(* the packet is handled or ignored.                                       *)

\* What the handlers of an accepting answer have in common: any other
\* deadline is armed again before it is next read.
LinkUp ==
    /\ connecting' = FALSE /\ connected' = TRUE /\ busy' = FALSE
    /\ burst' = 0
    /\ due' = {}
    /\ UNCHANGED want

LinkRefused ==
    /\ connecting' = FALSE /\ connected' = FALSE /\ busy' = TRUE
    /\ due' = due \ {"reconnect"}
    /\ UNCHANGED <<want, protocol, session, clockSession, burst>>

Ignored == UNCHANGED <<linkVars, burst, due>>

\* Mutant: any accept is taken while connecting.
AcceptAnyNonce(s) == want /\ connecting

\* Mutant: an accept of this connection is taken at any time.
AcceptWheneverWanted(s) == want /\ s.nonce = nonce

AcceptIsCurrent(s) == want /\ connecting /\ s.nonce = nonce

\* An accept without the clock-sync feature is dropped: the same as its loss.
ReceiveSessionAccept(s) ==
    /\ s \in accepted
    /\ target' = s.dev
    /\ \/ /\ AcceptIsCurrent(s)
          /\ protocol' = V4 /\ session' = s /\ clockSession' = s
          /\ LinkUp
       \/ ~AcceptIsCurrent(s) /\ Ignored
    /\ UNCHANGED <<nonce, tryVars, auxAlive, sentVars, fwVars>>

ReceiveConnectAck(d) ==
    /\ <<"connect_ack", d>> \in answered
    /\ target' = d
    /\ \/ /\ want /\ connecting
          /\ protocol' = V3 /\ session' = NoSession
          /\ LinkUp
          /\ UNCHANGED clockSession
       \/ ~(want /\ connecting) /\ Ignored
    /\ answered' = answered \ {<<"connect_ack", d>>}
    /\ UNCHANGED <<nonce, tryVars, auxAlive, sentVars, accepted, fw>>

\* session_busy and busy_ack have the same handler.
ReceiveBusy(type, d) ==
    /\ <<type, d>> \in answered
    /\ target' = d
    /\ \/ want /\ connecting /\ LinkRefused
       \/ ~(want /\ connecting) /\ Ignored
    /\ answered' = answered \ {<<type, d>>}
    /\ UNCHANGED <<nonce, tryVars, auxAlive, sentVars, accepted, fw>>

ReceiveLinkPong(d) ==
    /\ <<"link_pong", d>> \in answered
    /\ target' = d
    /\ due' = IF connected THEN due \ {"silence", "ping"} ELSE due
    /\ answered' = answered \ {<<"link_pong", d>>}
    /\ UNCHANGED <<linkVars, burst, nonce, tryVars, auxAlive, sentVars, accepted, fw>>

\* Schema and data packets do not touch the link; SchemaSync models them.
ReceiveData(d) ==
    /\ fw[d].kind \in {"v3", "v4"}
    /\ target' = d
    /\ UNCHANGED <<linkVars, burst, due, nonce, tryVars, auxAlive, sentVars, fwVars>>

Receive ==
    \/ \E s \in accepted : ReceiveSessionAccept(s)
    \/ \E d \in Devices :
           \/ ReceiveData(d)
           \/ ReceiveConnectAck(d)
           \/ \E type \in {"session_busy", "busy_ack"} : ReceiveBusy(type, d)
           \/ ReceiveLinkPong(d)

-----------------------------------------------------------------------------
(* The auxiliary service thread.                                           *)

\* A SYNC_RESPONSE of the current session that matches a request.
SyncResponse ==
    /\ auxAlive /\ connected /\ protocol = V4
    /\ clockSession = session /\ session.dev = target
    /\ fw[target].session = session
    /\ due' = due \ {"silence"}
    /\ UNCHANGED <<linkVars, nonce, target, tryVars, burst, auxAlive, sentVars, fwVars>>

\* A baseline NFv3 clock sample of the peer: its handler reads the attribute
\* _clock_monotonic_anchor_us, which no code assigns, and the service loop
\* catches socket errors only.
ClockSample ==
    /\ auxAlive /\ connected
    /\ fw[target].kind = "v3"
    /\ auxAlive' = FALSE
    /\ UNCHANGED <<linkVars, nonce, target, tryVars, burst, due, sentVars, fwVars>>

-----------------------------------------------------------------------------
(* The device (external) and time.                                         *)

Ours(d) == fw[d].kind \in {"free", "v3", "v4"}

FwOpen(d, n) ==
    /\ <<d, n>> \in opened
    /\ \/ /\ Ours(d)
          /\ \E k \in 1..MaxSessions :
                LET s == [dev |-> d, nonce |-> n, k |-> k] IN
                /\ s \notin accepted
                /\ accepted' = accepted \cup {s}
                /\ fw' = [fw EXCEPT ![d] = [kind |-> "v4", session |-> s]]
          /\ UNCHANGED answered
       \/ /\ fw[d].kind # "free"
          /\ answered' = answered \cup {<<"session_busy", d>>}
          /\ UNCHANGED <<accepted, fw>>

FwConnect(d) ==
    /\ <<"connect_req", d>> \in asked
    /\ \/ /\ Ours(d)
          /\ fw' = [fw EXCEPT ![d] = [kind |-> "v3", session |-> NoSession]]
          /\ answered' = answered \cup {<<"connect_ack", d>>}
       \/ /\ fw[d].kind # "free"
          /\ answered' = answered \cup {<<"busy_ack", d>>}
          /\ UNCHANGED fw
    /\ UNCHANGED accepted

FwPing(d) ==
    /\ <<"link_ping", d>> \in asked /\ fw[d].kind = "v3"
    /\ answered' = answered \cup {<<"link_pong", d>>}
    /\ UNCHANGED <<accepted, fw>>

\* A release the Monitor sent, the device's own session timeout, or a reboot.
FwFree(d) ==
    /\ fw[d].kind # "free"
    /\ fw' = [fw EXCEPT ![d] = Free]
    /\ UNCHANGED <<accepted, answered>>

FwOtherMonitor(d) ==
    /\ fw[d] = Free
    /\ fw' = [fw EXCEPT ![d] = [kind |-> "other", session |-> NoSession]]
    /\ UNCHANGED <<accepted, answered>>

LoseAnswer ==
    /\ \E a \in answered : answered' = answered \ {a}
    /\ UNCHANGED <<accepted, fw>>

Device ==
    /\ \/ \E d \in Devices :
             \/ \E n \in Nonces : FwOpen(d, n)
             \/ FwConnect(d) \/ FwPing(d) \/ FwFree(d) \/ FwOtherMonitor(d)
       \/ LoseAnswer
    /\ UNCHANGED <<linkVars, nonce, target, tryVars, burst, due, auxAlive, sentVars>>

Armed(t) ==
    CASE t \in {"connect", "request"} -> connecting
      [] t = "reconnect" -> want /\ ~connecting /\ ~connected
      [] t = "silence"   -> connected
      [] t = "ping"      -> connected /\ protocol = V3
      [] t = "burst"     -> burst > 0

Elapse(t) ==
    /\ t \notin due /\ Armed(t)
    /\ due' = due \cup {t}
    /\ UNCHANGED <<linkVars, nonce, target, tryVars, burst, auxAlive, sentVars, fwVars>>

-----------------------------------------------------------------------------
Next ==
    \/ \E d \in Devices : ConnectNfv3(d)
    \/ DisconnectNfv3
    \/ Tick
    \/ Receive
    \/ SyncResponse
    \/ ClockSample
    \/ Device
    \/ \E t \in Timers : Elapse(t)

Spec == Init /\ [][Next]_vars

FlagsOK ==
    /\ want \in BOOLEAN /\ connecting \in BOOLEAN /\ connected \in BOOLEAN
    /\ busy \in BOOLEAN /\ fallback \in BOOLEAN /\ auxAlive \in BOOLEAN

DataOK ==
    /\ protocol \in {0, V3, V4}
    /\ session \in Sessions \cup {NoSession}
    /\ clockSession \in Sessions \cup {NoSession}
    /\ nonce \in 0..MaxNonce /\ target \in Devices
    /\ attempts \in 0..OpenAttempts /\ burst \in 0..BurstCount
    /\ due \subseteq Timers
    /\ opened \subseteq Devices \X (0..MaxNonce)
    /\ closed \subseteq Devices \X Sessions
    /\ asked \subseteq Asks
    /\ accepted \subseteq Sessions /\ answered \subseteq Answers
    /\ fw \in [Devices -> Owners]

TypeOK == FlagsOK /\ DataOK

-----------------------------------------------------------------------------
(* Fairness: the data timer keeps calling process_data (Tick) and clocks   *)
(* advance.  GrantFairness adds a network that, however often it loses     *)
(* them, does not lose every SESSION_ACCEPT of the current connection.     *)

Fairness ==
    /\ WF_vars(Tick)
    /\ \A t \in Timers : WF_vars(Elapse(t))

GrantFairness ==
    SF_vars(\E s \in accepted : AcceptIsCurrent(s) /\ ReceiveSessionAccept(s))

LiveSpec == Spec /\ Fairness /\ GrantFairness

-----------------------------------------------------------------------------
(* Properties.                                                             *)

\* The three link flags, the negotiated protocol, the session id and the
\* clock client are written by seven handlers; this is what they agree on:
\* an attempt starts from a clean slate, a link is NFv4 exactly when it has a
\* session, and the clock client serves that session and no other.
LinkStateConsistent ==
    /\ connecting => want /\ ~connected /\ ~busy /\ protocol = 0
    /\ connected => want /\ ~busy /\ protocol \in {V3, V4}
    /\ busy => want
    /\ ~want => protocol = 0
    /\ protocol = V4 <=> session # NoSession
    /\ clockSession = session

\* A release burst left over from the last NFv3 session never runs while the
\* user wants a link: it would tear down the session being negotiated.
ReleaseExcludesLink == burst > 0 => ~want /\ ~connecting /\ ~connected

\* What every handler may rely on when the GUI thread runs it.
LinkSound == TypeOK /\ LinkStateConsistent /\ ReleaseExcludesLink

\* The session in use was granted by a device for the nonce of the user's
\* latest Connect, whatever old accepts the network still delivers.
SessionWasGranted ==
    session # NoSession => session \in accepted /\ session.nonce = nonce

\* While the link stays up no datagram, tick or late answer changes its
\* protocol, its session or the session the clock client serves.
SessionStable ==
    [][connected /\ connected' =>
         UNCHANGED <<protocol, session, clockSession, nonce>>]_vars

\* An attempt ends: connected, refused, timed out or cancelled.
AttemptEnds == connecting ~> ~connecting

\* A link whose device is gone is noticed, for NFv3 and for NFv4, although
\* old answers may still arrive (NF_LINK_TIMEOUT_MS).
DeadLinkDetected ==
    \A d \in Devices :
        connected /\ target = d /\ fw[d] = Free
            ~> ~connected \/ target # d \/ fw[d] # Free

\* Timeouts and busy answers do not end the user's wish: as long as it stands
\* and a device has granted this connection a session, the link comes up,
\* unless the user starts another connection.
GrantedEventuallyConnected ==
    \A n \in Nonces :
        want /\ nonce = n /\ (\E s \in accepted : s.nonce = n)
            ~> connected \/ ~want \/ nonce # n

\* README.md: NFv4 clock sync maintains liveness, so the auxiliary service
\* must run while an NFv4 link is up.  One NFv3 clock sample ends its thread
\* for good: see ClockSample.
SyncServiceRuns == connected /\ protocol = V4 => auxAlive

=============================================================================
