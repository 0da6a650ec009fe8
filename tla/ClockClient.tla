----------------------------- MODULE ClockClient -----------------------------
(***************************************************************************)
(* NFv4 clock synchronisation: the client NFv4ClockClient, the estimator's *)
(* epoch, the epoch of the clock source in the data model and the store of *)
(* clock observations.                                                     *)
(*                                                                         *)
(* Two threads share them.  The GUI thread starts and stops sessions; the  *)
(* auxiliary service thread sends requests and handles responses.  Each    *)
(* holds the client's lock only for parts of an operation, so an operation *)
(* is a sequence of actions here, one for each stretch of code between     *)
(* which the other thread can run.  The network delivers an answer to any  *)
(* request, late, repeatedly, in any order, or never.                      *)
(***************************************************************************)
EXTENDS Naturals, FiniteSets

CONSTANTS
    BaselineInterval,   \* BASELINE_INTERVAL_US, in units of time
    LoadedInterval,     \* LOADED_INTERVAL_US
    ResponseTimeout,    \* RESPONSE_TIMEOUT_US
    OutstandingLimit,   \* OUTSTANDING_LIMIT
    MaxSession,         \* bound: sessions the device opens, numbered as it does
    MaxSequence,        \* bound: requests of a session
    MaxResets,          \* bound: resets of the estimator other than a session's
    MaxNow              \* bound: length of a behaviour

ASSUME ClockConstantsOK ==
    /\ BaselineInterval \in Nat \ {0} /\ LoadedInterval \in Nat \ {0}
    /\ ResponseTimeout \in Nat \ {0} /\ OutstandingLimit \in Nat \ {0}
    /\ MaxSession \in Nat /\ MaxSequence \in Nat
    /\ MaxResets \in Nat /\ MaxNow \in Nat

NoClockSession == 0
Contexts  == {"baseline", "loaded"}
Requests  == [session: 1..MaxSession, seq: 1..MaxSequence, ctx: Contexts]
Pending   == [session: 1..MaxSession, seq: 1..MaxSequence, ctx: Contexts, at: 0..MaxNow]
Epochs    == 1..(MaxSession + MaxResets + 1)
Samples   == [epoch: Epochs, session: 1..MaxSession, seq: 1..MaxSequence]
NoRequest == [session |-> NoClockSession]

VARIABLES
    now,            \* monotonic time
    clientSession,  \* _session_id
    sequence,       \* _sequence
    next,           \* _next_baseline_send_us and _next_loaded_send_us
    outstanding,    \* _outstanding, by sequence number
    measurement,    \* _last_measurement
    epoch,          \* epoch of the estimator
    fed,            \* the estimator has a sample of this epoch
    bucketEpoch,    \* current_session of the clock source in the data model
    aux,            \* step of the auxiliary thread
    job,            \* the request or response it works on
    readEpoch,      \* the epoch it has read, 0 if none
    gui,            \* step of the GUI thread
    requested,      \* requests ever sent
    matched,        \* requests whose response was taken, with their age then
    repeated,       \* requests whose response was taken more than once
    observations    \* the clock observation store

clientVars == <<clientSession, sequence, next, outstanding>>
estVars    == <<epoch, fed>>
auxVars    == <<aux, job, readEpoch>>
netVars    == <<requested, matched, repeated>>
clockVars  == <<now, clientSession, sequence, next, outstanding, measurement, epoch, fed,
                bucketEpoch, aux, job, readEpoch, gui, requested, matched, repeated,
                observations>>

ClockInit ==
    /\ now = 0
    /\ clientSession = NoClockSession /\ sequence = 0 /\ next = [c \in Contexts |-> 0]
    /\ outstanding = {} /\ measurement = NoRequest
    /\ epoch = 1 /\ fed = FALSE /\ bucketEpoch = 1
    /\ aux = "idle" /\ job = NoRequest /\ readEpoch = 0
    /\ gui = [at |-> "idle", sessions |-> 0]
    /\ requested = {} /\ matched = {} /\ repeated = {} /\ observations = {}

-----------------------------------------------------------------------------
(* GUI thread.                                                             *)

\* start_session: a new session of the device and a new epoch, under the lock.
\* Every connection attempt has stopped the previous session before.
StartSession ==
    /\ gui.at = "idle" /\ gui.sessions < MaxSession /\ clientSession = NoClockSession
    /\ clientSession' = gui.sessions + 1
    /\ sequence' = 0
    /\ next' = [c \in Contexts |-> 0]
    /\ outstanding' = {}
    /\ measurement' = NoRequest
    /\ epoch' = epoch + 1 /\ fed' = FALSE
    /\ gui' = [at |-> "begin", sessions |-> gui.sessions + 1]
    /\ UNCHANGED <<now, bucketEpoch, auxVars, netVars, observations>>

\* begin_clock_epoch with the estimator's epoch follows outside the lock.
BeginClockEpoch ==
    /\ gui.at = "begin"
    /\ bucketEpoch' = epoch
    /\ gui' = [gui EXCEPT !.at = "idle"]
    /\ UNCHANGED <<now, clientVars, measurement, estVars, auxVars, netVars, observations>>

StopSession ==
    /\ gui.at = "idle"
    /\ clientSession' = NoClockSession
    /\ next' = [c \in Contexts |-> 0]
    /\ outstanding' = {}
    /\ measurement' = NoRequest
    /\ UNCHANGED <<now, sequence, estVars, bucketEpoch, auxVars, gui, netVars, observations>>

\* An NFv3 link restarts the estimator without starting a session.
RestartEstimation ==
    /\ gui.at = "idle" /\ clientSession = NoClockSession
    /\ epoch < gui.sessions + MaxResets + 1
    /\ epoch' = epoch + 1 /\ fed' = FALSE
    /\ UNCHANGED <<now, clientVars, measurement, bucketEpoch, auxVars, gui, netVars,
                   observations>>

-----------------------------------------------------------------------------
(* Auxiliary thread: sending a request.                                    *)

\* _prune_expired_locked
Unexpired == {p \in outstanding : p.at + ResponseTimeout > now}

Interval(c) == IF c = "baseline" THEN BaselineInterval ELSE LoadedInterval

\* First locked part of tick: take a sequence number and the next deadline.
TickDue(c) ==
    /\ aux = "idle"
    /\ clientSession # NoClockSession /\ now >= next[c]
    /\ sequence < MaxSequence
    /\ outstanding' = Unexpired
    /\ sequence' = sequence + 1
    /\ next' = [next EXCEPT ![c] = now + Interval(c)]
    /\ job' = [session |-> clientSession, seq |-> sequence + 1, ctx |-> c]
    /\ aux' = "sending"
    /\ UNCHANGED <<now, clientSession, measurement, estVars, bucketEpoch, readEpoch, gui, netVars,
                   observations>>

SendFails ==
    /\ aux = "sending"
    /\ aux' = "idle" /\ job' = NoRequest
    /\ UNCHANGED <<now, clientVars, measurement, estVars, bucketEpoch, readEpoch, gui,
                   netVars, observations>>

Stored  == [session |-> job.session, seq |-> job.seq, ctx |-> job.ctx, at |-> now]
Kept    == {p \in outstanding : p.seq # job.seq} \cup {Stored}
Oldest  == {p \in Kept : \A q \in Kept : p.seq <= q.seq}

MakeRoom == IF Cardinality(Kept) > OutstandingLimit THEN Oldest ELSE {}

\* Mutant: the session is not checked again after the send.
RegisterUnchecked == outstanding' = Kept \ MakeRoom

\* The request is stored if its session is still the current one; the oldest
\* request makes room, whatever its context and age.
Register ==
    outstanding' = IF job.session = clientSession THEN Kept \ MakeRoom ELSE outstanding

\* The send, the time t1 and the second locked part of tick.
SendRequest ==
    /\ aux = "sending"
    /\ requested' = requested \cup {job}
    /\ Register
    /\ aux' = "idle" /\ job' = NoRequest
    /\ UNCHANGED <<now, clientSession, sequence, next, measurement, estVars, bucketEpoch,
                   readEpoch, gui, matched, repeated, observations>>

-----------------------------------------------------------------------------
(* Auxiliary thread: handling a response.  An answer repeats the session,  *)
(* the sequence number and the context of its request.                     *)

\* Mutant: a matched request stays outstanding.
TakeKeeps(p) == outstanding' = Unexpired

\* pop removes the request; the expired ones are pruned before it is looked up.
Take(p) == outstanding' = Unexpired \ {p}

\* Mutant: expired requests are looked up too.
LookupAny(r) == {p \in outstanding : p.seq = r.seq}

Lookup(r) == {p \in Unexpired : p.seq = r.seq}

\* Locked part of handle_response: the session and the sequence must match.
Match(r) ==
    /\ aux = "idle" /\ r \in requested /\ r.session = clientSession
    /\ \E p \in Lookup(r) :
          /\ p.ctx = r.ctx
          /\ Take(p)
          /\ matched' = matched \cup {[req |-> r, age |-> now - p.at]}
    /\ repeated' = IF \E m \in matched : m.req = r THEN repeated \cup {r} ELSE repeated
    /\ job' = r /\ aux' = "matched"
    /\ UNCHANGED <<now, clientSession, sequence, next, measurement, estVars, bucketEpoch, readEpoch,
                   gui, requested, observations>>

\* Before a response is dropped the expired requests are pruned.
Mismatch(r) ==
    /\ aux = "idle" /\ r \in requested
    /\ r.session # clientSession \/ Lookup(r) = {}
    /\ outstanding' = Unexpired
    /\ UNCHANGED <<now, clientSession, sequence, next, measurement, estVars, bucketEpoch, auxVars,
                   gui, netVars, observations>>

\* A baseline sample is added to the estimator, which starts a new epoch when
\* the device clock went back.  The client's lock was released: the session may
\* have ended or a new one begun, and nothing looks at it again.
FeedEstimator ==
    /\ aux = "matched"
    /\ \/ /\ job.ctx = "baseline" /\ fed' = TRUE
          /\ \/ UNCHANGED epoch
             \/ /\ fed /\ epoch < gui.sessions + MaxResets + 1
                /\ epoch' = epoch + 1
       \/ job.ctx = "loaded" /\ UNCHANGED <<epoch, fed>>
    /\ aux' = "fed"
    /\ UNCHANGED <<now, clientVars, measurement, bucketEpoch, job, readEpoch, gui,
                   netVars, observations>>

StoreMeasurement ==
    /\ aux = "fed"
    /\ measurement' = job
    /\ aux' = "stored"
    /\ UNCHANGED <<now, clientVars, estVars, bucketEpoch, job, readEpoch, gui, netVars,
                   observations>>

\* _sync_nfv4_clock_epoch_ compares the epochs, reads the estimator's again
\* and writes it to the data model.
CompareEpochs ==
    /\ aux = "stored"
    /\ aux' = IF bucketEpoch = epoch THEN "synced" ELSE "differ"
    /\ UNCHANGED <<now, clientVars, measurement, estVars, bucketEpoch, job, readEpoch, gui,
                   netVars, observations>>

ReadEpoch ==
    /\ aux = "differ"
    /\ readEpoch' = epoch
    /\ aux' = "read"
    /\ UNCHANGED <<now, clientVars, measurement, estVars, bucketEpoch, job, gui, netVars,
                   observations>>

SyncBucket ==
    /\ aux = "read"
    /\ bucketEpoch' = readEpoch
    /\ readEpoch' = 0
    /\ aux' = "synced"
    /\ UNCHANGED <<now, clientVars, measurement, estVars, job, gui, netVars,
                   observations>>

\* take_measurement empties the slot; a session start or stop may have done so.
TakeMeasurement ==
    /\ aux = "synced"
    /\ job' = measurement
    /\ measurement' = NoRequest
    /\ aux' = IF measurement = NoRequest THEN "idle" ELSE "taken"
    /\ UNCHANGED <<now, clientVars, estVars, bucketEpoch, readEpoch, gui, netVars,
                   observations>>

\* add_neuroflap labels a baseline exchange with the epoch it reads now; a
\* loaded exchange is reported to the device only.
Record ==
    /\ aux = "taken"
    /\ observations' =
          IF job.ctx = "baseline"
            THEN observations \cup {[epoch |-> epoch, session |-> job.session,
                                     seq |-> job.seq]}
            ELSE observations
    /\ aux' = "idle" /\ job' = NoRequest
    /\ UNCHANGED <<now, clientVars, measurement, estVars, bucketEpoch, readEpoch, gui, netVars>>

ClockAdvances ==
    /\ now < MaxNow
    /\ now' = now + 1
    /\ UNCHANGED <<clientVars, measurement, estVars, bucketEpoch, auxVars, gui, netVars,
                   observations>>

-----------------------------------------------------------------------------
Gui == StartSession \/ BeginClockEpoch \/ StopSession \/ RestartEstimation

Aux ==
    \/ \E c \in Contexts : TickDue(c)
    \/ SendRequest
    \/ SendFails
    \/ \E r \in requested : Match(r) \/ Mismatch(r)
    \/ FeedEstimator
    \/ StoreMeasurement
    \/ CompareEpochs
    \/ ReadEpoch
    \/ SyncBucket
    \/ TakeMeasurement
    \/ Record

ClockNext == Gui \/ Aux \/ ClockAdvances

ClockSpec == ClockInit /\ [][ClockNext]_clockVars

AuxSteps == {"idle", "sending", "matched", "fed", "stored", "differ", "read", "synced", "taken"}

ClockTypeOK ==
    /\ now \in 0..MaxNow
    /\ clientSession \in 0..MaxSession /\ sequence \in 0..MaxSequence
    /\ next \in [Contexts -> Nat]
    /\ outstanding \subseteq Pending /\ IsFiniteSet(outstanding)
    /\ Cardinality(outstanding) <= OutstandingLimit
    /\ measurement \in Requests \cup {NoRequest}
    /\ epoch \in Epochs /\ bucketEpoch \in Epochs /\ readEpoch \in Epochs \cup {0}
    /\ fed \in BOOLEAN
    /\ aux \in AuxSteps /\ job \in Requests \cup {NoRequest}
    /\ gui \in [at: {"idle", "begin"}, sessions: 0..MaxSession]
    /\ requested \subseteq Requests
    /\ matched \subseteq [req: Requests, age: 0..MaxNow] /\ repeated \subseteq Requests
    /\ observations \subseteq Samples

-----------------------------------------------------------------------------
(* Properties.                                                             *)

\* Although a session may end while a request is being sent outside the lock,
\* only requests of the running session are outstanding, and none of them
\* shares its sequence number with another or with the next request.
OutstandingIsCurrent ==
    /\ \A p \in outstanding : p.session = clientSession /\ p.seq <= sequence
    /\ \A p, q \in outstanding : p.seq = q.seq => p = q

\* What the thread that sends and the one that receives find when they take the
\* client's lock again: the table is bounded and holds current requests only.
RequestsSound == ClockTypeOK /\ OutstandingIsCurrent

\* A request yields at most one clock sample, however often the network
\* repeats the response and whatever sessions start in between.
OneSamplePerRequest == repeated = {}

\* NFv4_Dataflow_Export_Protocol.md: "Requests expire after six seconds; late
\* responses cannot update the clock model".
NoLateSample == \A m \in matched : m.age < ResponseTimeout

=============================================================================
