------------------------------ MODULE DiagWorkers ------------------------------
(***************************************************************************)
(* The diagnostic workers of DataReceiver: a UDP upload, a TCP session and *)
(* a TCP upload, each a thread with a stop event.  The auxiliary service   *)
(* thread starts and stops them on the device's commands; the GUI thread   *)
(* stops them when the user disconnects.  A step here is a stretch of code *)
(* between two points where another thread can run: the worker lock        *)
(* guards registering, taking and clearing, while stop events are set and  *)
(* sockets closed after it has been released.                              *)
(*                                                                         *)
(* A connected socket is named by the TCP session worker that opened it.   *)
(***************************************************************************)
EXTENDS Naturals, Sequences

CONSTANTS
    MaxSessions,    \* bound: sessions the device grants
    MaxWorkers,     \* bound: threads alive at a time
    Tests,          \* test ids
    NoTest,         \* test id 0
    None            \* no worker, no socket

Kinds    == {"udp", "upload", "tcp"}
Stoppers == {"gui", "service"}
Sessions == 1..MaxSessions
Workers  == 1..MaxWorkers

ASSUME WorkerConstants ==
    /\ MaxSessions \in Nat /\ MaxWorkers \in Nat
    /\ NoTest \notin Tests /\ None \notin Nat

VARIABLES
    connected,      \* nf_connected, under NFv4
    session,        \* nf_session_id, 0 when there is none
    granted,        \* sessions granted so far
    active,         \* _nf_diag_active_test_id
    slot,           \* _nf_diag_{udp,tcp_upload,tcp}_stop: the registered workers
    socket,         \* _nf_diag_tcp_socket
    at,             \* where each worker is
    kind,           \* what it does
    under,          \* the session its command was accepted under
    stopped,        \* live workers whose stop event is set
    open,           \* connections not closed by this side
    todo,           \* the kinds a thread has still to stop, in order
    taken,          \* the worker whose stop event it has yet to set
    shut,           \* the connection it has yet to close
    starting,       \* what the service starts next
    command,        \* the session of the command it carries out
    released        \* sessions the user disconnected

linkVars == <<connected, session, granted, released>>
slotVars == <<slot, socket>>
stopVars == <<todo, taken, shut>>
cmdVars  == <<active, starting, command>>
vars == <<linkVars, slotVars, stopVars, cmdVars, at, kind, under, stopped, open>>

Idle(p) == todo[p] = <<>> /\ taken[p] = {} /\ shut[p] = {}

Init ==
    /\ connected = FALSE /\ session = 0 /\ granted = 0 /\ released = {}
    /\ active = NoTest /\ starting = "nothing" /\ command = 0
    /\ slot = [k \in Kinds |-> None] /\ socket = None
    /\ at = [w \in Workers |-> "none"] /\ kind = [w \in Workers |-> "udp"]
    /\ under = [w \in Workers |-> 0]
    /\ stopped = {} /\ open = {}
    /\ todo = [p \in Stoppers |-> <<>>]
    /\ taken = [p \in Stoppers |-> {}] /\ shut = [p \in Stoppers |-> {}]

-----------------------------------------------------------------------------
(* Stopping, by either thread.                                             *)

\* Mutant: Stop all leaves the TCP upload alone.
StopTwo == <<"udp", "tcp">>

StopAll == <<"udp", "upload", "tcp">>
StopTcp == <<"upload", "tcp">>

SlotsWithout(k) == [slot EXCEPT ![k] = None]

SocketWithout(k) == IF k = "tcp" THEN None ELSE socket

\* Under the lock: the slot, and the TCP session's socket, are emptied.
Take(p) ==
    LET k == Head(todo[p]) IN
    /\ todo[p] # <<>> /\ taken[p] = {} /\ shut[p] = {}
    /\ todo' = [todo EXCEPT ![p] = Tail(@)]
    /\ taken' = [taken EXCEPT ![p] = {slot[k]} \ {None}]
    /\ shut' = [shut EXCEPT ![p] = IF k = "tcp" THEN {socket} \ {None} ELSE {}]
    /\ slot' = SlotsWithout(k) /\ socket' = SocketWithout(k)
    /\ UNCHANGED <<linkVars, cmdVars, at, kind, under, stopped, open>>

\* After the lock: the stop event is set, then the connection closed.
Signal(p) ==
    /\ taken[p] # {} \/ shut[p] # {}
    /\ stopped' = stopped \cup {w \in taken[p] : at[w] # "none"}
    /\ open' = open \ shut[p]
    /\ taken' = [taken EXCEPT ![p] = {}]
    /\ shut' = [shut EXCEPT ![p] = {}]
    /\ UNCHANGED <<linkVars, slotVars, cmdVars, at, kind, under, todo>>

-----------------------------------------------------------------------------
(* The GUI thread: the link, as far as it matters to the workers.          *)

SessionAccept ==
    /\ ~connected /\ session = 0 /\ Idle("gui") /\ granted < MaxSessions
    /\ granted' = granted + 1 /\ session' = granted + 1
    /\ connected' = TRUE
    /\ UNCHANGED <<slotVars, stopVars, cmdVars, at, kind, under, stopped, open, released>>

\* Link timeout: nothing is stopped.
LinkTimeout ==
    /\ connected /\ Idle("gui")
    /\ connected' = FALSE
    /\ UNCHANGED <<slotVars, stopVars, cmdVars, at, kind, under, stopped, open,
                   session, granted, released>>

\* Connect, or the reconnect after a timeout: nothing is stopped either.
StartConnectAttempt ==
    /\ Idle("gui")
    /\ connected' = FALSE /\ session' = 0
    /\ UNCHANGED <<slotVars, stopVars, cmdVars, at, kind, under, stopped, open,
                   granted, released>>

DisconnectNfv3 ==
    /\ Idle("gui")
    /\ connected' = FALSE /\ session' = 0
    /\ released' = released \cup ({session} \ {0})
    /\ todo' = [todo EXCEPT !["gui"] = StopAll]
    /\ UNCHANGED <<slotVars, cmdVars, at, kind, under, stopped, open, granted, taken, shut>>

-----------------------------------------------------------------------------
(* The auxiliary service thread.                                           *)

ServiceFree ==
    /\ Idle("service") /\ starting = "nothing"

\* A command is taken when the link is up and its session is the link's.  The
\* flags are read without a lock and not again.  (NFv3 commands only ask for a link.)
Obey(stops, start, test) ==
    /\ connected /\ ServiceFree
    /\ todo' = [todo EXCEPT !["service"] = stops]
    /\ starting' = start
    /\ command' = IF start = "nothing" THEN 0 ELSE session
    /\ active' = test
    /\ UNCHANGED <<linkVars, slotVars, at, kind, under, stopped, open, taken, shut>>

TestBegin(t) == Obey(IF t # active THEN StopAll ELSE <<"udp">>, "nothing", t)

UdpUploadStart(t) == Obey(<<"udp">>, "udp", t)

TcpConnect(t) == Obey(StopTcp, "tcp", t)

\* The active test is not recorded here.
TcpUploadStart == Obey(<<"upload">>, "upload", active)

TestEnd == Obey(StopAll, "nothing", NoTest)

SlotOf(k) == k

\* A name no thread, stop event or connection has any more.
IsFree(w) == at[w] = "none" /\ \A p \in Stoppers : w \notin taken[p] \cup shut[p]

\* Under the lock: a new thread is registered.  It is launched next, and whatever
\* happens in between happens before its first step.
Register(w) ==
    /\ Idle("service") /\ starting # "nothing"
    /\ IsFree(w) /\ \A v \in Workers : v < w => ~IsFree(v)
    /\ at' = [at EXCEPT ![w] = IF starting = "tcp" THEN "connect" ELSE "check"]
    /\ kind' = [kind EXCEPT ![w] = starting]
    /\ under' = [under EXCEPT ![w] = command]
    /\ slot' = [slot EXCEPT ![SlotOf(starting)] = w]
    /\ starting' = "nothing" /\ command' = 0
    /\ UNCHANGED <<linkVars, stopVars, socket, active, stopped, open>>

-----------------------------------------------------------------------------
(* The workers.                                                            *)

Goes(w, place) ==
    /\ at' = [at EXCEPT ![w] = place]
    /\ UNCHANGED <<linkVars, stopVars, cmdVars, kind, under, stopped>>

\* The uploads' loops; the stage may be over.  The UDP upload tests its event before
\* and after a pause that the event cuts short: one test here.
CheckStop(w) ==
    /\ at[w] = "check"
    /\ \/ w \in stopped /\ Goes(w, "leave")
       \/ w \notin stopped /\ Goes(w, IF kind[w] = "udp" THEN "send" ELSE "pick")
    /\ UNCHANGED <<slotVars, open>>

StageOver(w) ==
    /\ at[w] = "check"
    /\ Goes(w, "leave")
    /\ UNCHANGED <<slotVars, open>>

\* Under the lock: the registered connection, if there is one.
PickSocket(w) ==
    /\ at[w] = "pick"
    /\ Goes(w, IF socket = None THEN "check" ELSE "send")
    /\ UNCHANGED <<slotVars, open>>

Send(w) ==
    /\ at[w] = "send"
    /\ \/ Goes(w, "check")
       \/ kind[w] = "upload" /\ Goes(w, "leave")
    /\ UNCHANGED <<slotVars, open>>

\* create_connection ends within its timeout.
OpenConnection(w) ==
    /\ at[w] = "connect"
    /\ \/ Goes(w, "join") /\ open' = open \cup {w}
       \/ Goes(w, "leave") /\ UNCHANGED open
    /\ UNCHANGED slotVars

\* Mutant: a session that was stopped while it connected registers its socket.
JoinAnyway(w) ==
    /\ at[w] = "join"
    /\ Goes(w, "receive") /\ socket' = w
    /\ UNCHANGED <<slot, open>>

\* Under the lock.
Join(w) ==
    /\ at[w] = "join"
    /\ \/ w \in stopped /\ Goes(w, "leave") /\ UNCHANGED socket
       \/ w \notin stopped /\ Goes(w, "receive") /\ socket' = w
    /\ UNCHANGED <<slot, open>>

\* Mutant: only a closed connection ends the receive loop.
ReceiveUntilClosed(w) ==
    /\ at[w] = "receive" /\ w \notin open
    /\ Goes(w, "leave")
    /\ UNCHANGED <<slotVars, open>>

\* A receive times out or fails: the loop sees the event or a closed connection.
ReceiveEnds(w) ==
    /\ at[w] = "receive" /\ (w \in stopped \/ w \notin open)
    /\ Goes(w, "leave")
    /\ UNCHANGED <<slotVars, open>>

PeerCloses(w) ==
    /\ at[w] = "receive"
    /\ Goes(w, "leave")
    /\ UNCHANGED <<slotVars, open>>

\* Mutant: a worker that ends clears the slot whoever is registered.
Blank(w) == None

Unregistered(w) == IF slot[kind[w]] = w THEN None ELSE slot[kind[w]]

\* Under the lock: a worker clears what is still registered of it.  Its thread
\* ends and its name is free again.
Leave(w) ==
    /\ at[w] = "leave"
    /\ slot' = [slot EXCEPT ![kind[w]] = Unregistered(w)]
    /\ socket' = IF socket = w THEN None ELSE socket
    /\ at' = [at EXCEPT ![w] = "none"]
    /\ kind' = [kind EXCEPT ![w] = "udp"] /\ under' = [under EXCEPT ![w] = 0]
    /\ stopped' = stopped \ {w} /\ open' = open \ {w}
    /\ UNCHANGED <<linkVars, stopVars, cmdVars>>

Progress(w) ==
    \/ CheckStop(w)
    \/ PickSocket(w)
    \/ Send(w)
    \/ OpenConnection(w)
    \/ Join(w)
    \/ ReceiveEnds(w)
    \/ Leave(w)

-----------------------------------------------------------------------------
Next ==
    \/ SessionAccept \/ LinkTimeout \/ StartConnectAttempt \/ DisconnectNfv3
    \/ \E p \in Stoppers : Take(p) \/ Signal(p)
    \/ \E t \in Tests : TestBegin(t) \/ UdpUploadStart(t) \/ TcpConnect(t)
    \/ TcpUploadStart \/ TestEnd
    \/ \E w \in Workers :
         Register(w) \/ Progress(w) \/ StageOver(w) \/ PeerCloses(w)

Spec == Init /\ [][Next]_vars

\* Threads that can run do; every step of a worker takes it to another place.
LiveSpec ==
    /\ Spec
    /\ \A w \in Workers : WF_at(Progress(w))

-----------------------------------------------------------------------------
Places == {"none", "check", "pick", "send", "connect", "join", "receive",
           "leave"}

Running(w) == at[w] # "none" /\ w \notin stopped

\* Each kind of worker has a slot of its own, and a thread stops them one at a
\* time: it never holds two stop events.
TypeOK ==
    /\ connected \in BOOLEAN /\ granted \in 0..MaxSessions
    /\ session \in 0..granted /\ command \in 0..granted
    /\ released \subseteq 1..granted
    /\ active \in Tests \cup {NoTest} /\ starting \in Kinds \cup {"nothing"}
    /\ slot \in [Kinds -> Workers \cup {None}] /\ socket \in Workers \cup {None}
    /\ at \in [Workers -> Places] /\ kind \in [Workers -> Kinds]
    /\ \A k \in Kinds : slot[k] # None => kind[slot[k]] = k
    /\ socket # None => kind[socket] = "tcp"
    /\ under \in [Workers -> 0..granted]
    /\ stopped \subseteq Workers /\ open \subseteq Workers
    /\ todo \in [Stoppers -> Seq(Kinds)]
    /\ taken \in [Stoppers -> SUBSET Workers] /\ shut \in [Stoppers -> SUBSET Workers]
    /\ \A p \in Stoppers : \A v, w \in taken[p] : v = w

-----------------------------------------------------------------------------
(* Properties.                                                             *)

\* Every worker that runs can be stopped: it is registered, or a thread is
\* about to set its event.  Two threads stop, one starts, workers end by
\* themselves, and each clears slots that may be another's by then.
NoWorkerLost ==
    \A w \in Workers :
        Running(w) => slot[kind[w]] = w \/ \E p \in Stoppers : w \in taken[p]

\* What is registered still runs: neither stopped nor ended.
SlotsCurrent == \A k \in Kinds : slot[k] # None => Running(slot[k])

\* A TCP upload that looks for a connection never finds one closed by a stop or
\* by the end of its session worker.
SocketOpen == socket # None => socket \in open

\* What a thread that takes the worker lock finds registered.
RegistrySound == TypeOK /\ NoWorkerLost /\ SlotsCurrent /\ SocketOpen

\* Within a session the registered TCP session receives on the registered
\* connection: one that connects late does not replace it.
ConnectionKept ==
    \A w \in Workers :
        slot["tcp"] = w /\ at[w] = "receive" /\ connected /\ under[w] = session
            => socket = w

\* Disconnect stops all workers except at most one: the one whose command had
\* been accepted before and was still being carried out.
Survives(w) == Running(w) /\ under[w] \in released

OneSurvivor ==
    Idle("gui") => \A v, w \in Workers : Survives(v) /\ Survives(w) => v = w

\* A worker that was told to stop ends.
StoppedWorkersEnd == \A w \in Workers : w \in stopped ~> w \notin stopped

=============================================================================
