------------------------------- MODULE DiagProofs -------------------------------
(***************************************************************************)
(* Theorems about the diagnostics.  Of the workers: none is lost, a        *)
(* session's connection is not replaced by a late one, and Disconnect      *)
(* leaves at most one worker behind.  Of the reports: each says exactly    *)
(* what was received and what was missing.                                 *)
(***************************************************************************)
EXTENDS DiagWorkers, DiagReports, FoldLemmas, SequenceTheorems, TLAPS

-----------------------------------------------------------------------------
(* The workers.                                                            *)


\* The kinds of worker a thread has still to stop.
Elems(s) == {s[i] : i \in 1..Len(s)}
Left(p)  == Elems(todo[p])

-----------------------------------------------------------------------------
(* The inductive invariant.                                                *)

\* A registered connection is of a session that receives or is about to leave,
\* one being closed is registered no more, and one not registered yet is open.
SocketFacts ==
    /\ socket # None => at[socket] \in {"receive", "leave"}
    /\ \A p \in Stoppers : \A w \in shut[p] :
         at[w] \in {"receive", "leave", "none"} /\ socket # w
    /\ \A w \in Workers : at[w] = "join" => w \in open
    /\ \A w \in Workers : at[w] \in {"connect", "join", "receive"} => kind[w] = "tcp"

\* The slot of what the service starts next is empty, or it has still to stop it.
SlotEmptied ==
    starting # "nothing" => slot[starting] = None \/ starting \in Left("service")

\* A worker being stopped is registered no more; while the service stops one
\* nothing takes its place.
Holding ==
    /\ \A p \in Stoppers : \A w \in taken[p] : \A k \in Kinds : slot[k] # w
    /\ \A w \in taken["service"] : at[w] # "none" => slot[kind[w]] = None
    /\ \A w \in stopped : at[w] # "none"

\* The link is down while Disconnect stops workers.
LinkFacts ==
    /\ connected => Idle("gui")
    /\ session \notin released

\* A survivor Disconnect will not reach, or has not reached.
Unreached(w) ==
    /\ Survives(w)
    /\ w \notin taken["gui"]
    /\ \A k \in Left("gui") : slot[k] # w

\* There is one at most.  A command of a released session starts its worker when
\* no other is left but the one it replaces, and while Disconnect is under way a
\* missed worker is the last thing the service started.
SurvivorFacts ==
    /\ \A v, w \in Workers : Unreached(v) /\ Unreached(w) => v = w
    /\ starting # "nothing" /\ command \in released =>
         \A w \in Workers : Unreached(w) => w \in taken["service"]
    /\ ~Idle("gui") =>
         \A w \in Workers : Unreached(w) /\ w \notin taken["service"] =>
             todo["service"] = <<>> /\ starting = "nothing"

DiagInv ==
    /\ TypeOK /\ NoWorkerLost /\ SlotsCurrent /\ SocketOpen /\ ConnectionKept
    /\ SocketFacts /\ SlotEmptied /\ Holding /\ LinkFacts /\ SurvivorFacts

-----------------------------------------------------------------------------
(* Sequences of kinds.                                                     *)

LEMMA TailElems ==
    ASSUME NEW s \in Seq(Kinds), s # <<>>
    PROVE  /\ Head(s) \in Kinds /\ Tail(s) \in Seq(Kinds)
           /\ Elems(s) = {Head(s)} \cup Elems(Tail(s))
<1>1. Head(s) \in Kinds /\ Tail(s) \in Seq(Kinds) /\ Len(s) \in Nat \ {0}
  OBVIOUS
<1>2. Len(Tail(s)) = Len(s) - 1 /\ \A i \in 1..Len(Tail(s)) : Tail(s)[i] = s[i + 1]
  OBVIOUS
<1>3. ASSUME NEW i \in 1..Len(s) PROVE s[i] \in {Head(s)} \cup Elems(Tail(s))
  <2>1. CASE i = 1 BY <2>1
  <2>2. CASE i # 1
    <3>1. i - 1 \in 1..Len(Tail(s)) /\ Tail(s)[i - 1] = s[i] BY <1>1, <1>2, <2>2
    <3> QED BY <3>1 DEF Elems
  <2> QED BY <2>1, <2>2
<1>4. Head(s) \in Elems(s) BY <1>1 DEF Elems
<1>5. ASSUME NEW i \in 1..Len(Tail(s)) PROVE Tail(s)[i] \in Elems(s)
  BY <1>1, <1>2 DEF Elems
<1> QED BY <1>1, <1>3, <1>4, <1>5 DEF Elems

\* What the commands and Disconnect stop.
LEMMA StopElems ==
    /\ StopAll \in Seq(Kinds) /\ Elems(StopAll) = Kinds
    /\ StopTcp \in Seq(Kinds) /\ Elems(StopTcp) = {"upload", "tcp"}
    /\ \A k \in Kinds : <<k>> \in Seq(Kinds) /\ Elems(<<k>>) = {k}
    /\ Elems(<<>>) = {}
<1>1. StopAll \in Seq(Kinds) /\ StopTcp \in Seq(Kinds) BY DEF StopAll, StopTcp, Kinds
<1>2. Elems(StopAll) = {StopAll[1], StopAll[2], StopAll[3]}
  BY DEF Elems, StopAll
<1>3. Elems(StopTcp) = {StopTcp[1], StopTcp[2]} BY DEF Elems, StopTcp
<1>4. \A k \in Kinds : <<k>> \in Seq(Kinds) /\ Elems(<<k>>) = {k} BY DEF Elems
<1>5. Elems(<<>>) = {} BY DEF Elems
<1> QED BY <1>1, <1>2, <1>3, <1>4, <1>5 DEF StopAll, StopTcp, Kinds

-----------------------------------------------------------------------------
(* The link.                                                               *)

\* Steps of the link that stop nothing.
LEMMA LinkInv ==
    ASSUME DiagInv, SessionAccept \/ LinkTimeout \/ StartConnectAttempt
    PROVE  DiagInv'
<1> USE DEF linkVars, slotVars, stopVars, cmdVars
<1>1. granted' \in 0..MaxSessions /\ granted' >= granted /\ granted \in Nat
  BY WorkerConstants DEF DiagInv, TypeOK, SessionAccept, LinkTimeout, StartConnectAttempt
<1>2. UNCHANGED <<slotVars, stopVars, cmdVars, at, kind, under, stopped, open, released>>
  BY DEF SessionAccept, LinkTimeout, StartConnectAttempt
<1>3. TypeOK'
  <2>1. session' \in 0..granted' /\ connected' \in BOOLEAN
    <3>1. CASE SessionAccept BY <1>1, <3>1 DEF SessionAccept
    <3>2. CASE LinkTimeout BY <3>2 DEF LinkTimeout, DiagInv, TypeOK
    <3>3. CASE StartConnectAttempt
      <4>1. session' = 0 /\ connected' = FALSE /\ granted' = granted
        BY <3>3 DEF StartConnectAttempt
      <4>2. 0 \in 0..granted BY <1>1
      <4> QED BY <4>1, <4>2
    <3> QED BY <3>1, <3>2, <3>3
  <2>2. command \in 0..granted' /\ released \subseteq 1..granted'
    BY <1>1 DEF DiagInv, TypeOK
  <2>3. under \in [Workers -> 0..granted']
    BY <1>1 DEF DiagInv, TypeOK
  <2> QED BY <1>1, <1>2, <2>1, <2>2, <2>3 DEF DiagInv, TypeOK
<1>4. NoWorkerLost' /\ SlotsCurrent' /\ SocketOpen'
  BY <1>2 DEF DiagInv, NoWorkerLost, SlotsCurrent, SocketOpen, Running
<1>5. ConnectionKept'
  <2>1. CASE SessionAccept
    <3>1. \A w \in Workers : under[w] # session'
      BY <1>1, <2>1 DEF SessionAccept, DiagInv, TypeOK
    <3> QED BY <1>2, <3>1 DEF ConnectionKept
  <2>2. CASE LinkTimeout \/ StartConnectAttempt
    BY <2>2 DEF LinkTimeout, StartConnectAttempt, ConnectionKept
  <2> QED BY <2>1, <2>2
<1>6. SocketFacts' /\ SlotEmptied' /\ Holding'
  BY <1>2 DEF DiagInv, SocketFacts, SlotEmptied, Holding, Left, Elems
<1>7. LinkFacts'
  <2>1. session' \notin released
    BY <1>1 DEF DiagInv, TypeOK, LinkFacts, SessionAccept, LinkTimeout, StartConnectAttempt
  <2>2. connected' => Idle("gui")
    BY DEF SessionAccept, LinkTimeout, StartConnectAttempt
  <2> QED BY <1>2, <2>1, <2>2 DEF LinkFacts, Idle
<1>8. SurvivorFacts'
  BY <1>2 DEF DiagInv, SurvivorFacts, Unreached, Survives, Running, Left, Elems, Idle
<1> QED BY <1>3, <1>4, <1>5, <1>6, <1>7, <1>8 DEF DiagInv

\* When Disconnect begins every running worker is registered and will be reached,
\* except one the service is stopping itself.
LEMMA DisconnectInv ==
    ASSUME DiagInv, DisconnectNfv3
    PROVE  DiagInv'
<1> USE DEF linkVars, slotVars, stopVars, cmdVars
<1>1. UNCHANGED <<slotVars, cmdVars, at, kind, under, stopped, open, granted, taken, shut>>
  BY DEF DisconnectNfv3
<1>2. /\ todo' \in [Stoppers -> Seq(Kinds)]
      /\ todo'["gui"] = StopAll /\ todo'["service"] = todo["service"]
  BY StopElems DEF DiagInv, TypeOK, DisconnectNfv3, Stoppers
<1>3. released' = released \cup ({session} \ {0}) /\ session' = 0 /\ connected' = FALSE
  BY DEF DisconnectNfv3
<1>4. TypeOK'
  <2>1. released' \subseteq 1..granted /\ session' \in 0..granted
    BY <1>3, WorkerConstants DEF DiagInv, TypeOK
  <2> QED BY <1>1, <1>2, <1>3, <2>1 DEF DiagInv, TypeOK
<1>5. NoWorkerLost' /\ SlotsCurrent' /\ SocketOpen'
  BY <1>1 DEF DiagInv, NoWorkerLost, SlotsCurrent, SocketOpen, Running
<1>6. ConnectionKept' /\ LinkFacts'
  <2>1. 0 \notin released' BY <1>3 DEF DiagInv, TypeOK
  <2> QED BY <1>3, <2>1 DEF ConnectionKept, LinkFacts
<1>7. SocketFacts' /\ SlotEmptied' /\ Holding'
  BY <1>1, <1>2 DEF DiagInv, SocketFacts, SlotEmptied, Holding, Left, Elems
<1>8. SurvivorFacts'
  <2>1. ASSUME NEW w \in Workers, Unreached(w)'
        PROVE  w \in taken["service"]
    <3>1. kind[w] \in Left("gui")' BY <1>1, <1>2, StopElems DEF DiagInv, TypeOK, Left, Elems
    <3>2. slot[kind[w]] # w /\ w \notin taken["gui"] /\ Running(w)
      BY <1>1, <2>1, <3>1 DEF Unreached, Survives, Running
    <3> QED BY <3>2 DEF DiagInv, NoWorkerLost, Stoppers
  <2>2. \A v, w \in Workers : Unreached(v)' /\ Unreached(w)' => v = w
    BY <2>1 DEF DiagInv, TypeOK, Stoppers
  <2> QED BY <1>1, <2>1, <2>2 DEF SurvivorFacts
<1> QED BY <1>4, <1>5, <1>6, <1>7, <1>8 DEF DiagInv

-----------------------------------------------------------------------------
(* Stopping.                                                               *)

\* A worker that is taken goes from its slot to the thread that took it.
LEMMA TakeInv ==
    ASSUME DiagInv, NEW p \in Stoppers, Take(p)
    PROVE  DiagInv'
<1> DEFINE k == Head(todo[p])
<1> USE DEF linkVars, slotVars, stopVars, cmdVars
<1>1. /\ todo[p] \in Seq(Kinds) /\ todo[p] # <<>>
      /\ taken[p] = {} /\ shut[p] = {}
      /\ todo' = [todo EXCEPT ![p] = Tail(todo[p])]
      /\ taken' = [taken EXCEPT ![p] = {slot[k]} \ {None}]
      /\ shut' = [shut EXCEPT ![p] = IF k = "tcp" THEN {socket} \ {None} ELSE {}]
      /\ slot' = [slot EXCEPT ![k] = None]
      /\ socket' = IF k = "tcp" THEN None ELSE socket
      /\ UNCHANGED <<linkVars, cmdVars, at, kind, under, stopped, open>>
  BY DEF DiagInv, TypeOK, Take, SlotsWithout, SocketWithout
<1>2. k \in Kinds /\ Tail(todo[p]) \in Seq(Kinds)
  BY <1>1, TailElems
<1>3. /\ Left(p) = {k} \cup Left(p)'
      /\ \A q \in Stoppers : q # p => Left(q)' = Left(q)
  <2>1. todo'[p] = Tail(todo[p]) BY <1>1 DEF DiagInv, TypeOK
  <2>2. \A q \in Stoppers : q # p => todo'[q] = todo[q] BY <1>1 DEF DiagInv, TypeOK
  <2>3. Left(p) = {k} \cup Left(p)' BY <1>1, <2>1, TailElems DEF Left, Elems
  <2> QED BY <2>2, <2>3 DEF Left, Elems
<1>4. TypeOK'
  <2>1. todo' \in [Stoppers -> Seq(Kinds)] BY <1>1, <1>2 DEF DiagInv, TypeOK
  <2>2. /\ taken' \in [Stoppers -> SUBSET Workers]
        /\ \A q \in Stoppers : \A v, w \in taken'[q] : v = w
    BY <1>1, <1>2 DEF DiagInv, TypeOK
  <2>3. shut' \in [Stoppers -> SUBSET Workers] BY <1>1 DEF DiagInv, TypeOK
  <2>4. /\ slot' \in [Kinds -> Workers \cup {None}] /\ socket' \in Workers \cup {None}
        /\ \A j \in Kinds : slot'[j] # None => kind[slot'[j]] = j
        /\ socket' # None => kind[socket'] = "tcp"
    BY <1>1, <1>2 DEF DiagInv, TypeOK
  <2> QED BY <1>1, <2>1, <2>2, <2>3, <2>4 DEF DiagInv, TypeOK
<1>5. NoWorkerLost'
  <2> SUFFICES ASSUME NEW w \in Workers, Running(w)', slot'[kind[w]] # w
               PROVE  \E q \in Stoppers : w \in taken'[q]
    BY <1>1 DEF NoWorkerLost
  <2>1. slot[kind[w]] = w \/ \E q \in Stoppers : w \in taken[q]
    BY <1>1 DEF DiagInv, NoWorkerLost, Running
  <2>2. CASE slot[kind[w]] = w
    <3>1. kind[w] = k /\ w # None
      BY <1>1, <2>2, WorkerConstants DEF DiagInv, TypeOK, Workers
    <3>2. w \in taken'[p] BY <1>1, <2>2, <3>1 DEF DiagInv, TypeOK
    <3> QED BY <3>2
  <2>3. CASE \E q \in Stoppers : w \in taken[q]
    BY <1>1, <2>3 DEF DiagInv, TypeOK
  <2> QED BY <2>1, <2>2, <2>3
<1>6. SlotsCurrent' /\ SocketOpen'
  BY <1>1 DEF DiagInv, TypeOK, SlotsCurrent, SocketOpen, Running
<1>7. ConnectionKept'
  BY <1>1, WorkerConstants, <1>2 DEF DiagInv, TypeOK, ConnectionKept, Workers, Kinds
<1>8. SocketFacts'
  <2>1. \A q \in Stoppers : \A w \in shut'[q] :
          at[w] \in {"receive", "leave", "none"} /\ socket' # w
    <3> TAKE q \in Stoppers
    <3> TAKE w \in shut'[q]
    <3>1. CASE q = p
      BY <1>1, <3>1 DEF DiagInv, TypeOK, SocketFacts
    <3>2. CASE q # p
      <4>1. w \in shut[q] /\ w # None
        BY <1>1, <3>2, WorkerConstants DEF DiagInv, TypeOK, Workers
      <4> QED BY <1>1, <4>1 DEF DiagInv, SocketFacts
    <3> QED BY <3>1, <3>2
  <2> QED BY <1>1, <2>1 DEF DiagInv, SocketFacts
<1>9. SlotEmptied'
  BY <1>1, <1>2, <1>3 DEF DiagInv, TypeOK, SlotEmptied, Stoppers
<1>10. Holding'
  <2>1. \A q \in Stoppers : \A w \in taken'[q] : \A j \in Kinds : slot'[j] # w
    <3> TAKE q \in Stoppers
    <3> TAKE w \in taken'[q]
    <3> TAKE j \in Kinds
    <3>1. w \in Workers /\ w # None
      BY <1>4, WorkerConstants DEF TypeOK, Workers
    <3>2. CASE q = p
      <4>1. w = slot[k] BY <1>1, <3>2 DEF DiagInv, TypeOK
      <4>2. CASE j = k BY <1>1, <3>1, <4>2 DEF DiagInv, TypeOK
      <4>3. CASE j # k
        BY <1>1, <1>2, <3>1, <4>1, <4>3 DEF DiagInv, TypeOK
      <4> QED BY <4>2, <4>3
    <3>3. CASE q # p
      BY <1>1, <3>1, <3>3 DEF DiagInv, TypeOK, Holding
    <3> QED BY <3>2, <3>3
  <2>2. \A w \in taken'["service"] : at[w] # "none" => slot'[kind[w]] = None
    <3> TAKE w \in taken'["service"]
    <3>1. CASE p = "service"
      <4>1. w = slot[k] /\ w # None BY <1>1, <3>1 DEF DiagInv, TypeOK, Stoppers
      <4>2. kind[w] = k BY <1>2, <4>1 DEF DiagInv, TypeOK
      <4> QED BY <1>1, <1>2, <4>2 DEF DiagInv, TypeOK
    <3>2. CASE p # "service"
      <4>1. w \in taken["service"] /\ w \in Workers
        BY <1>1, <3>2 DEF DiagInv, TypeOK, Stoppers
      <4> QED BY <1>1, <1>2, <4>1 DEF DiagInv, TypeOK, Holding
    <3> QED BY <3>1, <3>2
  <2> QED BY <1>1, <2>1, <2>2 DEF DiagInv, Holding
<1>11. LinkFacts'
  BY <1>1 DEF DiagInv, TypeOK, LinkFacts, Idle, Stoppers
<1>12. SurvivorFacts'
  <2>1. \A w \in Workers : Survives(w)' <=> Survives(w)
    BY <1>1 DEF Survives, Running
  <2>2. CASE p = "gui"
    <3>1. ASSUME NEW w \in Workers, Unreached(w)' PROVE Unreached(w)
      <4>1. w # slot[k]
        BY <1>1, <2>2, <3>1, WorkerConstants DEF DiagInv, TypeOK, Unreached, Stoppers, Workers
      <4>2. ASSUME NEW j \in Left("gui")', j # k PROVE slot[j] # w
        BY <1>1, <2>2, <3>1, <4>2 DEF DiagInv, TypeOK, Unreached
      <4>3. w \notin taken["gui"] BY <1>1, <2>2
      <4> QED BY <1>3, <2>1, <2>2, <3>1, <4>1, <4>2, <4>3 DEF Unreached
    <3>2. ~Idle("gui") BY <1>1, <2>2 DEF Idle
    <3>3. /\ taken'["service"] = taken["service"]
          /\ todo'["service"] = todo["service"] /\ starting' = starting
          /\ command' = command /\ released' = released
      BY <1>1, <2>2 DEF DiagInv, TypeOK, Stoppers
    <3> QED BY <3>1, <3>2, <3>3 DEF DiagInv, SurvivorFacts
  <2>3. CASE p = "service"
    <3>1. /\ todo'["gui"] = todo["gui"] /\ taken'["gui"] = taken["gui"]
          /\ shut'["gui"] = shut["gui"] /\ starting' = starting
          /\ command' = command /\ released' = released
          /\ taken'["service"] = {slot[k]} \ {None}
      BY <1>1, <2>3 DEF DiagInv, TypeOK, Stoppers
    <3>2. Left("gui")' = Left("gui") BY <1>3, <2>3 DEF Stoppers
    <3>3. ASSUME NEW w \in Workers, Unreached(w)', w \notin taken'["service"]
          PROVE  Unreached(w)
      <4>1. w # slot[k]
        BY <3>1, <3>3, WorkerConstants DEF Workers
      <4>2. \A j \in Left("gui") : slot[j] # w
        BY <1>1, <3>2, <3>3, <4>1 DEF DiagInv, TypeOK, Unreached
      <4> QED BY <2>1, <3>1, <3>3, <4>2 DEF Unreached
    <3>4. ASSUME ~Idle("gui"), NEW w \in Workers, Unreached(w)', w \notin taken'["service"]
          PROVE  FALSE
      <4>1. Unreached(w) /\ w \notin taken["service"]
        BY <1>1, <2>3, <3>3, <3>4
      <4> QED BY <1>1, <2>3, <3>4, <4>1 DEF DiagInv, SurvivorFacts
    <3>5. ASSUME Idle("gui"), NEW w \in Workers, Unreached(w)' PROVE Unreached(w)
      <4>1. Left("gui") = {} BY <3>5, StopElems DEF Idle, Left
      <4> QED BY <2>1, <3>1, <3>5, <4>1 DEF Unreached
    <3>6. \A v, w \in Workers : Unreached(v)' /\ Unreached(w)' => v = w
      <4>1. CASE Idle("gui") BY <3>5, <4>1 DEF DiagInv, SurvivorFacts
      <4>2. CASE ~Idle("gui") BY <3>1, <3>4, <4>2
      <4> QED BY <4>1, <4>2
    <3>7. starting # "nothing" /\ command \in released =>
            \A w \in Workers : Unreached(w)' => w \in taken'["service"]
      <4>1. CASE Idle("gui")
        BY <1>1, <2>3, <3>5, <4>1 DEF DiagInv, SurvivorFacts
      <4>2. CASE ~Idle("gui") BY <3>4, <4>2
      <4> QED BY <4>1, <4>2
    <3>8. Idle("gui")' <=> Idle("gui") BY <3>1 DEF Idle
    <3> QED BY <3>1, <3>4, <3>6, <3>7, <3>8 DEF SurvivorFacts
  <2> QED BY <2>2, <2>3 DEF Stoppers
<1> QED BY <1>4, <1>5, <1>6, <1>7, <1>8, <1>9, <1>10, <1>11, <1>12 DEF DiagInv

\* The event of a taken worker is set: it no longer runs.
LEMMA SignalInv ==
    ASSUME DiagInv, NEW p \in Stoppers, Signal(p)
    PROVE  DiagInv'
<1> USE DEF linkVars, slotVars, stopVars, cmdVars
<1>1. /\ stopped' = stopped \cup {w \in taken[p] : at[w] # "none"}
      /\ open' = open \ shut[p]
      /\ taken' = [taken EXCEPT ![p] = {}] /\ shut' = [shut EXCEPT ![p] = {}]
      /\ UNCHANGED <<linkVars, slotVars, cmdVars, at, kind, under, todo>>
      /\ taken[p] # {} \/ shut[p] # {}
  BY DEF Signal
<1>2. TypeOK'
  BY <1>1 DEF DiagInv, TypeOK
<1>3. \A w \in Workers : Running(w)' => Running(w) /\ w \notin taken[p]
  BY <1>1 DEF Running
<1>4. NoWorkerLost'
  BY <1>1, <1>3 DEF DiagInv, TypeOK, NoWorkerLost
<1>5. SlotsCurrent'
  BY <1>1 DEF DiagInv, TypeOK, SlotsCurrent, Holding, Running
<1>6. SocketOpen'
  BY <1>1 DEF DiagInv, TypeOK, SocketOpen, SocketFacts
<1>7. ConnectionKept'
  BY <1>1 DEF DiagInv, ConnectionKept
<1>8. SocketFacts'
  <2>1. \A q \in Stoppers : shut'[q] \subseteq shut[q]
    BY <1>1 DEF DiagInv, TypeOK
  <2>2. \A w \in Workers : at[w] = "join" => w \in open'
    BY <1>1 DEF DiagInv, SocketFacts
  <2> QED BY <1>1, <2>1, <2>2 DEF DiagInv, SocketFacts
<1>9. SlotEmptied' /\ LinkFacts'
  BY <1>1 DEF DiagInv, TypeOK, SlotEmptied, LinkFacts, Idle, Left, Elems, Stoppers
<1>10. Holding'
  <2>1. \A q \in Stoppers : taken'[q] \subseteq taken[q]
    BY <1>1 DEF DiagInv, TypeOK
  <2> QED BY <1>1, <2>1 DEF DiagInv, Holding, Stoppers
<1>11. SurvivorFacts'
  <2>1. ASSUME NEW w \in Workers, Unreached(w)' PROVE Unreached(w) /\ w \notin taken[p]
    BY <1>1, <1>3, <2>1 DEF DiagInv, TypeOK, Unreached, Survives, Left, Elems, Stoppers
  <2>2. \A w \in Workers : Unreached(w)' /\ w \in taken["service"] => w \in taken'["service"]
    BY <1>1, <2>1 DEF DiagInv, TypeOK, Stoppers
  <2>3. Idle("gui") => Idle("gui")'
    BY <1>1 DEF DiagInv, TypeOK, Idle, Stoppers
  <2>4. \A v, w \in Workers : Unreached(v)' /\ Unreached(w)' => v = w
    BY <2>1 DEF DiagInv, SurvivorFacts
  <2>5. starting # "nothing" /\ command \in released =>
          \A w \in Workers : Unreached(w)' => w \in taken'["service"]
    BY <2>1, <2>2 DEF DiagInv, SurvivorFacts
  <2>6. ~Idle("gui")' => \A w \in Workers : Unreached(w)' /\ w \notin taken'["service"] =>
          todo["service"] = <<>> /\ starting = "nothing"
    BY <2>1, <2>2, <2>3 DEF DiagInv, SurvivorFacts
  <2> QED BY <1>1, <2>4, <2>5, <2>6 DEF SurvivorFacts
<1> QED BY <1>2, <1>4, <1>5, <1>6, <1>7, <1>8, <1>9, <1>10, <1>11 DEF DiagInv

-----------------------------------------------------------------------------
(* The service.                                                            *)

Commands ==
    \/ \E t \in Tests : TestBegin(t) \/ UdpUploadStart(t) \/ TcpConnect(t)
    \/ TcpUploadStart \/ TestEnd

\* A command that starts a worker has the worker's slot emptied first, and is of a
\* session that is up.
LEMMA CommandInv ==
    ASSUME DiagInv, Commands
    PROVE  DiagInv'
<1> USE DEF linkVars, slotVars, stopVars, cmdVars
<1>1. PICK stops \in Seq(Kinds), start \in Kinds \cup {"nothing"}, test \in Tests \cup {NoTest} :
        Obey(stops, start, test) /\ (start # "nothing" => start \in Elems(stops))
  <2>1. CASE \E t \in Tests : TestBegin(t)
    BY <2>1, StopElems DEF TestBegin, Kinds
  <2>2. CASE \E t \in Tests : UdpUploadStart(t)
    BY <2>2, StopElems DEF UdpUploadStart, Kinds
  <2>3. CASE \E t \in Tests : TcpConnect(t)
    BY <2>3, StopElems DEF TcpConnect, Kinds
  <2>4. CASE TcpUploadStart
    BY <2>4, StopElems DEF TcpUploadStart, Kinds, DiagInv, TypeOK
  <2>5. CASE TestEnd
    BY <2>5, StopElems DEF TestEnd
  <2> QED BY <2>1, <2>2, <2>3, <2>4, <2>5 DEF Commands
<1>2. /\ connected /\ Idle("service")
      /\ todo' = [todo EXCEPT !["service"] = stops]
      /\ starting' = start /\ active' = test
      /\ command' = IF start = "nothing" THEN 0 ELSE session
      /\ UNCHANGED <<linkVars, slotVars, at, kind, under, stopped, open, taken, shut>>
  BY <1>1 DEF Obey, ServiceFree
<1>3. /\ todo' \in [Stoppers -> Seq(Kinds)] /\ todo'["service"] = stops
      /\ todo'["gui"] = todo["gui"]
  BY <1>2 DEF DiagInv, TypeOK, Stoppers
<1>4. TypeOK'
  BY <1>2, <1>3 DEF DiagInv, TypeOK
<1>5. NoWorkerLost' /\ SlotsCurrent' /\ SocketOpen' /\ ConnectionKept'
  BY <1>2 DEF DiagInv, NoWorkerLost, SlotsCurrent, SocketOpen, ConnectionKept, Running
<1>6. SocketFacts' /\ Holding' /\ LinkFacts'
  BY <1>2, <1>3 DEF DiagInv, SocketFacts, Holding, LinkFacts, Idle
<1>7. SlotEmptied'
  BY <1>1, <1>2, <1>3 DEF SlotEmptied, Left, Elems
<1>8. SurvivorFacts'
  <2>1. Idle("gui")' /\ Idle("gui") BY <1>2, <1>3 DEF DiagInv, LinkFacts, Idle
  <2>2. \A w \in Workers : Unreached(w)' <=> Unreached(w)
    BY <1>2, <1>3 DEF Unreached, Survives, Running, Left, Elems
  <2>3. command' \notin released
    BY <1>2 DEF DiagInv, TypeOK, LinkFacts
  <2> QED BY <1>2, <2>1, <2>2, <2>3 DEF DiagInv, SurvivorFacts
<1> QED BY <1>4, <1>5, <1>6, <1>7, <1>8 DEF DiagInv

\* A worker is registered over an empty slot.  If Disconnect has passed that slot
\* no other worker was missed.
LEMMA RegisterInv ==
    ASSUME DiagInv, NEW w \in Workers, Register(w)
    PROVE  DiagInv'
<1> USE DEF linkVars, slotVars, stopVars, cmdVars
<1>1. /\ Idle("service") /\ starting \in Kinds /\ starting # "nothing" /\ IsFree(w)
      /\ at' = [at EXCEPT ![w] = IF starting = "tcp" THEN "connect" ELSE "check"]
      /\ kind' = [kind EXCEPT ![w] = starting]
      /\ under' = [under EXCEPT ![w] = command]
      /\ slot' = [slot EXCEPT ![starting] = w]
      /\ starting' = "nothing" /\ command' = 0
      /\ UNCHANGED <<linkVars, stopVars, socket, active, stopped, open>>
  BY DEF Register, SlotOf, DiagInv, TypeOK
<1>2. /\ at[w] = "none" /\ w \notin stopped /\ w # None
      /\ \A p \in Stoppers : w \notin taken[p] /\ w \notin shut[p]
  BY <1>1, WorkerConstants DEF IsFree, DiagInv, Holding, Workers
<1>3. /\ slot[starting] = None
      /\ \A k \in Kinds : slot[k] # w
      /\ socket # w
  <2>1. Left("service") = {} BY <1>1, StopElems DEF Idle, Left
  <2>2. slot[starting] = None BY <1>1, <2>1 DEF DiagInv, SlotEmptied
  <2> QED BY <1>2, <2>2 DEF DiagInv, SlotsCurrent, SocketFacts, Running
<1>4. TypeOK'
  <2>1. at' \in [Workers -> Places] BY <1>1 DEF DiagInv, TypeOK, Places
  <2>2. kind' \in [Workers -> Kinds] /\ under' \in [Workers -> 0..granted]
    BY <1>1 DEF DiagInv, TypeOK
  <2>3. slot' \in [Kinds -> Workers \cup {None}] BY <1>1 DEF DiagInv, TypeOK
  <2>4. \A k \in Kinds : slot'[k] # None => kind'[slot'[k]] = k
    BY <1>1, <1>3 DEF DiagInv, TypeOK
  <2>5. socket # None => kind'[socket] = "tcp" BY <1>1, <1>3 DEF DiagInv, TypeOK
  <2>6. command' \in 0..granted /\ starting' \in Kinds \cup {"nothing"}
    BY <1>1 DEF DiagInv, TypeOK
  <2> QED BY <1>1, <2>1, <2>2, <2>3, <2>4, <2>5, <2>6 DEF DiagInv, TypeOK
<1>5. NoWorkerLost'
  <2> SUFFICES ASSUME NEW v \in Workers, Running(v)',
                      \A q \in Stoppers : v \notin taken'[q]
               PROVE  slot'[kind'[v]] = v
    BY DEF NoWorkerLost
  <2>1. CASE v = w BY <1>1, <2>1 DEF DiagInv, TypeOK
  <2>2. CASE v # w
    <3>1. Running(v) /\ kind'[v] = kind[v] BY <1>1, <2>2 DEF DiagInv, TypeOK, Running
    <3>2. slot[kind[v]] = v BY <1>1, <3>1 DEF DiagInv, NoWorkerLost
    <3>3. v # None BY WorkerConstants DEF Workers
    <3>4. kind[v] # starting BY <1>3, <3>2, <3>3
    <3> QED BY <1>1, <3>1, <3>2, <3>4 DEF DiagInv, TypeOK
  <2> QED BY <2>1, <2>2
<1>6. SlotsCurrent'
  <2>1. \A v \in Workers : Running(v) => Running(v)'
    BY <1>1 DEF DiagInv, TypeOK, Running
  <2>2. Running(w)' BY <1>1, <1>2 DEF DiagInv, TypeOK, Running
  <2> QED BY <1>1, <2>1, <2>2 DEF DiagInv, TypeOK, SlotsCurrent
<1>7. SocketOpen'
  BY <1>1 DEF DiagInv, SocketOpen
<1>8. ConnectionKept'
  <2> SUFFICES ASSUME NEW v \in Workers, slot'["tcp"] = v, at'[v] = "receive",
                      connected, under'[v] = session
               PROVE  socket = v
    BY <1>1 DEF ConnectionKept
  <2>1. v # w BY <1>1 DEF DiagInv, TypeOK
  <2>2. slot["tcp"] = v /\ at[v] = "receive" /\ under[v] = session
    BY <1>1, <2>1 DEF DiagInv, TypeOK
  <2> QED BY <2>2 DEF DiagInv, ConnectionKept
<1>9. SocketFacts'
  <2>1. socket # None => at'[socket] \in {"receive", "leave"}
    BY <1>1, <1>3 DEF DiagInv, TypeOK, SocketFacts
  <2>2. \A p \in Stoppers : \A v \in shut[p] :
          at'[v] \in {"receive", "leave", "none"} /\ socket # v
    BY <1>1, <1>2 DEF DiagInv, TypeOK, SocketFacts
  <2>3. \A v \in Workers : at'[v] = "join" => v \in open
    BY <1>1 DEF DiagInv, TypeOK, SocketFacts
  <2>4. \A v \in Workers : at'[v] \in {"connect", "join", "receive"} => kind'[v] = "tcp"
    BY <1>1 DEF DiagInv, TypeOK, SocketFacts
  <2> QED BY <1>1, <2>1, <2>2, <2>3, <2>4 DEF SocketFacts
<1>10. SlotEmptied' /\ LinkFacts'
  BY <1>1 DEF DiagInv, SlotEmptied, LinkFacts, Idle
<1>11. Holding'
  <2>1. \A p \in Stoppers : \A v \in taken[p] : \A k \in Kinds : slot'[k] # v
    BY <1>1, <1>2 DEF DiagInv, TypeOK, Holding
  <2>2. taken["service"] = {} BY <1>1 DEF Idle
  <2>3. \A v \in stopped : at'[v] # "none" BY <1>1, <1>2 DEF DiagInv, TypeOK, Holding
  <2> QED BY <1>1, <2>1, <2>2, <2>3 DEF Holding
<1>12. SurvivorFacts'
  <2>1. ASSUME NEW v \in Workers, v # w, Unreached(v)' PROVE Unreached(v)
    <3>1. Survives(v) /\ v \notin taken["gui"]
      BY <1>1, <2>1 DEF DiagInv, TypeOK, Unreached, Survives, Running
    <3>2. \A k \in Left("gui") : slot[k] # v
      <4> TAKE k \in Left("gui")
      <4>1. k \in Kinds BY DEF DiagInv, TypeOK, Left, Elems, Stoppers
      <4>2. slot'[k] # v BY <1>1, <2>1 DEF Unreached, Left, Elems
      <4>3. v # None BY WorkerConstants DEF Workers
      <4> QED BY <1>1, <1>3, <4>1, <4>2, <4>3 DEF DiagInv, TypeOK
    <3> QED BY <3>1, <3>2 DEF Unreached
  <2>2. taken["service"] = {} /\ todo["service"] = <<>> BY <1>1 DEF Idle
  <2>3. Unreached(w)' => command \in released
    BY <1>1 DEF DiagInv, TypeOK, Unreached, Survives
  <2>4. \A u, v \in Workers : Unreached(u)' /\ Unreached(v)' => u = v
    <3>1. ASSUME Unreached(w)', NEW v \in Workers, v # w, Unreached(v)' PROVE FALSE
      BY <1>1, <2>1, <2>2, <2>3, <3>1 DEF DiagInv, SurvivorFacts
    <3> QED BY <2>1, <3>1 DEF DiagInv, SurvivorFacts
  <2> QED BY <1>1, <2>2, <2>4 DEF SurvivorFacts
<1> QED BY <1>4, <1>5, <1>6, <1>7, <1>8, <1>9, <1>10, <1>11, <1>12 DEF DiagInv

-----------------------------------------------------------------------------
(* The workers.                                                            *)

\* A running worker's moves change neither who runs nor what is registered.
LEMMA MoveInv ==
    ASSUME DiagInv, NEW w \in Workers, NEW place \in {"check", "pick", "send", "leave"},
           at[w] \in {"check", "pick", "send", "connect", "join", "receive"},
           at[w] = "receive" => place = "leave",
           Goes(w, place), UNCHANGED <<slotVars, open>>
    PROVE  DiagInv'
<1> USE DEF linkVars, slotVars, stopVars, cmdVars
<1>1. /\ at' = [at EXCEPT ![w] = place]
      /\ UNCHANGED <<linkVars, slotVars, stopVars, cmdVars, kind, under, stopped, open>>
  BY DEF Goes
<1>2. \A v \in Workers : Running(v)' <=> Running(v)
  BY <1>1 DEF DiagInv, TypeOK, Running
<1>3. TypeOK'
  BY <1>1 DEF DiagInv, TypeOK, Places
<1>4. NoWorkerLost' /\ SlotsCurrent' /\ SocketOpen' /\ ConnectionKept'
  <2>1. NoWorkerLost' BY <1>1, <1>2 DEF DiagInv, NoWorkerLost
  <2>2. SlotsCurrent' BY <1>1, <1>2 DEF DiagInv, TypeOK, SlotsCurrent
  <2>3. SocketOpen' BY <1>1 DEF DiagInv, SocketOpen
  <2>4. ConnectionKept' BY <1>1 DEF DiagInv, TypeOK, ConnectionKept
  <2> QED BY <2>1, <2>2, <2>3, <2>4
<1>5. SocketFacts'
  BY <1>1 DEF DiagInv, TypeOK, SocketFacts
<1>6. SlotEmptied' /\ LinkFacts'
  BY <1>1 DEF DiagInv, SlotEmptied, LinkFacts, Idle, Left, Elems
<1>7. Holding'
  BY <1>1 DEF DiagInv, TypeOK, Holding
<1>8. SurvivorFacts'
  <2>1. \A v \in Workers : Unreached(v)' <=> Unreached(v)
    BY <1>1, <1>2 DEF Unreached, Survives, Left, Elems
  <2> QED BY <1>1, <2>1 DEF DiagInv, SurvivorFacts, Idle
<1> QED BY <1>3, <1>4, <1>5, <1>6, <1>7, <1>8 DEF DiagInv

\* A session that connects has an open connection of its own, not yet registered.
LEMMA OpenInv ==
    ASSUME DiagInv, NEW w \in Workers, OpenConnection(w)
    PROVE  DiagInv'
<1> USE DEF linkVars, slotVars, stopVars, cmdVars
<1>1. CASE Goes(w, "leave") /\ UNCHANGED <<slotVars, open>>
  BY <1>1, MoveInv DEF OpenConnection
<1>2. CASE Goes(w, "join") /\ open' = open \cup {w} /\ UNCHANGED slotVars
  <2>1. /\ at[w] = "connect" /\ at' = [at EXCEPT ![w] = "join"]
        /\ open' = open \cup {w}
        /\ UNCHANGED <<linkVars, slotVars, stopVars, cmdVars, kind, under, stopped>>
    BY <1>2 DEF OpenConnection, Goes
  <2>2. \A v \in Workers : Running(v)' <=> Running(v)
    BY <2>1 DEF DiagInv, TypeOK, Running
  <2>3. TypeOK' BY <2>1 DEF DiagInv, TypeOK, Places
  <2>4. NoWorkerLost' BY <2>1, <2>2 DEF DiagInv, NoWorkerLost
  <2>5. SlotsCurrent' BY <2>1, <2>2 DEF DiagInv, TypeOK, SlotsCurrent
  <2>6. SocketOpen' /\ ConnectionKept'
    BY <2>1 DEF DiagInv, TypeOK, SocketOpen, ConnectionKept
  <2>7. SocketFacts' BY <2>1 DEF DiagInv, TypeOK, SocketFacts
  <2>8. SlotEmptied' /\ LinkFacts'
    BY <2>1 DEF DiagInv, SlotEmptied, LinkFacts, Idle, Left, Elems
  <2>9. Holding' BY <2>1 DEF DiagInv, TypeOK, Holding
  <2>10. SurvivorFacts'
    <3>1. \A v \in Workers : Unreached(v)' <=> Unreached(v)
      BY <2>1, <2>2 DEF Unreached, Survives, Left, Elems
    <3> QED BY <2>1, <3>1 DEF DiagInv, SurvivorFacts, Idle
  <2> QED BY <2>3, <2>4, <2>5, <2>6, <2>7, <2>8, <2>9, <2>10 DEF DiagInv
<1> QED BY <1>1, <1>2 DEF OpenConnection

\* A session that registers its connection was not stopped.  If it is not the
\* registered one a thread is stopping it: the service, and then no session is
\* registered, or the GUI, and then the link is down.
LEMMA JoinInv ==
    ASSUME DiagInv, NEW w \in Workers, Join(w)
    PROVE  DiagInv'
<1> USE DEF linkVars, slotVars, stopVars, cmdVars
<1>1. CASE w \in stopped
  BY <1>1, MoveInv DEF Join
<1>2. CASE w \notin stopped
  <2>1. /\ at[w] = "join" /\ at' = [at EXCEPT ![w] = "receive"] /\ socket' = w
        /\ UNCHANGED <<linkVars, slot, stopVars, cmdVars, kind, under, stopped, open>>
    BY <1>2 DEF Join, Goes
  <2>2. \A v \in Workers : Running(v)' <=> Running(v)
    BY <2>1 DEF DiagInv, TypeOK, Running
  <2>3. kind[w] = "tcp" /\ w \in open BY <2>1 DEF DiagInv, SocketFacts
  <2>4. TypeOK' BY <2>1, <2>3 DEF DiagInv, TypeOK, Places
  <2>5. NoWorkerLost' BY <2>1, <2>2 DEF DiagInv, NoWorkerLost
  <2>6. SlotsCurrent' BY <2>1, <2>2 DEF DiagInv, TypeOK, SlotsCurrent
  <2>7. SocketOpen' BY <2>1, <2>3 DEF SocketOpen
  <2>8. ConnectionKept'
    <3> SUFFICES ASSUME NEW v \in Workers, slot["tcp"] = v, connected, v # w
                 PROVE  FALSE
      BY <2>1 DEF ConnectionKept
    <3>1. Running(w) /\ slot[kind[w]] # w
      BY <1>2, <2>1, <2>3 DEF Running
    <3>2. PICK p \in Stoppers : w \in taken[p] BY <3>1 DEF DiagInv, NoWorkerLost
    <3>3. taken["gui"] = {} BY DEF DiagInv, LinkFacts, Idle
    <3>4. w \in taken["service"] BY <3>2, <3>3 DEF Stoppers
    <3>5. slot["tcp"] = None BY <2>1, <2>3, <3>4 DEF DiagInv, Holding
    <3> QED BY <3>5, WorkerConstants DEF Workers
  <2>9. SocketFacts'
    BY <2>1 DEF DiagInv, TypeOK, SocketFacts
  <2>10. SlotEmptied' /\ LinkFacts'
    BY <2>1 DEF DiagInv, SlotEmptied, LinkFacts, Idle, Left, Elems
  <2>11. Holding' BY <2>1 DEF DiagInv, TypeOK, Holding
  <2>12. SurvivorFacts'
    <3>1. \A v \in Workers : Unreached(v)' <=> Unreached(v)
      BY <2>1, <2>2 DEF Unreached, Survives, Left, Elems
    <3> QED BY <2>1, <3>1 DEF DiagInv, SurvivorFacts, Idle
  <2> QED BY <2>4, <2>5, <2>6, <2>7, <2>8, <2>9, <2>10, <2>11, <2>12 DEF DiagInv
<1> QED BY <1>1, <1>2

\* A worker that ends clears its own registration only.
LEMMA LeaveInv ==
    ASSUME DiagInv, NEW w \in Workers, Leave(w)
    PROVE  DiagInv'
<1> USE DEF linkVars, slotVars, stopVars, cmdVars
<1>1. /\ at[w] = "leave" /\ at' = [at EXCEPT ![w] = "none"]
      /\ slot' = [slot EXCEPT ![kind[w]] = IF slot[kind[w]] = w THEN None ELSE slot[kind[w]]]
      /\ socket' = IF socket = w THEN None ELSE socket
      /\ kind' = [kind EXCEPT ![w] = "udp"] /\ under' = [under EXCEPT ![w] = 0]
      /\ stopped' = stopped \ {w} /\ open' = open \ {w}
      /\ UNCHANGED <<linkVars, stopVars, cmdVars>>
  BY DEF Leave, Unregistered
<1>2. w # None /\ kind[w] \in Kinds BY WorkerConstants DEF Workers, DiagInv, TypeOK
<1>3. \A v \in Workers : v # w =>
        /\ Running(v)' <=> Running(v)
        /\ at'[v] = at[v] /\ kind'[v] = kind[v] /\ under'[v] = under[v]
        /\ \A k \in Kinds : slot'[k] = v <=> slot[k] = v
        /\ socket' = v <=> socket = v
  <2> SUFFICES ASSUME NEW v \in Workers, v # w
               PROVE  /\ Running(v)' <=> Running(v)
                      /\ at'[v] = at[v] /\ kind'[v] = kind[v] /\ under'[v] = under[v]
                      /\ \A k \in Kinds : slot'[k] = v <=> slot[k] = v
                      /\ socket' = v <=> socket = v
    OBVIOUS
  <2>1. v # None BY WorkerConstants DEF Workers
  <2>2. /\ at'[v] = at[v] /\ kind'[v] = kind[v] /\ under'[v] = under[v]
        /\ Running(v)' <=> Running(v)
    BY <1>1 DEF DiagInv, TypeOK, Running
  <2>3. \A k \in Kinds : slot'[k] = v <=> slot[k] = v
    BY <1>1, <1>2, <2>1 DEF DiagInv, TypeOK
  <2>4. socket' = v <=> socket = v BY <1>1, <2>1
  <2> QED BY <2>2, <2>3, <2>4
<1>4. \A k \in Kinds : slot'[k] # w
  <2> TAKE k \in Kinds
  <2>1. CASE k = kind[w] BY <1>1, <1>2, <2>1 DEF DiagInv, TypeOK
  <2>2. CASE k # kind[w]
    <3>1. slot[k] # w BY <1>2, <2>2 DEF DiagInv, TypeOK
    <3> QED BY <1>1, <2>2, <3>1 DEF DiagInv, TypeOK
  <2> QED BY <2>1, <2>2
<1>5. socket' # w /\ ~Running(w)' /\ at'[w] = "none" /\ kind'[w] = "udp"
  BY <1>1, <1>2 DEF DiagInv, TypeOK, Running
<1>6. TypeOK'
  <2>1. /\ at' \in [Workers -> Places] /\ kind' \in [Workers -> Kinds]
        /\ under' \in [Workers -> 0..granted]
    BY <1>1 DEF DiagInv, TypeOK, Places, Kinds
  <2>2. slot' \in [Kinds -> Workers \cup {None}] /\ socket' \in Workers \cup {None}
    BY <1>1 DEF DiagInv, TypeOK
  <2>3. \A k \in Kinds : slot'[k] # None => kind'[slot'[k]] = k
    BY <1>3, <1>4, <2>2 DEF DiagInv, TypeOK
  <2>4. socket' # None => kind'[socket'] = "tcp"
    BY <1>3, <1>5, <2>2 DEF DiagInv, TypeOK
  <2>5. stopped' \subseteq Workers /\ open' \subseteq Workers BY <1>1 DEF DiagInv, TypeOK
  <2> QED BY <1>1, <2>1, <2>2, <2>3, <2>4, <2>5 DEF DiagInv, TypeOK
<1>7. NoWorkerLost'
  BY <1>1, <1>3, <1>5 DEF DiagInv, TypeOK, NoWorkerLost
<1>8. SlotsCurrent'
  BY <1>3, <1>4, <1>6 DEF DiagInv, TypeOK, SlotsCurrent
<1>9. SocketOpen'
  BY <1>1, <1>3, <1>5, <1>6 DEF DiagInv, TypeOK, SocketOpen
<1>10. ConnectionKept'
  BY <1>1, <1>3, <1>5, "tcp" \in Kinds DEF DiagInv, ConnectionKept, Kinds
<1>11. SocketFacts'
  <2>1. socket' # None => at'[socket'] \in {"receive", "leave"}
    BY <1>3, <1>5, <1>6 DEF DiagInv, TypeOK, SocketFacts
  <2>2. \A p \in Stoppers : \A v \in shut[p] :
          at'[v] \in {"receive", "leave", "none"} /\ socket' # v
    <3> TAKE p \in Stoppers
    <3> TAKE v \in shut[p]
    <3>1. v \in Workers BY DEF DiagInv, TypeOK
    <3> QED BY <1>3, <1>5, <3>1 DEF DiagInv, SocketFacts
  <2>3. \A v \in Workers : at'[v] = "join" => v \in open'
    BY <1>1, <1>3, <1>5 DEF DiagInv, SocketFacts
  <2>4. \A v \in Workers : at'[v] \in {"connect", "join", "receive"} => kind'[v] = "tcp"
    BY <1>3, <1>5 DEF DiagInv, SocketFacts
  <2> QED BY <1>1, <2>1, <2>2, <2>3, <2>4 DEF SocketFacts
<1>12. SlotEmptied' /\ LinkFacts'
  <2>1. starting # "nothing" => slot'[starting] = None \/ starting \in Left("service")
    BY <1>1 DEF DiagInv, TypeOK, SlotEmptied
  <2> QED BY <1>1, <2>1 DEF DiagInv, SlotEmptied, LinkFacts, Idle, Left, Elems
<1>13. Holding'
  <2>1. \A p \in Stoppers : \A v \in taken[p] : \A k \in Kinds : slot'[k] # v
    <3> TAKE p \in Stoppers
    <3> TAKE v \in taken[p]
    <3>1. v \in Workers BY DEF DiagInv, TypeOK
    <3> QED BY <1>3, <1>4, <3>1 DEF DiagInv, Holding
  <2>2. \A v \in taken["service"] : at'[v] # "none" => slot'[kind'[v]] = None
    <3> TAKE v \in taken["service"]
    <3>1. v \in Workers BY DEF DiagInv, TypeOK, Stoppers
    <3>2. CASE v = w BY <1>5, <3>2
    <3>3. CASE v # w
      <4>1. at'[v] # "none" => slot[kind[v]] = None
        BY <1>3, <3>1, <3>3 DEF DiagInv, Holding
      <4> QED BY <1>1, <1>3, <3>1, <3>3, <4>1 DEF DiagInv, TypeOK
    <3> QED BY <3>2, <3>3
  <2>3. \A v \in stopped' : at'[v] # "none"
    BY <1>1, <1>3 DEF DiagInv, TypeOK, Holding
  <2> QED BY <1>1, <2>1, <2>2, <2>3 DEF Holding
<1>14. SurvivorFacts'
  <2>1. ASSUME NEW v \in Workers, Unreached(v)' PROVE Unreached(v)
    <3>1. v # w BY <1>5, <2>1 DEF Unreached, Survives
    <3>2. \A k \in Left("gui") : k \in Kinds
      BY DEF DiagInv, TypeOK, Left, Elems, Stoppers
    <3> QED BY <1>1, <1>3, <2>1, <3>1, <3>2 DEF Unreached, Survives, Left, Elems
  <2> QED BY <1>1, <2>1 DEF DiagInv, SurvivorFacts, Idle
<1> QED BY <1>6, <1>7, <1>8, <1>9, <1>10, <1>11, <1>12, <1>13, <1>14 DEF DiagInv

-----------------------------------------------------------------------------
LEMMA InitInv == Init => DiagInv
<1> SUFFICES ASSUME Init PROVE DiagInv
  OBVIOUS
<1>1. TypeOK
  <2>1. granted \in 0..MaxSessions BY WorkerConstants DEF Init
  <2>2. todo \in [Stoppers -> Seq(Kinds)] BY DEF Init
  <2>3. taken \in [Stoppers -> SUBSET Workers] /\ shut \in [Stoppers -> SUBSET Workers]
    BY DEF Init
  <2>4. /\ at \in [Workers -> Places] /\ kind \in [Workers -> Kinds]
        /\ under \in [Workers -> 0..granted]
    BY DEF Init, Places, Kinds
  <2>5. /\ slot \in [Kinds -> Workers \cup {None}]
        /\ \A k \in Kinds : slot[k] # None => kind[slot[k]] = k
    BY DEF Init
  <2>6. \A p \in Stoppers : \A v, w \in taken[p] : v = w BY DEF Init
  <2>7. /\ connected \in BOOLEAN /\ session \in 0..granted /\ command \in 0..granted
        /\ released \subseteq 1..granted
    <3>1. connected = FALSE /\ session = 0 /\ command = 0 /\ granted = 0 /\ released = {}
      BY DEF Init
    <3>2. 0 \in 0..0 OBVIOUS
    <3> QED BY <3>1, <3>2
  <2>8. /\ active \in Tests \cup {NoTest} /\ starting \in Kinds \cup {"nothing"}
        /\ socket \in Workers \cup {None} /\ (socket # None => kind[socket] = "tcp")
        /\ stopped \subseteq Workers /\ open \subseteq Workers
    BY DEF Init
  <2> QED BY <2>1, <2>2, <2>3, <2>4, <2>5, <2>6, <2>7, <2>8 DEF TypeOK
<1>2. NoWorkerLost /\ SlotsCurrent /\ SocketOpen /\ ConnectionKept
  BY DEF Init, NoWorkerLost, SlotsCurrent, SocketOpen, ConnectionKept, Running
<1>3. SocketFacts /\ SlotEmptied /\ Holding /\ LinkFacts
  BY DEF Init, SocketFacts, SlotEmptied, Holding, LinkFacts, Stoppers
<1>4. SurvivorFacts
  BY DEF Init, SurvivorFacts, Unreached, Survives, Running
<1> QED BY <1>1, <1>2, <1>3, <1>4 DEF DiagInv

LEMMA NextInv == DiagInv /\ [Next]_vars => DiagInv'
<1> SUFFICES ASSUME DiagInv, [Next]_vars PROVE DiagInv'
  OBVIOUS
<1>1. CASE SessionAccept \/ LinkTimeout \/ StartConnectAttempt BY <1>1, LinkInv
<1>2. CASE DisconnectNfv3 BY <1>2, DisconnectInv
<1>3. CASE \E p \in Stoppers : Take(p) \/ Signal(p) BY <1>3, TakeInv, SignalInv
<1>4. CASE Commands BY <1>4, CommandInv
<1>5. CASE \E w \in Workers : Register(w) BY <1>5, RegisterInv
<1>6. ASSUME NEW w \in Workers, Progress(w) \/ StageOver(w) \/ PeerCloses(w)
      PROVE  DiagInv'
  <2>1. CASE CheckStop(w)
    <3>1. CASE Goes(w, "leave") BY <2>1, <3>1, MoveInv DEF CheckStop
    <3>2. CASE Goes(w, "send") BY <2>1, <3>2, MoveInv DEF CheckStop
    <3>3. CASE Goes(w, "pick") BY <2>1, <3>3, MoveInv DEF CheckStop
    <3> QED BY <2>1, <3>1, <3>2, <3>3 DEF CheckStop
  <2>2. CASE PickSocket(w)
    <3>1. CASE Goes(w, "check") BY <2>2, <3>1, MoveInv DEF PickSocket
    <3>2. CASE Goes(w, "send") BY <2>2, <3>2, MoveInv DEF PickSocket
    <3> QED BY <2>2, <3>1, <3>2 DEF PickSocket
  <2>3. CASE Send(w)
    <3>1. CASE Goes(w, "check") BY <2>3, <3>1, MoveInv DEF Send
    <3>2. CASE Goes(w, "leave") BY <2>3, <3>2, MoveInv DEF Send
    <3> QED BY <2>3, <3>1, <3>2 DEF Send
  <2>4. CASE OpenConnection(w) BY <2>4, OpenInv
  <2>5. CASE Join(w) BY <2>5, JoinInv
  <2>6. CASE ReceiveEnds(w) \/ StageOver(w) \/ PeerCloses(w)
    BY <2>6, MoveInv DEF ReceiveEnds, StageOver, PeerCloses
  <2>7. CASE Leave(w) BY <2>7, LeaveInv
  <2> QED BY <1>6, <2>1, <2>2, <2>3, <2>4, <2>5, <2>6, <2>7 DEF Progress
<1>7. CASE UNCHANGED vars
  <2>1. UNCHANGED <<connected, session, granted, released, slot, socket, todo, taken, shut,
                    active, starting, command, at, kind, under, stopped, open>>
    BY <1>7 DEF vars, linkVars, slotVars, stopVars, cmdVars
  <2>2. TypeOK' /\ NoWorkerLost' /\ SlotsCurrent' /\ SocketOpen' /\ ConnectionKept'
    BY <2>1 DEF DiagInv, TypeOK, NoWorkerLost, SlotsCurrent, SocketOpen, ConnectionKept, Running
  <2>3. SocketFacts' /\ SlotEmptied' /\ Holding' /\ LinkFacts'
    BY <2>1 DEF DiagInv, SocketFacts, SlotEmptied, Holding, LinkFacts, Idle, Left, Elems
  <2>4. SurvivorFacts'
    BY <2>1 DEF DiagInv, SurvivorFacts, Unreached, Survives, Running, Idle, Left, Elems
  <2> QED BY <2>2, <2>3, <2>4 DEF DiagInv
<1> QED BY <1>1, <1>2, <1>3, <1>4, <1>5, <1>6, <1>7 DEF Next, Commands

LEMMA SpecInv == Spec => []DiagInv
<1> QED BY InitInv, NextInv, PTL DEF Spec

-----------------------------------------------------------------------------
(* Theorems.                                                               *)

\* Types of the workers' state; a slot holds its own kind of worker and a thread
\* holds one stop event at most.
THEOREM TypeCorrect == Spec => []TypeOK
<1>1. DiagInv => TypeOK BY DEF DiagInv
<1> QED BY <1>1, SpecInv, PTL

\* Every running worker is registered or about to be told to stop.
THEOREM WorkersAreKnown == Spec => []NoWorkerLost
<1>1. DiagInv => NoWorkerLost BY DEF DiagInv
<1> QED BY <1>1, SpecInv, PTL

\* Registered workers run.
THEOREM RegisteredRun == Spec => []SlotsCurrent
<1>1. DiagInv => SlotsCurrent BY DEF DiagInv
<1> QED BY <1>1, SpecInv, PTL

\* The registered connection is open.
THEOREM RegisteredIsOpen == Spec => []SocketOpen
<1>1. DiagInv => SocketOpen BY DEF DiagInv
<1> QED BY <1>1, SpecInv, PTL

\* A thread that takes the worker lock finds workers it can rely on.
THEOREM RegistryIsSound == Spec => []RegistrySound
<1>1. DiagInv => RegistrySound BY DEF DiagInv, RegistrySound
<1> QED BY <1>1, SpecInv, PTL

\* A late connection does not replace the session's.
THEOREM ConnectionStays == Spec => []ConnectionKept
<1>1. DiagInv => ConnectionKept BY DEF DiagInv
<1> QED BY <1>1, SpecInv, PTL

\* Disconnect leaves at most one worker behind.
THEOREM DisconnectStops == Spec => []OneSurvivor
<1>1. DiagInv => OneSurvivor
  <2> SUFFICES ASSUME DiagInv, Idle("gui"), NEW v \in Workers, NEW w \in Workers,
                      Survives(v), Survives(w)
               PROVE  v = w
    BY DEF OneSurvivor
  <2>1. Left("gui") = {} /\ taken["gui"] = {} BY StopElems DEF Idle, Left
  <2>2. Unreached(v) /\ Unreached(w) BY <2>1 DEF Unreached
  <2> QED BY <2>2 DEF DiagInv, SurvivorFacts
<1> QED BY <1>1, SpecInv, PTL


-----------------------------------------------------------------------------
(* Numbers on the wire.                                                    *)

LEMMA Remainder ==
  ASSUME NEW a \in Int, NEW k \in Int, NEW r \in 0..Wrap - 1, a = k * Wrap + r
  PROVE  a % Wrap = r
<1>1. Wrap \in Nat /\ Wrap > 0
  BY CounterConstants
<1> DEFINE q == a \div Wrap
           s == a % Wrap
<1>2. q \in Int /\ s \in 0..Wrap - 1 /\ a = q * Wrap + s
  BY <1>1
<1> HIDE DEF q, s
<1>3. (k - q) * Wrap = s - r
  BY <1>1, <1>2
<1>4. ~ k - q >= 1
  <2>1. k - q >= 1 => (k - q) * Wrap >= Wrap
    BY <1>1, <1>2
  <2>2. QED
    BY <1>1, <1>2, <1>3, <2>1
<1>5. ~ q - k >= 1
  <2>1. q - k >= 1 => (q - k) * Wrap >= Wrap
    BY <1>1, <1>2
  <2>2. (q - k) * Wrap = r - s
    BY <1>1, <1>2
  <2>3. QED
    BY <1>1, <1>2, <2>1, <2>2
<1>6. k = q
  BY <1>2, <1>4, <1>5
<1>7. QED
  BY <1>1, <1>2, <1>3, <1>6 DEF s

\* A number on the wire is the number less some turns.
LEMMA Turns ==
  ASSUME NEW n \in Nat
  PROVE  n % Wrap \in 0..Wrap - 1 /\ \E k \in Int : n = k * Wrap + (n % Wrap)
<1>1. Wrap \in Nat /\ Wrap > 0
  BY CounterConstants
<1>2. n \div Wrap \in Int /\ n % Wrap \in 0..Wrap - 1 /\ n = (n \div Wrap) * Wrap + (n % Wrap)
  BY <1>1
<1>3. QED
  BY <1>2

LEMMA HalfWay == Wrap \in Nat /\ Wrap >= 4 /\ Wrap \div 2 \in Nat /\ Wrap = 2 * (Wrap \div 2)
BY CounterConstants

\* Of two numbers that are near, the counters keep the greater and count those
\* between them.
LEMMA AdvanceIsExact ==
  ASSUME NEW n \in Nat, NEW g \in Nat, n - g < Wrap \div 2, g - n <= Wrap \div 2
  PROVE  AdvanceSequenceCounter(n % Wrap, g % Wrap) =
           IF n > g THEN <<n % Wrap, n - g - 1>> ELSE <<g % Wrap, 0>>
<1> DEFINE a == n % Wrap
           b == g % Wrap
           forward == (a - b) % Wrap
<1>1. PICK i \in Int : n = i * Wrap + a
  BY Turns
<1>2. PICK j \in Int : g = j * Wrap + b
  BY Turns
<1>3. a \in 0..Wrap - 1 /\ b \in 0..Wrap - 1
  BY Turns
<1>4. a % Wrap = a
  <2>1. a \in Int /\ a = 0 * Wrap + a
    BY <1>3, HalfWay
  <2> HIDE DEF a
  <2>2. QED
    BY <1>3, <2>1, Remainder
<1>5. b # Unseen
  BY <1>3 DEF Unseen
<1> HIDE DEF a, b
<1>6. a - b = (j - i) * Wrap + (n - g)
  BY <1>1, <1>2, <1>3, HalfWay
<1>7. CASE n >= g
  <2>1. forward = n - g
    BY <1>3, <1>6, <1>7, HalfWay, Remainder
  <2> HIDE DEF forward
  <2>2. QED
    BY <1>4, <1>5, <1>7, <2>1, HalfWay DEF AdvanceSequenceCounter, forward, a, b
<1>8. CASE n < g
  <2>1. a - b = (j - i - 1) * Wrap + (Wrap + n - g)
    BY <1>3, <1>6, HalfWay
  <2>2. Wrap + n - g \in 0..Wrap - 1
    BY <1>8, HalfWay
  <2>3. forward = Wrap + n - g
    BY <1>3, <2>1, <2>2, HalfWay, Remainder
  <2> HIDE DEF forward
  <2>4. forward >= Wrap \div 2
    BY <1>8, <2>3, HalfWay
  <2>5. QED
    BY <1>4, <1>5, <1>8, <2>4, HalfWay DEF AdvanceSequenceCounter, forward, a, b
<1>9. QED
  BY <1>7, <1>8

-----------------------------------------------------------------------------
(* What a report should say, as another number arrives.                    *)

LEMMA MaxIs ==
  ASSUME NEW D \in SUBSET Int, NEW x \in D, \A y \in D : x >= y
  PROVE  Max(D) = x
<1>1. Max(D) \in D /\ \A y \in D : Max(D) >= y
  BY Zenon DEF Max
<1>2. Max(D) >= x /\ x >= Max(D) /\ x \in Int /\ Max(D) \in Int
  BY <1>1
<1>3. QED
  BY <1>2

LEMMA MaxBounds ==
  ASSUME NEW D \in SUBSET Int, IsFiniteSet(D), D # {}
  PROVE  Max(D) \in D /\ \A y \in D : Max(D) >= y
BY GreatestExists, Zenon DEF Max

LEMMA NumbersAre ==
  ASSUME NEW numbers \in Seq(Nat)
  PROVE  /\ Len(numbers) \in Nat /\ DOMAIN numbers = 1..Len(numbers)
         /\ \A i \in 1..Len(numbers) : numbers[i] \in Nat
         /\ numbers = <<>> <=> Len(numbers) = 0
BY EmptySeq, LenProperties, ElementOfSeq

LEMMA GreatestBounds ==
  ASSUME NEW numbers \in Seq(Nat), numbers # <<>>
  PROVE  /\ Greatest(numbers) \in Nat
         /\ \E i \in 1..Len(numbers) : numbers[i] = Greatest(numbers)
         /\ \A i \in 1..Len(numbers) : numbers[i] <= Greatest(numbers)
<1> DEFINE D == ToSet(numbers)
<1>1. D = {numbers[i] : i \in 1..Len(numbers)}
  BY NumbersAre DEF ToSet
<1>2. D \in SUBSET Int /\ D # {}
  BY <1>1, NumbersAre
<1>3. IsFiniteSet(D)
  <2>1. IsFiniteSet(1..Len(numbers)) /\ DOMAIN numbers = 1..Len(numbers)
    BY NumbersAre, FS_Interval
  <2>2. QED
    BY <1>1, <2>1, ImageIsFinite
<1> HIDE DEF D
<1>4. Max(D) \in D /\ \A y \in D : Max(D) >= y
  BY <1>2, <1>3, MaxBounds
<1>5. Greatest(numbers) = Max(D)
  BY DEF D, Greatest
<1>6. QED
  BY <1>1, <1>4, <1>5, NumbersAre

LEMMA AppendIs ==
  ASSUME NEW numbers \in Seq(Nat), NEW n \in Nat
  PROVE  /\ Append(numbers, n) \in Seq(Nat) /\ Append(numbers, n) # <<>>
         /\ Len(Append(numbers, n)) = Len(numbers) + 1
         /\ \A i \in 1..Len(numbers) : Append(numbers, n)[i] = numbers[i]
         /\ Append(numbers, n)[Len(numbers) + 1] = n
BY AppendProperties

\* A number of a sequence that no other exceeds is the greatest.
LEMMA GreatestIs ==
  ASSUME NEW numbers \in Seq(Nat), NEW g \in Nat,
         \E i \in 1..Len(numbers) : numbers[i] = g, \A i \in 1..Len(numbers) : numbers[i] <= g
  PROVE  Greatest(numbers) = g
<1>1. ToSet(numbers) = {numbers[i] : i \in 1..Len(numbers)}
  BY NumbersAre DEF ToSet
<1>2. ToSet(numbers) \in SUBSET Int /\ g \in ToSet(numbers) /\ \A y \in ToSet(numbers) : g >= y
  BY <1>1, NumbersAre
<1>3. QED
  BY <1>2, MaxIs DEF Greatest

LEMMA GreatestOfAppend ==
  ASSUME NEW numbers \in Seq(Nat), NEW n \in Nat
  PROVE  Greatest(Append(numbers, n)) =
           IF numbers = <<>> \/ n > Greatest(numbers) THEN n ELSE Greatest(numbers)
<1> DEFINE more == Append(numbers, n)
           k == Len(numbers)
<1>1. /\ more \in Seq(Nat) /\ Len(more) = k + 1 /\ k \in Nat /\ more[k + 1] = n
      /\ \A i \in 1..k : more[i] = numbers[i] /\ numbers[i] \in Nat
  BY AppendIs, NumbersAre
<1>2. \A i \in 1..k + 1 : i \in 1..k \/ i = k + 1
  BY <1>1
<1> HIDE DEF more
<1>3. CASE numbers = <<>>
  <2>1. k = 0
    BY <1>3, NumbersAre
  <2>2. (\E i \in 1..Len(more) : more[i] = n) /\ \A i \in 1..Len(more) : more[i] <= n
    BY <1>1, <2>1
  <2>3. Greatest(more) = n
    BY <1>1, <2>2, GreatestIs
  <2>4. QED
    BY <1>3, <2>3 DEF more
<1>4. CASE numbers # <<>>
  <2>1. PICK g \in Nat : g = Greatest(numbers)
    BY <1>4, GreatestBounds
  <2>2. (\E i \in 1..k : numbers[i] = g) /\ \A i \in 1..k : numbers[i] <= g
    BY <1>4, <2>1, GreatestBounds
  <2>3. CASE n > g
    <3>1. \A i \in 1..k : more[i] <= n
      <4>1. ASSUME NEW i \in 1..k PROVE more[i] <= n
        <5>1. more[i] \in Nat /\ more[i] <= g
          BY <1>1, <2>2
        <5>2. QED
          BY <2>1, <2>3, <5>1
      <4>2. QED
        BY <4>1
    <3>2. \A i \in 1..Len(more) : more[i] <= n
      BY <1>1, <1>2, <3>1
    <3>3. \E i \in 1..Len(more) : more[i] = n
      <4>1. k + 1 \in 1..Len(more)
        BY <1>1
      <4>2. QED
        BY <1>1, <4>1
    <3>4. Greatest(more) = n
      BY <1>1, <3>2, <3>3, GreatestIs
    <3>5. QED
      BY <2>1, <2>3, <3>4 DEF more
  <2>4. CASE ~(n > g)
    <3>1. \A i \in 1..k : more[i] <= g
      BY <1>1, <2>2
    <3>2. \A i \in 1..Len(more) : more[i] <= g
      BY <1>1, <1>2, <2>4, <3>1
    <3>3. \E i \in 1..Len(more) : more[i] = g
      <4>1. PICK i \in 1..k : numbers[i] = g
        BY <2>2
      <4>2. i \in 1..Len(more) /\ more[i] = g
        BY <1>1, <4>1
      <4>3. QED
        BY <4>2
    <3>4. Greatest(more) = g
      BY <1>1, <2>1, <3>2, <3>3, GreatestIs
    <3>5. QED
      BY <1>4, <2>1, <2>4, <3>4 DEF more
  <2>5. QED
    BY <2>3, <2>4
<1>5. QED
  BY <1>3, <1>4
\* The number m had not come when a greater one came, or has not come.
Skipped(numbers, m) ==
    \A i \in 1..Len(numbers) : numbers[i] = m => \E j \in 1..i - 1 : numbers[j] > m

LEMMA MissedAre ==
  ASSUME NEW numbers \in Seq(Nat)
  PROVE  Missed(numbers) = {m \in numbers[1]..Greatest(numbers) : Skipped(numbers, m)}
BY NumbersAre DEF Missed, Skipped

LEMMA SkippedOfAppend ==
  ASSUME NEW numbers \in Seq(Nat), NEW n \in Nat, NEW m \in Nat
  PROVE  Skipped(Append(numbers, n), m) <=>
           Skipped(numbers, m) /\ (m = n => \E j \in 1..Len(numbers) : numbers[j] > n)
<1> DEFINE more == Append(numbers, n)
           k == Len(numbers)
<1>1. /\ Len(more) = k + 1 /\ k \in Nat /\ more[k + 1] = n
      /\ \A i \in 1..k : more[i] = numbers[i]
  BY AppendIs, NumbersAre
<1>2. \A i \in 1..k + 1 : i \in 1..k \/ i = k + 1
  BY <1>1
<1>3. \A i \in 1..k : i \in 1..k + 1
  BY <1>1
<1>4. k + 1 \in 1..k + 1 /\ k + 1 - 1 = k
  BY <1>1
<1> HIDE DEF more
<1> DEFINE Before(s, i) == \E j \in 1..i - 1 : s[j] > m
<1>5. \A i \in 1..k : Before(more, i) <=> Before(numbers, i)
  <2>1. \A i \in 1..k : \A j \in 1..i - 1 : j \in 1..k
    BY <1>1
  <2>2. QED
    BY <1>1, <2>1
<1>6. Before(more, k + 1) <=> \E j \in 1..k : numbers[j] > m
  BY <1>1, <1>4
<1>7. Skipped(more, m) <=> \A i \in 1..k + 1 : more[i] = m => Before(more, i)
  BY <1>1 DEF Skipped
<1>8. Skipped(numbers, m) <=> \A i \in 1..k : numbers[i] = m => Before(numbers, i)
  BY DEF Skipped
<1> HIDE DEF Before, k
<1>9. Skipped(more, m) <=> /\ \A i \in 1..k : more[i] = m => Before(more, i)
                           /\ more[k + 1] = m => Before(more, k + 1)
  BY <1>2, <1>3, <1>4, <1>7, Zenon
<1>10. QED
  BY <1>1, <1>5, <1>6, <1>8, <1>9, Zenon DEF more, k

\* A greater number leaves those between it and the greatest missing, any other none.
LEMMA MissedOfAppend ==
  ASSUME NEW numbers \in Seq(Nat), numbers # <<>>, NEW n \in Nat
  PROVE  Missed(Append(numbers, n)) =
           Missed(numbers) \cup (Greatest(numbers) + 1)..(n - 1)
<1> DEFINE more == Append(numbers, n)
<1>1. PICK g \in Nat : g = Greatest(numbers)
  BY GreatestBounds
<1>2. (\E i \in 1..Len(numbers) : numbers[i] = g) /\ \A i \in 1..Len(numbers) : numbers[i] <= g
  BY <1>1, GreatestBounds
<1>3. PICK f \in Nat : f = numbers[1] /\ f <= g
  BY <1>2, NumbersAre
<1>4. more[1] = f /\ more \in Seq(Nat)
  BY <1>3, AppendIs, NumbersAre
<1>5. Greatest(more) = IF n > g THEN n ELSE g
  BY <1>1, GreatestOfAppend
<1>6. \A m \in Nat : m > g => Skipped(numbers, m)
  BY <1>1, <1>2, NumbersAre DEF Skipped
<1>7. (\E j \in 1..Len(numbers) : numbers[j] > n) <=> g > n
  BY <1>1, <1>2, NumbersAre
<1>8. ~Skipped(numbers, g)
  <2>1. PICK i \in 1..Len(numbers) : numbers[i] = g
    BY <1>2
  <2>2. \A j \in 1..i - 1 : j \in 1..Len(numbers)
    BY NumbersAre
  <2>3. \A j \in 1..i - 1 : numbers[j] \in Nat /\ numbers[j] <= g
    BY <1>2, <2>2, NumbersAre
  <2>4. ~\E j \in 1..i - 1 : numbers[j] > g
    BY <1>1, <2>3
  <2>5. QED
    BY <2>1, <2>4 DEF Skipped
<1>9. \A m \in Nat : Skipped(more, m) <=> Skipped(numbers, m) /\ (m = n => g > n)
  BY <1>7, SkippedOfAppend
<1>10. Missed(more) = {m \in f..Greatest(more) : Skipped(more, m)}
  BY <1>4, MissedAre
<1>11. Missed(numbers) = {m \in f..g : Skipped(numbers, m)}
  BY <1>1, <1>3, MissedAre
<1> HIDE DEF more
<1>12. ASSUME NEW m
       PROVE  m \in Missed(more) <=> m \in Missed(numbers) \/ m \in (g + 1)..(n - 1)
  <2>1. CASE m \in Nat
    BY <1>3, <1>5, <1>6, <1>8, <1>9, <1>10, <1>11, <2>1
  <2>2. CASE m \notin Nat
    BY <1>3, <1>5, <1>10, <1>11, <2>2
  <2>3. QED
    BY <2>1, <2>2
<1>13. QED
  BY <1>1, <1>12 DEF more

LEMMA MissedIsFinite ==
  ASSUME NEW numbers \in Seq(Nat), numbers # <<>>
  PROVE  IsFiniteSet(Missed(numbers)) /\ Missed(numbers) \subseteq 0..Greatest(numbers)
<1>1. Greatest(numbers) \in Nat /\ numbers[1] \in Nat
  BY GreatestBounds, NumbersAre
<1>2. Missed(numbers) \subseteq 0..Greatest(numbers)
  BY <1>1 DEF Missed
<1>3. IsFiniteSet(0..Greatest(numbers))
  BY <1>1, FS_Interval
<1>4. QED
  BY <1>2, <1>3, FS_Subset

\* So many more are missing.
LEMMA GapsOfAppend ==
  ASSUME NEW numbers \in Seq(Nat), numbers # <<>>, NEW n \in Nat
  PROVE  /\ Cardinality(Missed(numbers)) \in Nat
         /\ Cardinality(Missed(Append(numbers, n))) =
              Cardinality(Missed(numbers)) + (IF n > Greatest(numbers) THEN n - Greatest(numbers) - 1 ELSE 0)
<1> DEFINE D == Missed(numbers)
<1>1. PICK g \in Nat : g = Greatest(numbers)
  BY GreatestBounds
<1> DEFINE E == (g + 1)..(n - 1)
<1>2. Missed(Append(numbers, n)) = D \cup E
  BY <1>1, MissedOfAppend
<1>3. IsFiniteSet(D) /\ D \subseteq 0..g
  BY <1>1, MissedIsFinite
<1>4. IsFiniteSet(E) /\ Cardinality(E) = IF g + 1 > n - 1 THEN 0 ELSE n - g - 1
  <2>1. g + 1 \in Int /\ n - 1 \in Int
    BY <1>1
  <2>2. Cardinality(E) = IF g + 1 > n - 1 THEN 0 ELSE (n - 1) - (g + 1) + 1
    BY <2>1, FS_Interval
  <2>3. IsFiniteSet(E)
    BY <2>1, FS_Interval
  <2> HIDE DEF E
  <2>4. QED
    BY <2>2, <2>3
<1>5. D \cap E = {}
  BY <1>1, <1>3
<1> HIDE DEF D, E
<1>6. Cardinality(D \cup E) = Cardinality(D) + Cardinality(E) - Cardinality(D \cap E)
  BY <1>3, <1>4, FS_Union
<1>7. Cardinality(D) \in Nat /\ Cardinality({}) = 0
  BY <1>3, FS_CardinalityType, FS_EmptySet
<1>8. Cardinality(D \cup E) = Cardinality(D) + (IF n > g THEN n - g - 1 ELSE 0)
  <2>1. Cardinality(E) = IF n > g THEN n - g - 1 ELSE 0
    BY <1>1, <1>4
  <2>2. Cardinality(E) \in Nat
    BY <1>4, FS_CardinalityType
  <2>3. Cardinality(D \cup E) = Cardinality(D) + Cardinality(E)
    <3>1. Cardinality(D \cap E) = 0
      BY <1>5, <1>7
    <3>2. QED
      BY <1>6, <1>7, <2>2, <3>1
  <2>4. QED
    BY <2>1, <2>3
<1>9. QED
  BY <1>1, <1>2, <1>7, <1>8 DEF D
\* Up to there a sequence is what it was before the number was appended.
LEMMA Until ==
  ASSUME NEW numbers \in Seq(Nat), NEW n \in Nat, NEW i \in 0..Len(numbers)
  PROVE  SubSeq(Append(numbers, n), 1, i) = SubSeq(numbers, 1, i)
<1> DEFINE more == Append(numbers, n)
           k == Len(numbers)
<1>1. /\ more \in Seq(Nat) /\ Len(more) = k + 1 /\ k \in Nat
      /\ \A j \in 1..k : more[j] = numbers[j] /\ numbers[j] \in Nat
  BY AppendIs, NumbersAre
<1> HIDE DEF more
<1>2. \A j \in 1..i : j \in 1..k /\ more[j] \in Nat /\ numbers[j] \in Nat /\ more[j] = numbers[j]
  BY <1>1
<1>3. i \in Int /\ i >= 0 /\ (i = 0 \/ 1 <= i)
  BY <1>1
<1> DEFINE a == SubSeq(more, 1, i)
           b == SubSeq(numbers, 1, i)
<1>4. a \in Seq(Nat) /\ Len(a) = i /\ \A j \in 1..i : a[j] = more[j]
  <2>1. /\ a \in Seq(Nat) /\ Len(a) = IF 1 <= i THEN i - 1 + 1 ELSE 0
        /\ \A j \in 1..i - 1 + 1 : a[j] = more[1 + j - 1]
    BY <1>2, <1>3, SubSeqProperties
  <2> HIDE DEF a
  <2>2. i - 1 + 1 = i /\ (IF 1 <= i THEN i - 1 + 1 ELSE 0) = i /\ \A j \in 1..i : 1 + j - 1 = j
    BY <1>3
  <2>3. QED
    BY <2>1, <2>2
<1>5. b \in Seq(Nat) /\ Len(b) = i /\ \A j \in 1..i : b[j] = numbers[j]
  <2>1. /\ b \in Seq(Nat) /\ Len(b) = IF 1 <= i THEN i - 1 + 1 ELSE 0
        /\ \A j \in 1..i - 1 + 1 : b[j] = numbers[1 + j - 1]
    BY <1>2, <1>3, SubSeqProperties
  <2> HIDE DEF b
  <2>2. i - 1 + 1 = i /\ (IF 1 <= i THEN i - 1 + 1 ELSE 0) = i /\ \A j \in 1..i : 1 + j - 1 = j
    BY <1>3
  <2>3. QED
    BY <2>1, <2>2
<1> HIDE DEF a, b
<1>6. a = b
  BY <1>2, <1>4, <1>5, SeqEqual
<1>7. QED
  BY <1>6 DEF a, b, more

\* How far the number there went beyond those before it.
Beyond(numbers, i) == numbers[i] - Greatest(SubSeq(numbers, 1, i - 1)) - 1

LEMMA StepsOfAppend ==
  ASSUME NEW numbers \in Seq(Nat), numbers # <<>>, NEW n \in Nat
  PROVE  Steps(Append(numbers, n)) = Steps(numbers) \cup {n - Greatest(numbers) - 1}
<1> DEFINE more == Append(numbers, n)
           k == Len(numbers)
<1>1. Len(more) = k + 1 /\ k \in Nat /\ k >= 1 /\ more[k + 1] = n /\ (k + 1) - 1 = k
  BY AppendIs, NumbersAre
<1>2. \A i \in 2..k : more[i] = numbers[i] /\ i - 1 \in 0..k
  BY <1>1, AppendIs
<1>3. \A i \in 2..k : SubSeq(more, 1, i - 1) = SubSeq(numbers, 1, i - 1)
  BY <1>2, Until
<1>4. \A i \in 2..k : Beyond(more, i) = Beyond(numbers, i)
  BY <1>2, <1>3 DEF Beyond
<1>5. SubSeq(more, 1, k) = numbers
  <2>1. SubSeq(more, 1, k) = SubSeq(numbers, 1, k)
    BY <1>1, Until
  <2>2. SubSeq(numbers, 1, k) = numbers
    BY SubSeqFull
  <2>3. QED
    BY <2>1, <2>2
<1>6. Beyond(more, k + 1) = n - Greatest(numbers) - 1
  <2> HIDE DEF more, k
  <2>1. SubSeq(more, 1, (k + 1) - 1) = numbers
    BY <1>1, <1>5
  <2>2. more[k + 1] = n
    BY <1>1
  <2>3. QED
    BY <2>1, <2>2 DEF Beyond
<1>7. Steps(more) = {Beyond(more, i) : i \in 2..k + 1} /\ Steps(numbers) = {Beyond(numbers, i) : i \in 2..k}
  BY <1>1 DEF Steps, Beyond
<1>8. 2..k + 1 = (2..k) \cup {k + 1}
  BY <1>1
<1> HIDE DEF more
<1>9. QED
  BY <1>4, <1>6, <1>7, <1>8 DEF more

\* The steps are numbers, and there are only so many of them.
LEMMA StepsAre ==
  ASSUME NEW numbers \in Seq(Nat)
  PROVE  {0} \cup Steps(numbers) \in SUBSET Int /\ IsFiniteSet({0} \cup Steps(numbers))
<1> DEFINE k == Len(numbers)
           f == [i \in 2..k |-> numbers[i] - Greatest(SubSeq(numbers, 1, i - 1)) - 1]
<1>1. k \in Nat
  BY NumbersAre
<1>2. ASSUME NEW i \in 2..k
      PROVE  f[i] \in Int
  <2>1. i - 1 \in Int /\ 1 <= i - 1 /\ \A j \in 1..i - 1 : numbers[j] \in Nat
    BY <1>1, NumbersAre
  <2>2. SubSeq(numbers, 1, i - 1) \in Seq(Nat)
        /\ Len(SubSeq(numbers, 1, i - 1)) = IF 1 <= i - 1 THEN (i - 1) - 1 + 1 ELSE 0
    BY <2>1, SubSeqProperties
  <2>3. SubSeq(numbers, 1, i - 1) # <<>>
    BY <2>1, <2>2, EmptySeq
  <2>4. Greatest(SubSeq(numbers, 1, i - 1)) \in Nat
    BY <2>2, <2>3, GreatestBounds
  <2>5. numbers[i] \in Nat
    BY <1>1, NumbersAre
  <2>6. QED
    BY <2>4, <2>5
<1>3. Steps(numbers) = {f[i] : i \in 2..k}
  BY DEF Steps
<1>4. IsFiniteSet(2..k) /\ DOMAIN f = 2..k
  BY <1>1, FS_Interval
<1> HIDE DEF f
<1>5. IsFiniteSet(Steps(numbers))
  BY <1>3, <1>4, ImageIsFinite
<1>6. IsFiniteSet({0} \cup Steps(numbers))
  BY <1>5, FS_Singleton, FS_Union
<1>7. QED
  BY <1>2, <1>3, <1>6

LEMMA StepOfAppend ==
  ASSUME NEW numbers \in Seq(Nat), numbers # <<>>, NEW n \in Nat
  PROVE  LET old  == Max({0} \cup Steps(numbers))
             step == n - Greatest(numbers) - 1
         IN  /\ old \in Nat
             /\ Max({0} \cup Steps(Append(numbers, n))) = IF step > old THEN step ELSE old
<1> DEFINE D == {0} \cup Steps(numbers)
           step == n - Greatest(numbers) - 1
<1>1. D \in SUBSET Int /\ IsFiniteSet(D) /\ 0 \in D
  BY StepsAre
<1>2. step \in Int
  BY GreatestBounds
<1>3. {0} \cup Steps(Append(numbers, n)) = D \cup {step}
  BY StepsOfAppend
<1> HIDE DEF D, step
<1> DEFINE old == Max(D)
<1>4. old \in D /\ \A y \in D : old >= y
  BY <1>1, MaxBounds
<1> HIDE DEF old
<1>5. old \in Nat
  BY <1>1, <1>4
<1>6. Max(D \cup {step}) = IF step > old THEN step ELSE old
  <2>1. CASE step > old
    <3>1. D \cup {step} \in SUBSET Int /\ step \in D \cup {step} /\ \A y \in D \cup {step} : step >= y
      BY <1>1, <1>2, <1>4, <1>5, <2>1
    <3> HIDE DEF D
    <3>2. Max(D \cup {step}) = step
      BY <3>1, MaxIs
    <3>3. QED
      BY <2>1, <3>2
  <2>2. CASE ~(step > old)
    <3>1. D \cup {step} \in SUBSET Int /\ old \in D \cup {step} /\ \A y \in D \cup {step} : old >= y
      BY <1>1, <1>2, <1>4, <1>5, <2>2
    <3>2. Max(D \cup {step}) = old
      BY <3>1, MaxIs
    <3>3. QED
      BY <2>2, <3>2
  <2>3. QED
    BY <2>1, <2>2
<1>7. QED
  BY <1>3, <1>5, <1>6 DEF old, D, step

Counts == [rx : Nat, gaps : Nat, last : Int, maxGap : Nat]

LEMMA TallyIs ==
  ASSUME NEW numbers \in Seq(Nat)
  PROVE  Tally(numbers) \in Counts
<1>1. CASE numbers = <<>>
  BY <1>1 DEF Tally, Counts, NoCount, Unseen
<1>2. CASE numbers # <<>>
  <2>1. Len(numbers) \in Nat
    BY NumbersAre
  <2>2. Cardinality(Missed(numbers)) \in Nat
    BY <1>2, MissedIsFinite, FS_CardinalityType
  <2>3. Greatest(numbers) % Wrap \in Int
    BY <1>2, GreatestBounds, Turns
  <2>4. Max({0} \cup Steps(numbers)) \in Nat
    <3>1. 0 \in Nat
      OBVIOUS
    <3>2. QED
      BY <1>2, <3>1, StepOfAppend
  <2>5. QED
    BY <1>2, <2>1, <2>2, <2>3, <2>4 DEF Tally, Counts
<1>3. QED
  BY <1>1, <1>2

\* To count a number that is near those counted is to count all of them.
LEMMA CountIsExact ==
  ASSUME NEW numbers \in Seq(Nat), NEW n \in Nat, IsNear(n, numbers)
  PROVE  Count(Tally(numbers), n % Wrap) = Tally(Append(numbers, n))
<1> DEFINE more == Append(numbers, n)
           t == Tally(numbers)
           u == Count(t, n % Wrap)
<1>1. more \in Seq(Nat) /\ more # <<>> /\ Len(more) = Len(numbers) + 1
  BY AppendIs
<1>2. Tally(more) = [rx |-> Len(more), gaps |-> Cardinality(Missed(more)),
                     last |-> Greatest(more) % Wrap, maxGap |-> Max({0} \cup Steps(more))]
  BY <1>1 DEF Tally
<1>3. CASE numbers = <<>>
  <2>1. Len(numbers) = 0 /\ Greatest(more) = n
    BY <1>3, NumbersAre, GreatestOfAppend
  <2>2. more[1] = n /\ Len(more) = 1
    BY <2>1, AppendIs
  <2>3. Missed(more) = {}
    <3>1. Missed(more) = {m \in n..n : Skipped(more, m)}
      BY <1>1, <2>1, <2>2, MissedAre
    <3>2. ~Skipped(more, n)
      BY <2>2 DEF Skipped
    <3>3. n..n = {n}
      OBVIOUS
    <3>4. QED
      BY <3>1, <3>2, <3>3
  <2>4. Cardinality(Missed(more)) = 0
    BY <2>3, FS_EmptySet
  <2>5. Max({0} \cup Steps(more)) = 0
    <3>1. 2..Len(more) = {}
      BY <2>2
    <3>2. Steps(more) = {}
      BY <3>1 DEF Steps
    <3>3. {0} \in SUBSET Int /\ 0 \in {0} /\ \A y \in {0} : 0 >= y
      OBVIOUS
    <3>4. Max({0}) = 0
      BY <3>3, MaxIs
    <3>5. {0} \cup Steps(more) = {0}
      BY <3>2
    <3>6. QED
      BY <3>4, <3>5
  <2>6. Tally(more) = [rx |-> 1, gaps |-> 0, last |-> n % Wrap, maxGap |-> 0]
    BY <1>2, <2>1, <2>2, <2>4, <2>5
  <2>7. AdvanceSequenceCounter(n % Wrap, Unseen) = <<(n % Wrap) % Wrap, 0>>
    BY DEF AdvanceSequenceCounter
  <2>8. (n % Wrap) % Wrap = n % Wrap
    <3> DEFINE a == n % Wrap
    <3>1. a \in 0..Wrap - 1 /\ a = 0 * Wrap + a
      BY Turns, HalfWay
    <3> HIDE DEF a
    <3>2. a % Wrap = a
      BY <3>1, HalfWay, Remainder
    <3>3. QED
      BY <3>2 DEF a
  <2>9. u = [rx |-> 1, gaps |-> 0, last |-> n % Wrap, maxGap |-> 0]
    <3>1. t = NoCount
      BY <1>3 DEF Tally
    <3>2. AdvanceSequenceCounter(n % Wrap, Unseen) = <<n % Wrap, 0>>
      BY <2>7, <2>8
    <3>3. QED
      BY <3>1, <3>2 DEF Count, NoCount
  <2>10. QED
    BY <2>6, <2>9
<1>4. CASE numbers # <<>>
  <2>1. PICK g \in Nat : g = Greatest(numbers)
    BY <1>4, GreatestBounds
  <2>2. n - g < Wrap \div 2 /\ g - n <= Wrap \div 2
    BY <1>4, <2>1 DEF IsNear
  <2>3. AdvanceSequenceCounter(n % Wrap, g % Wrap) =
           IF n > g THEN <<n % Wrap, n - g - 1>> ELSE <<g % Wrap, 0>>
    BY <2>2, AdvanceIsExact
  <2> DEFINE d == Cardinality(Missed(numbers))
             x == Max({0} \cup Steps(numbers))
             k == Len(numbers)
  <2>4. k \in Nat /\ d \in Nat /\ x \in Nat
    BY <1>4, NumbersAre, GapsOfAppend, StepOfAppend
  <2>5. t = [rx |-> k, gaps |-> d, last |-> g % Wrap, maxGap |-> x]
    BY <1>4, <2>1 DEF Tally
  <2>6. Cardinality(Missed(more)) = d + (IF n > g THEN n - g - 1 ELSE 0)
    BY <1>4, <2>1, GapsOfAppend
  <2>7. Greatest(more) = IF n > g THEN n ELSE g
    BY <1>4, <2>1, GreatestOfAppend
  <2>8. Max({0} \cup Steps(more)) = IF n - g - 1 > x THEN n - g - 1 ELSE x
    BY <1>4, <2>1, StepOfAppend
  <2> HIDE DEF d, x, k, more
  <2> DEFINE missing == IF n > g THEN n - g - 1 ELSE 0
             last == IF n > g THEN n % Wrap ELSE g % Wrap
  <2>9. u = [rx |-> k + 1, gaps |-> d + missing, last |-> last,
             maxGap |-> IF missing > x THEN missing ELSE x]
    <3>1. AdvanceSequenceCounter(n % Wrap, g % Wrap) = <<last, missing>>
      BY <2>3
    <3> HIDE DEF missing, last
    <3>2. QED
      BY <2>5, <3>1 DEF Count
  <2>10. (IF n - g - 1 > x THEN n - g - 1 ELSE x) = (IF missing > x THEN missing ELSE x)
    BY <2>4
  <2>11. Greatest(more) % Wrap = last
    BY <2>7
  <2>12. Tally(more) = [rx |-> k + 1, gaps |-> d + missing, last |-> last,
                        maxGap |-> IF missing > x THEN missing ELSE x]
    <3>1. Len(more) = k + 1
      BY <1>1 DEF k
    <3>2. Cardinality(Missed(more)) = d + missing
      BY <2>6
    <3>3. Max({0} \cup Steps(more)) = IF missing > x THEN missing ELSE x
      BY <2>8, <2>10
    <3> HIDE DEF missing, last
    <3>4. QED
      BY <1>2, <2>11, <3>1, <3>2, <3>3
  <2>13. QED
    BY <2>9, <2>12 DEF more
<1>5. QED
  BY <1>3, <1>4
-----------------------------------------------------------------------------
(* The reports.                                                            *)

CounterRecords ==
    [normal : Counts, probe : Counts, test : Nat, stage : Nat, errors : Nat,
     active : BOOLEAN, announced : BOOLEAN,
     nextFeedback : Int, nextCaps : Int]

AuxiliarySteps ==
    [at : {"waiting", "ticking"}]
    \cup [at : {"count", "answer", "reply", "settle"}, probe : Probes]
    \cup [at : {"chosen"}, version : {3, 4}]
    \cup [at : {"tick", "report", "next"}, version : {3, 4}, moment : Nat, active : BOOLEAN]

ReportTypes ==
    /\ protocol \in {0, 3, 4} /\ now \in Nat
    /\ counters \in CounterRecords /\ aux \in AuxiliarySteps
    /\ normal \in Seq(Nat) /\ probes \in Seq(Nat) /\ stage \in Nat \X Nat

\* The counters are those of the packets since the reset.
CountersFollow ==
    /\ counters.normal = Tally(normal) /\ counters.probe = Tally(probes)
    /\ counters.test = stage[1] /\ counters.stage = stage[2]
    /\ counters.errors = invalid

\* A probe that was taken is near those of its stage until it is counted.
ProbeIsNear ==
    aux.at = "count" /\ stage = <<aux.probe.test, aux.probe.stage>> =>
        IsNear(aux.probe.n, probes)

ReportInv ==
    ReportTypes /\ CountersFollow /\ ProbeIsNear /\ StageIsAnswered /\ ToldTheTruth

\* What is reported of such counters is what the packets call for.
LEMMA FeedbackIsTrue ==
  ASSUME CountersFollow, NEW complete, NEW final
  PROVE  Feedback(counters, complete, final) = Truth(complete, final)
BY DEF CountersFollow, Feedback, Truth

LEMMA ReportsBegin == ReportsInit => ReportInv
<1> SUFFICES ASSUME ReportsInit PROVE ReportInv
  OBVIOUS
<1> USE DEF ReportsInit
<1>1. Fresh \in CounterRecords
  BY DEF Fresh, CounterRecords, Counts, NoCount, Unseen
<1>2. Waiting \in AuxiliarySteps /\ Waiting.at = "waiting"
  BY DEF Waiting, AuxiliarySteps
<1>3. ReportTypes
  BY <1>1, <1>2, EmptySeq DEF ReportTypes
<1>4. CountersFollow
  BY DEF CountersFollow, Fresh, Tally
<1>5. ProbeIsNear /\ StageIsAnswered /\ ToldTheTruth
  BY <1>2 DEF ProbeIsNear, StageIsAnswered, ToldTheTruth
<1>6. QED
  BY <1>3, <1>4, <1>5 DEF ReportInv

\* A step that leaves the packets, the reports and what is counted of them alone,
\* and takes up no probe, breaks nothing.
LEMMA FlagsKeep ==
  ASSUME ReportInv, UNCHANGED <<pastVars, sent, told>>,
         counters' \in CounterRecords, protocol' \in {0, 3, 4}, now' \in Nat,
         aux' \in AuxiliarySteps, aux' = aux \/ aux'.at \notin {"count", "answer", "reply"},
         counters'.normal = counters.normal, counters'.probe = counters.probe,
         counters'.test = counters.test, counters'.stage = counters.stage,
         counters'.errors = counters.errors
  PROVE  ReportInv'
<1> USE DEF ReportInv, pastVars
<1>1. ReportTypes'
  BY DEF ReportTypes
<1>2. CountersFollow'
  BY DEF CountersFollow
<1>3. ProbeIsNear'
  BY DEF ProbeIsNear
<1>4. StageIsAnswered'
  BY DEF StageIsAnswered
<1>5. ToldTheTruth'
  BY DEF ToldTheTruth
<1>6. QED
  BY <1>1, <1>2, <1>3, <1>4, <1>5

\* So does one that sends a report besides.
LEMMA ReportKeeps ==
  ASSUME ReportInv, NEW complete, NEW final, SendReport(complete, final),
         UNCHANGED <<pastVars, counters, protocol, now>>,
         aux' \in AuxiliarySteps, aux'.at \notin {"count", "answer", "reply"}
  PROVE  ReportInv'
<1> USE DEF ReportInv, pastVars
<1>1. ReportTypes'
  BY DEF ReportTypes
<1>2. CountersFollow'
  BY DEF CountersFollow
<1>3. ProbeIsNear'
  BY DEF ProbeIsNear
<1>4. StageIsAnswered'
  BY DEF StageIsAnswered
<1>5. ToldTheTruth'
  BY FeedbackIsTrue DEF ToldTheTruth, SendReport
<1>6. QED
  BY <1>1, <1>2, <1>3, <1>4, <1>5
LEMMA PeriodsAre == {ActivePeriod, IdlePeriod, CapsPeriod} \subseteq Nat
BY CounterConstants

LEMMA StepsAreTyped ==
  ASSUME aux \in AuxiliarySteps
  PROVE  /\ aux.at \in {"count", "answer", "reply", "settle"} =>
              /\ aux.probe \in Probes
              /\ aux = [at |-> aux.at, probe |-> aux.probe]
         /\ aux.at = "chosen" => aux.version \in {3, 4}
         /\ aux.at \in {"tick", "report", "next"} =>
              aux \in [at : {"tick", "report", "next"}, version : {3, 4}, moment : Nat,
                       active : BOOLEAN]
BY DEF AuxiliarySteps

LEMMA ProbesAre ==
  ASSUME NEW p \in Probes
  PROVE  /\ p.n \in Nat /\ p.test \in Nat /\ p.stage \in Nat /\ p.version \in {3, 4}
         /\ p.end \in BOOLEAN
BY ReportConstants DEF Probes

LEMMA ShapesAre ==
  /\ Waiting \in AuxiliarySteps /\ Waiting.at = "waiting"
  /\ Ticking \in AuxiliarySteps /\ Ticking.at = "ticking"
BY DEF Waiting, Ticking, AuxiliarySteps

LEMMA CountsAre ==
  ASSUME NEW c \in CounterRecords
  PROVE  c.normal \in Counts /\ c.probe \in Counts /\ c.nextFeedback \in Int
BY DEF CounterRecords

LEMMA GuiKeeps ==
  ASSUME ReportInv,
         \/ \E version \in {3, 4} : LinkUp(version)
         \/ ResetDiagnostics
         \/ AnnounceLink
         \/ LinkDown
         \/ \E n \in PacketNumbers : ObserveDataPacket(n)
  PROVE  ReportInv'
<1>1. ASSUME NEW version \in {3, 4}, LinkUp(version) PROVE ReportInv'
  BY <1>1, FlagsKeep DEF LinkUp, ReportInv, ReportTypes
<1>2. CASE LinkDown
  BY <1>2, FlagsKeep DEF LinkDown, ReportInv, ReportTypes
<1>3. CASE AnnounceLink
  <2>1. counters' \in CounterRecords
    <3>1. counters \in CounterRecords /\ now + CapsPeriod \in Int
      BY PeriodsAre DEF ReportInv, ReportTypes
    <3>2. QED
      BY <1>3, <3>1 DEF AnnounceLink, CounterRecords
  <2>2. /\ counters'.normal = counters.normal /\ counters'.probe = counters.probe
        /\ counters'.test = counters.test /\ counters'.stage = counters.stage
        /\ counters'.errors = counters.errors
    BY <1>3 DEF AnnounceLink, ReportInv, ReportTypes, CounterRecords
  <2>3. QED
    BY <1>3, <2>1, <2>2, FlagsKeep DEF AnnounceLink, ReportInv, ReportTypes
<1>4. CASE ResetDiagnostics
  <2> USE <1>4 DEF ResetDiagnostics
  <2>1. Fresh \in CounterRecords
    BY DEF Fresh, CounterRecords, Counts, NoCount, Unseen
  <2>2. ReportTypes'
    BY <2>1, EmptySeq DEF ReportInv, ReportTypes
  <2>3. CountersFollow'
    BY DEF CountersFollow, Fresh, Tally
  <2>4. ProbeIsNear'
    BY DEF ProbeIsNear, IsNear
  <2>5. StageIsAnswered'
    BY DEF StageIsAnswered
  <2>6. ToldTheTruth'
    BY DEF ReportInv, ToldTheTruth
  <2>7. QED
    BY <2>2, <2>3, <2>4, <2>5, <2>6 DEF ReportInv
<1>5. ASSUME NEW n \in PacketNumbers, ObserveDataPacket(n) PROVE ReportInv'
  <2> USE <1>5 DEF ObserveDataPacket
  <2>1. n \in Nat /\ normal \in Seq(Nat) /\ counters \in CounterRecords
    BY ReportConstants DEF ReportInv, ReportTypes
  <2>2. Append(normal, n) \in Seq(Nat)
    BY <2>1, AppendIs
  <2>3. Count(counters.normal, n % Wrap) = Tally(Append(normal, n))
    BY <2>1, CountIsExact DEF ReportInv, CountersFollow
  <2>4. counters' = [counters EXCEPT !.normal = Tally(normal')]
    BY <2>3
  <2>5. Tally(normal') \in Counts
    BY <2>2, TallyIs
  <2>6. counters' \in CounterRecords /\ counters'.normal = Tally(normal')
        /\ counters'.probe = counters.probe
        /\ counters'.test = counters.test /\ counters'.stage = counters.stage
        /\ counters'.errors = counters.errors
    BY <2>1, <2>4, <2>5 DEF CounterRecords
  <2>7. ReportTypes'
    BY <2>2, <2>6 DEF ReportInv, ReportTypes
  <2>8. CountersFollow'
    BY <2>6 DEF ReportInv, CountersFollow
  <2>9. ProbeIsNear' /\ StageIsAnswered' /\ ToldTheTruth'
    BY DEF ReportInv, ProbeIsNear, StageIsAnswered, ToldTheTruth
  <2>10. QED
    BY <2>7, <2>8, <2>9 DEF ReportInv
<1>6. QED
  BY <1>1, <1>2, <1>3, <1>4, <1>5

LEMMA ProbeIsCounted ==
  ASSUME ReportInv, ProcessProbe
  PROVE  ReportInv'
<1> DEFINE p == aux.probe
           begun == IF <<p.test, p.stage>> # <<counters.test, counters.stage>>
                      THEN NoCount ELSE counters.probe
           counted == CountProbe(counters, p, p.n % Wrap)
<1>1. /\ aux \in AuxiliarySteps /\ counters \in CounterRecords /\ probes \in Seq(Nat)
      /\ stage \in Nat \X Nat /\ aux.at = "count"
  BY DEF ReportInv, ReportTypes, ProcessProbe
<1>2. p \in Probes /\ aux = [at |-> "count", probe |-> p]
  BY <1>1, StepsAreTyped
<1> HIDE DEF p
<1>3. p.n \in Nat /\ p.test \in Nat /\ p.stage \in Nat /\ p.version \in {3, 4} /\ p.end \in BOOLEAN
  BY <1>2, ProbesAre
<1>4. /\ counters' = counted
      /\ stage' = <<p.test, p.stage>>
      /\ probes' = IF stage = stage' THEN Append(probes, p.n) ELSE <<p.n>>
      /\ aux' = IF p.end THEN [aux EXCEPT !.at = "answer"] ELSE Ticking
      /\ UNCHANGED <<protocol, gui, now, sent, normal, invalid, told>>
  BY DEF ProcessProbe, p
<1>5. Count(begun, p.n % Wrap) = Tally(probes') /\ probes' \in Seq(Nat) /\ Last(probes') = p.n
      /\ probes' # <<>>
  <2>0. counters.probe = Tally(probes) /\ <<counters.test, counters.stage>> = stage
    BY <1>1 DEF ReportInv, CountersFollow
  <2>1. CASE stage = stage'
    <3>1. begun = Tally(probes)
      BY <1>4, <2>0, <2>1
    <3>2. IsNear(p.n, probes)
      BY <1>1, <1>4, <2>1 DEF ReportInv, ProbeIsNear, p
    <3>3. probes' = Append(probes, p.n)
      BY <1>4, <2>1
    <3>4. Count(Tally(probes), p.n % Wrap) = Tally(probes')
      BY <1>1, <1>3, <3>2, <3>3, CountIsExact
    <3>5. probes' \in Seq(Nat) /\ Len(probes') = Len(probes) + 1 /\ probes'[Len(probes) + 1] = p.n
          /\ probes' # <<>>
      BY <1>1, <1>3, <3>3, AppendIs
    <3> HIDE DEF begun
    <3>6. QED
      BY <3>1, <3>4, <3>5 DEF Last
  <2>2. CASE stage # stage'
    <3>1. begun = NoCount
      BY <1>4, <2>0, <2>2
    <3>2. Tally(<<>>) = NoCount /\ IsNear(p.n, <<>>) /\ <<>> \in Seq(Nat)
      BY EmptySeq DEF Tally, IsNear
    <3>3. probes' = Append(<<>>, p.n)
      BY <1>4, <2>2
    <3>4. Count(Tally(<<>>), p.n % Wrap) = Tally(probes')
      BY <1>3, <3>2, <3>3, CountIsExact
    <3>5. probes' \in Seq(Nat) /\ Len(probes') = 1 /\ probes'[1] = p.n /\ probes' # <<>>
      BY <1>3, <1>4, <2>2
    <3> HIDE DEF begun
    <3>6. QED
      BY <3>1, <3>2, <3>4, <3>5 DEF Last
  <2>3. QED
    BY <2>1, <2>2
<1>6. Tally(probes') \in Counts
  BY <1>5, TallyIs
<1>7. counted = [counters EXCEPT !.test = p.test, !.stage = p.stage, !.active = TRUE,
                                 !.probe = Tally(probes')]
  BY <1>5 DEF CountProbe
<1>8. /\ counted \in CounterRecords /\ counted.normal = counters.normal
      /\ counted.probe = Tally(probes') /\ counted.test = p.test /\ counted.stage = p.stage
      /\ counted.errors = counters.errors
  <2> HIDE DEF counted
  <2>1. QED
    BY <1>1, <1>3, <1>6, <1>7 DEF CounterRecords
<1> HIDE DEF counted, begun
<1>9. /\ counters' \in CounterRecords /\ counters'.normal = counters.normal
      /\ counters'.probe = Tally(probes') /\ counters'.test = p.test /\ counters'.stage = p.stage
      /\ counters'.errors = counters.errors
  BY <1>3, <1>4, <1>8 DEF CounterRecords
<1>10. aux' = IF p.end THEN [at |-> "answer", probe |-> p] ELSE Ticking
  BY <1>2, <1>4
<1>11. aux' \in AuxiliarySteps /\ aux'.at # "count"
       /\ (aux'.at \in {"answer", "reply"} => aux'.probe = p)
  <2>1. CASE p.end
    BY <1>2, <1>10, <2>1 DEF AuxiliarySteps
  <2>2. CASE ~p.end
    BY <1>10, <2>2, ShapesAre
  <2>3. QED
    BY <2>1, <2>2
<1>12. ReportTypes'
  BY <1>3, <1>4, <1>5, <1>9, <1>11 DEF ReportInv, ReportTypes
<1>13. CountersFollow'
  BY <1>4, <1>9 DEF ReportInv, CountersFollow
<1>14. ProbeIsNear'
  BY <1>11 DEF ProbeIsNear
<1>15. StageIsAnswered'
  BY <1>4, <1>5, <1>11 DEF StageIsAnswered
<1>16. ToldTheTruth'
  BY <1>4 DEF ReportInv, ToldTheTruth
<1>17. QED
  BY <1>12, <1>13, <1>14, <1>15, <1>16 DEF ReportInv
LEMMA ServiceKeeps ==
  ASSUME ReportInv,
         \/ ReceiveInvalid
         \/ ReceiveTimeout
         \/ \E p \in Probes : ReceiveProbe(p)
         \/ Answer
         \/ Reply
         \/ EndStage
         \/ ChooseTick
         \/ TickCapabilities
         \/ TickUnconnected
         \/ TickFeedback
         \/ SendFeedback
         \/ NextFeedback
  PROVE  ReportInv'
<1>0. /\ aux \in AuxiliarySteps /\ counters \in CounterRecords /\ now \in Nat
      /\ protocol \in {0, 3, 4}
  BY DEF ReportInv, ReportTypes
<1>1. CASE ReceiveInvalid
  <2> USE <1>1 DEF ReceiveInvalid
  <2>1. counters.errors \in Nat
    BY <1>0 DEF CounterRecords
  <2>2. counters' \in CounterRecords /\ counters'.errors = counters.errors + 1
    BY <1>0, <2>1 DEF CounterRecords
  <2>3. /\ counters'.normal = counters.normal /\ counters'.probe = counters.probe
        /\ counters'.test = counters.test /\ counters'.stage = counters.stage
    BY <1>0 DEF CounterRecords
  <2>4. ReportTypes'
    BY <2>2, ShapesAre DEF ReportInv, ReportTypes
  <2>5. CountersFollow'
    BY <2>2, <2>3 DEF ReportInv, CountersFollow
  <2>6. ProbeIsNear' /\ StageIsAnswered' /\ ToldTheTruth'
    BY ShapesAre DEF ReportInv, ProbeIsNear, StageIsAnswered, ToldTheTruth
  <2>7. QED
    BY <2>4, <2>5, <2>6 DEF ReportInv
<1>2. CASE ReceiveTimeout
  BY <1>0, <1>2, ShapesAre, FlagsKeep DEF ReceiveTimeout
<1>3. ASSUME NEW p \in Probes, ReceiveProbe(p) PROVE ReportInv'
  <2> USE <1>3 DEF ReceiveProbe
  <2>1. aux' \in AuxiliarySteps /\ aux'.at = "count" /\ aux'.probe = p
    BY DEF AuxiliarySteps
  <2>2. ReportTypes'
    BY <2>1 DEF ReportInv, ReportTypes, pastVars
  <2>3. CountersFollow'
    BY DEF ReportInv, CountersFollow, pastVars
  <2>4. ProbeIsNear'
    BY <2>1 DEF ProbeIsNear, pastVars
  <2>5. StageIsAnswered' /\ ToldTheTruth'
    BY <2>1 DEF ReportInv, StageIsAnswered, ToldTheTruth
  <2>6. QED
    BY <2>2, <2>3, <2>4, <2>5 DEF ReportInv
<1>4. CASE Answer
  <2>1. aux.at = "answer"
    BY <1>4 DEF Answer
  <2>2. aux.probe \in Probes /\ aux = [at |-> "answer", probe |-> aux.probe]
    BY <1>0, <2>1, StepsAreTyped
  <2>3. /\ aux' \in AuxiliarySteps /\ aux'.at \in {"reply", "settle"}
        /\ aux'.probe = aux.probe
    BY <1>4, <2>2 DEF Answer, AuxiliarySteps
  <2>4. ReportTypes'
    BY <1>4, <2>3 DEF Answer, ReportInv, ReportTypes, pastVars
  <2>5. CountersFollow' /\ ToldTheTruth'
    BY <1>4 DEF Answer, ReportInv, CountersFollow, ToldTheTruth, pastVars
  <2>6. ProbeIsNear'
    BY <2>3 DEF ProbeIsNear
  <2>7. StageIsAnswered'
    BY <1>4, <2>1, <2>3 DEF Answer, ReportInv, StageIsAnswered, pastVars
  <2>8. QED
    BY <2>4, <2>5, <2>6, <2>7 DEF ReportInv
<1>5. CASE Reply
  <2>1. aux.at = "reply"
    BY <1>5 DEF Reply
  <2>2. aux.probe \in Probes /\ aux = [at |-> "reply", probe |-> aux.probe]
    BY <1>0, <2>1, StepsAreTyped
  <2>3. aux' \in AuxiliarySteps /\ aux'.at = "settle"
    BY <1>5, <2>2 DEF Reply, AuxiliarySteps
  <2>4. QED
    BY <1>5, <2>3, ReportKeeps DEF Reply
<1>6. CASE EndStage
  <2>1. counters' \in CounterRecords
    <3>1. now + ActivePeriod \in Int /\ counters.nextFeedback \in Int
      BY <1>0, PeriodsAre, CountsAre
    <3>2. QED
      BY <1>0, <1>6, <3>1 DEF EndStage, CounterRecords
  <2>2. /\ counters'.normal = counters.normal /\ counters'.probe = counters.probe
        /\ counters'.test = counters.test /\ counters'.stage = counters.stage
        /\ counters'.errors = counters.errors
    BY <1>0, <1>6 DEF EndStage, CounterRecords
  <2>3. QED
    BY <1>0, <1>6, <2>1, <2>2, ShapesAre, FlagsKeep DEF EndStage
<1>7. CASE ChooseTick
  <2>1. aux' \in AuxiliarySteps /\ aux'.at = "chosen"
    BY <1>0, <1>7 DEF ChooseTick, AuxiliarySteps
  <2>2. QED
    BY <1>0, <1>7, <2>1, FlagsKeep DEF ChooseTick
<1>8. CASE TickCapabilities
  <2>1. counters' \in CounterRecords
    <3>1. now + CapsPeriod \in Int
      BY <1>0, PeriodsAre
    <3>2. QED
      BY <1>0, <1>8, <3>1 DEF TickCapabilities, CounterRecords
  <2>2. /\ counters'.normal = counters.normal /\ counters'.probe = counters.probe
        /\ counters'.test = counters.test /\ counters'.stage = counters.stage
        /\ counters'.errors = counters.errors
    BY <1>0, <1>8 DEF TickCapabilities, CounterRecords
  <2>3. aux' \in AuxiliarySteps /\ aux'.at = "tick"
    <3>1. aux.version \in {3, 4} /\ counters.active \in BOOLEAN
      BY <1>0, <1>8, StepsAreTyped DEF TickCapabilities, CounterRecords
    <3>2. QED
      BY <1>0, <1>8, <3>1 DEF TickCapabilities, AuxiliarySteps
  <2>4. QED
    BY <1>0, <1>8, <2>1, <2>2, <2>3, FlagsKeep DEF TickCapabilities
<1>9. CASE TickUnconnected
  BY <1>0, <1>9, ShapesAre, FlagsKeep DEF TickUnconnected
<1>10. CASE TickFeedback
  <2>1. aux \in [at : {"tick", "report", "next"}, version : {3, 4}, moment : Nat,
                 active : BOOLEAN]
    BY <1>0, <1>10, StepsAreTyped DEF TickFeedback
  <2>2. CASE aux' = Waiting
    BY <1>0, <1>10, <2>2, ShapesAre, FlagsKeep DEF TickFeedback
  <2>3. ASSUME NEW step \in {"report", "next"}, aux' = [aux EXCEPT !.at = step]
        PROVE  ReportInv'
    <3>1. aux' \in [at : {"tick", "report", "next"}, version : {3, 4}, moment : Nat,
                    active : BOOLEAN]
          /\ aux'.at = step
      BY <2>1, <2>3
    <3>2. aux' \in AuxiliarySteps
      BY <3>1 DEF AuxiliarySteps
    <3>3. QED
      BY <1>0, <1>10, <2>3, <3>1, <3>2, FlagsKeep DEF TickFeedback
  <2>4. QED
    BY <1>10, <2>2, <2>3 DEF TickFeedback
<1>11. CASE SendFeedback
  <2>1. aux \in [at : {"tick", "report", "next"}, version : {3, 4}, moment : Nat,
                 active : BOOLEAN]
    BY <1>0, <1>11, StepsAreTyped DEF SendFeedback
  <2>2. aux' \in AuxiliarySteps /\ aux'.at = "next"
    BY <1>11, <2>1 DEF SendFeedback, AuxiliarySteps
  <2>3. QED
    BY <1>11, <2>2, ReportKeeps DEF SendFeedback
<1>12. CASE NextFeedback
  <2>1. aux.moment \in Nat /\ aux.active \in BOOLEAN
    BY <1>0, <1>12, StepsAreTyped DEF NextFeedback
  <2>2. counters' \in CounterRecords
    <3>1. aux.moment + ActivePeriod \in Int /\ aux.moment + IdlePeriod \in Int
      BY <2>1, PeriodsAre
    <3>2. QED
      BY <1>0, <1>12, <3>1 DEF NextFeedback, CounterRecords
  <2>3. /\ counters'.normal = counters.normal /\ counters'.probe = counters.probe
        /\ counters'.test = counters.test /\ counters'.stage = counters.stage
        /\ counters'.errors = counters.errors
    BY <1>0, <1>12 DEF NextFeedback, CounterRecords
  <2>4. QED
    BY <1>0, <1>12, <2>2, <2>3, ShapesAre, FlagsKeep DEF NextFeedback
<1>13. QED
  BY <1>1, <1>2, <1>3, <1>4, <1>5, <1>6, <1>7, <1>8, <1>9, <1>10, <1>11, <1>12

LEMMA ReportsStay == ReportInv /\ [ReportsNext]_reportVars => ReportInv'
<1> SUFFICES ASSUME ReportInv, [ReportsNext]_reportVars PROVE ReportInv'
  OBVIOUS
<1>1. CASE UNCHANGED reportVars
  BY <1>1, FlagsKeep DEF reportVars, ReportInv, ReportTypes
<1>2. ASSUME NEW t \in Moments, TimePasses(t) PROVE ReportInv'
  <2>1. now' \in Nat
    BY <1>2, ReportConstants DEF TimePasses
  <2>2. QED
    BY <1>2, <2>1, FlagsKeep DEF TimePasses, ReportInv, ReportTypes
<1>3. CASE Inputs
  BY <1>2, <1>3, GuiKeeps, ServiceKeeps DEF Inputs
<1>4. CASE \E p \in Probes : ReceiveProbe(p)
  BY <1>4, ServiceKeeps
<1>5. CASE Continues
  BY <1>5, GuiKeeps, ServiceKeeps, ProbeIsCounted DEF Continues
<1>6. QED
  BY <1>1, <1>3, <1>4, <1>5 DEF ReportsNext

\* However packets are lost, repeated or overtaken, however long the session lasts
\* and whatever the other thread does meanwhile, every report says what was received
\* and what was missing, for every width of the sequence numbers.
THEOREM ReportsStayExact == ReportsSpec => []ReportsAreExact
<1>1. ReportInv => ReportsAreExact
  BY DEF ReportInv, ReportsAreExact
<1>2. QED
  BY ReportsBegin, ReportsStay, <1>1, PTL DEF ReportsSpec

=================================================================================
