------------------------------ MODULE DiagReports ------------------------------
(***************************************************************************)
(* The packet counters and the reports made of them, between the two       *)
(* threads that use them: the GUI thread resets them when a link comes up  *)
(* and counts data packets, the auxiliary service thread counts probes and *)
(* sends the reports.  The diagnostics lock is held for one access to the  *)
(* counters at a time, so an operation is a step here for each of them.    *)
(*                                                                         *)
(* A number n stands for a packet's place in the device's own count; the   *)
(* packet carries n % Wrap.  Announcements of capabilities are sent too,   *)
(* but only their deadlines are kept.  The device accepts diagnostics.     *)
(***************************************************************************)
EXTENDS DiagCounters, FiniteSets, SequencesExt

CONSTANTS
    PacketNumbers,  \* numbers of packets
    Stages,         \* pairs of a test and a stage of it
    Moments         \* moments of the monotonic clock

ASSUME ReportConstants ==
    /\ PacketNumbers \subseteq Nat /\ Moments \subseteq Nat
    /\ Stages \subseteq Nat \X Nat

VARIABLES
    protocol,       \* nf_protocol while nf_connected, else 0
    gui,            \* step of the GUI thread
    aux,            \* step of the auxiliary thread, with what it works on
    now,            \* monotonic time
    counters,       \* what DiagCounters is about
    sent,           \* the feedback reports sent
    normal,         \* history: numbers of the data packets since the last reset
    probes,         \* history: numbers of the probes of the stage since then
    stage,          \* history: the test and stage of the last probe since then
    invalid,        \* history: datagrams since then that did not parse
    told            \* history: what the reports should have said

pastVars   == <<normal, probes, stage, invalid>>
reportVars == <<protocol, gui, aux, now, counters, sent, pastVars, told>>

Waiting == [at |-> "waiting"]
Ticking == [at |-> "ticking"]

ReportsInit ==
    /\ protocol = 0 /\ gui = "idle" /\ aux = Waiting /\ now = 0
    /\ counters = Fresh /\ sent = <<>>
    /\ normal = <<>> /\ probes = <<>> /\ stage = <<0, 0>> /\ invalid = 0 /\ told = <<>>

-----------------------------------------------------------------------------
(* What a report should say of numbers that arrived in this order.         *)

Greatest(numbers) == Max(ToSet(numbers))

\* None is half way around or more ahead of the greatest, or more than that behind.
IsNear(n, numbers) ==
    numbers # <<>> =>
        /\ n - Greatest(numbers) < Wrap \div 2
        /\ Greatest(numbers) - n <= Wrap \div 2

\* Missing are those between the first and the greatest that had not come when a
\* greater one came.
Missed(numbers) ==
    {n \in numbers[1]..Greatest(numbers) :
        \A i \in DOMAIN numbers : numbers[i] = n => \E j \in 1..i - 1 : numbers[j] > n}

\* How far each went beyond those before it.
Steps(numbers) ==
    {numbers[i] - Greatest(SubSeq(numbers, 1, i - 1)) - 1 : i \in 2..Len(numbers)}

Tally(numbers) ==
    IF numbers = <<>> THEN NoCount
    ELSE [rx |-> Len(numbers), gaps |-> Cardinality(Missed(numbers)),
          last |-> Greatest(numbers) % Wrap, maxGap |-> Max({0} \cup Steps(numbers))]

\* The report that the packets call for.
Truth(complete, final) ==
    Feedback([test |-> stage[1], stage |-> stage[2], errors |-> invalid,
              normal |-> Tally(normal), probe |-> Tally(probes)], complete, final)

SendReport(complete, final) ==
    /\ sent' = Append(sent, Feedback(counters, complete, final))
    /\ told' = Append(told, Truth(complete, final))

-----------------------------------------------------------------------------
(* The GUI thread.                                                         *)

\* SESSION_ACCEPT or CONNECT_ACK: the link is up before the counters are reset.
LinkUp(version) ==
    /\ gui = "idle" /\ protocol = 0
    /\ protocol' = version /\ gui' = "reset"
    /\ UNCHANGED <<aux, now, counters, sent, pastVars, told>>

ResetDiagnostics ==
    /\ gui = "reset"
    /\ counters' = Fresh
    /\ normal' = <<>> /\ probes' = <<>> /\ stage' = <<0, 0>> /\ invalid' = 0
    /\ gui' = "announce"
    /\ UNCHANGED <<protocol, aux, now, sent, told>>

AnnounceLink ==
    /\ gui = "announce"
    /\ counters' = IF protocol = 4 THEN [counters EXCEPT !.announced = TRUE]
                 ELSE [counters EXCEPT !.nextCaps = now + CapsPeriod]
    /\ gui' = "idle"
    /\ UNCHANGED <<protocol, aux, now, sent, pastVars, told>>

LinkDown ==
    /\ gui = "idle" /\ protocol # 0
    /\ protocol' = 0
    /\ UNCHANGED <<gui, aux, now, counters, sent, pastVars, told>>

ObserveDataPacket(n) ==
    /\ gui = "idle" /\ protocol # 0
    /\ IsNear(n, normal)
    /\ counters' = [counters EXCEPT !.normal = Count(@, n % Wrap)]
    /\ normal' = Append(normal, n)
    /\ UNCHANGED <<protocol, gui, aux, now, sent, probes, stage, invalid, told>>

-----------------------------------------------------------------------------
(* The auxiliary thread: a datagram or a timeout, and then a tick.         *)

\* The link takes and sends diagnostics of a version: those of NFv3 under either.
Enabled(version) == protocol # 0 /\ (version = 4 => protocol = 4)

ReceiveTimeout ==
    /\ aux = Waiting
    /\ aux' = Ticking
    /\ UNCHANGED <<protocol, gui, now, counters, sent, pastVars, told>>

\* The handlers see to the link and then count without looking again.
ReceiveProbe(p) ==
    /\ aux = Waiting /\ Enabled(p.version)
    /\ <<p.test, p.stage>> = stage => IsNear(p.n, probes)
    /\ aux' = [at |-> "count", probe |-> p]
    /\ UNCHANGED <<protocol, gui, now, counters, sent, pastVars, told>>

ProcessProbe ==
    LET p == aux.probe IN
    /\ aux.at = "count"
    /\ counters' = CountProbe(counters, p, p.n % Wrap)
    /\ stage' = <<p.test, p.stage>>
    /\ probes' = IF stage = stage' THEN Append(probes, p.n) ELSE <<p.n>>
    /\ aux' = IF p.end THEN [aux EXCEPT !.at = "answer"] ELSE Ticking
    /\ UNCHANGED <<protocol, gui, now, sent, normal, invalid, told>>

\* The end of a stage is answered if the link is there.
Answer ==
    /\ aux.at = "answer"
    /\ aux' = [aux EXCEPT !.at = IF Enabled(aux.probe.version) THEN "reply" ELSE "settle"]
    /\ UNCHANGED <<protocol, gui, now, counters, sent, pastVars, told>>

Reply ==
    /\ aux.at = "reply"
    /\ SendReport(TRUE, aux.probe.final)
    /\ aux' = [aux EXCEPT !.at = "settle"]
    /\ UNCHANGED <<protocol, gui, now, counters, pastVars>>

EndStage ==
    /\ aux.at = "settle"
    /\ counters' = [counters EXCEPT !.active = FALSE,
                      !.nextFeedback = IF aux.probe.version = 3 THEN now + ActivePeriod ELSE @]
    /\ aux' = Ticking
    /\ UNCHANGED <<protocol, gui, now, sent, pastVars, told>>

\* An NFv3 datagram of the peer that does not parse.
ReceiveInvalid ==
    /\ aux = Waiting /\ protocol # 0
    /\ counters' = [counters EXCEPT !.errors = @ + 1]
    /\ invalid' = invalid + 1
    /\ aux' = Ticking
    /\ UNCHANGED <<protocol, gui, now, sent, normal, probes, stage, told>>

\* Which tick it is depends on the link as it is now, not as the tick finds it.
ChooseTick ==
    /\ aux = Ticking
    /\ aux' = [at |-> "chosen", version |-> IF protocol = 4 THEN 4 ELSE 3]
    /\ UNCHANGED <<protocol, gui, now, counters, sent, pastVars, told>>

\* Under NFv4 capabilities are announced once a session, under NFv3 every 5 s.
TickCapabilities ==
    /\ aux.at = "chosen" /\ Enabled(aux.version)
    /\ counters' = IF aux.version = 4 THEN [counters EXCEPT !.announced = TRUE]
                 ELSE [counters EXCEPT !.nextCaps = IF now >= @ THEN now + CapsPeriod ELSE @]
    /\ aux' = [at |-> "tick", version |-> aux.version, moment |-> now, active |-> counters.active]
    /\ UNCHANGED <<protocol, gui, now, sent, pastVars, told>>

TickUnconnected ==
    /\ aux.at = "chosen" /\ ~Enabled(aux.version)
    /\ aux' = Waiting
    /\ UNCHANGED <<protocol, gui, now, counters, sent, pastVars, told>>

TickFeedback ==
    /\ aux.at = "tick"
    /\ aux' = IF aux.moment < counters.nextFeedback THEN Waiting
              ELSE [aux EXCEPT !.at = IF Enabled(aux.version) THEN "report" ELSE "next"]
    /\ UNCHANGED <<protocol, gui, now, counters, sent, pastVars, told>>

SendFeedback ==
    /\ aux.at = "report"
    /\ SendReport(FALSE, FALSE)
    /\ aux' = [aux EXCEPT !.at = "next"]
    /\ UNCHANGED <<protocol, gui, now, counters, pastVars>>

\* NFv4 has read before the report whether a stage is running, NFv3 reads it now.
NextFeedback ==
    LET active == IF aux.version = 4 THEN aux.active ELSE counters.active IN
    /\ aux.at = "next"
    /\ counters' = [counters EXCEPT
            !.nextFeedback = aux.moment + (IF active THEN ActivePeriod ELSE IdlePeriod)]
    /\ aux' = Waiting
    /\ UNCHANGED <<protocol, gui, now, sent, pastVars, told>>

TimePasses(t) ==
    /\ t > now
    /\ now' = t
    /\ UNCHANGED <<protocol, gui, aux, counters, sent, pastVars, told>>

-----------------------------------------------------------------------------
Probes ==
    {p \in [test : Nat, stage : Nat, n : PacketNumbers, version : {3, 4}, end : BOOLEAN,
            final : BOOLEAN] : <<p.test, p.stage>> \in Stages}

\* What comes from outside, and what the threads do then.
Inputs ==
    \/ \E version \in {3, 4} : LinkUp(version)
    \/ LinkDown
    \/ \E n \in PacketNumbers : ObserveDataPacket(n)
    \/ ReceiveInvalid
    \/ ReceiveTimeout
    \/ \E t \in Moments : TimePasses(t)

Continues ==
    \/ ResetDiagnostics
    \/ AnnounceLink
    \/ ProcessProbe
    \/ Answer
    \/ Reply
    \/ EndStage
    \/ ChooseTick
    \/ TickCapabilities
    \/ TickUnconnected
    \/ TickFeedback
    \/ SendFeedback
    \/ NextFeedback

ReportsNext == Inputs \/ (\E p \in Probes : ReceiveProbe(p)) \/ Continues

ReportsSpec == ReportsInit /\ [][ReportsNext]_reportVars

-----------------------------------------------------------------------------
(* Properties.                                                             *)

\* However packets are lost, repeated or overtaken, whatever the other thread does
\* in between and however often the link is renewed, every report says how many
\* packets since the reset and probes of the running stage were received, and how
\* many were missing when a later one came, across the wrap of the numbers.
ToldTheTruth == sent = told

\* The last probe of a stage is answered with the counts of its stage and with it
\* counted, unless the counters were reset before.
StageIsAnswered ==
    aux.at \in {"answer", "reply"} =>
        \/ probes = <<>>
        \/ stage = <<aux.probe.test, aux.probe.stage>> /\ Last(probes) = aux.probe.n

ReportsAreExact == ToldTheTruth /\ StageIsAnswered
================================================================================
