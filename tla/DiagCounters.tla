----------------------------- MODULE DiagCounters -----------------------------
(***************************************************************************)
(* What the Monitor counts of the packets it receives: data packets of the *)
(* session, probes of the running stage of a test, and those of either     *)
(* that are missing.  The counters are a record m, guarded by the          *)
(* diagnostics lock; each operation here is what is done with it while the *)
(* lock is held once.  DiagReports composes them.                          *)
(***************************************************************************)
EXTENDS Integers

CONSTANTS
    Wrap,           \* 2^32, where sequence numbers start again
    ActivePeriod,   \* NF_DIAG_FEEDBACK_ACTIVE_MS
    IdlePeriod,     \* NF_DIAG_FEEDBACK_IDLE_MS
    CapsPeriod      \* the 5 s between two announcements under NFv3

ASSUME CounterConstants ==
    /\ Wrap \in Nat /\ Wrap >= 4 /\ Wrap % 2 = 0
    /\ {ActivePeriod, IdlePeriod, CapsPeriod} \subseteq Nat \ {0}

Unseen == -1    \* no sequence number yet

\* Mutant: a late number counts like a step once around.
AdvanceAnyWay(sequence, last) ==
    LET forward == (sequence - last) % Wrap
    IN IF last = Unseen THEN <<sequence % Wrap, 0>>
       ELSE IF forward = 0 THEN <<last, 0>> ELSE <<sequence % Wrap, forward - 1>>

\* The number that is the latest now and how many were skipped to it: one that
\* is repeated or less than half way behind changes neither.
AdvanceSequenceCounter(sequence, last) ==
    LET forward == (sequence - last) % Wrap
    IN IF last = Unseen THEN <<sequence % Wrap, 0>>
       ELSE IF forward = 0 \/ forward >= Wrap \div 2 THEN <<last, 0>>
       ELSE <<sequence % Wrap, forward - 1>>

NoCount == [rx |-> 0, gaps |-> 0, last |-> Unseen, maxGap |-> 0]

Count(c, sequence) ==
    LET next == AdvanceSequenceCounter(sequence, c.last)
        missing == next[2]
    IN [rx |-> c.rx + 1, gaps |-> c.gaps + missing, last |-> next[1],
        maxGap |-> IF missing > c.maxGap THEN missing ELSE c.maxGap]

\* _reset_nfv3_diagnostics_, when a session begins.  The context of loaded clock
\* requests is ClockClient's.
Fresh ==
    [normal |-> NoCount, probe |-> NoCount, test |-> 0, stage |-> 0, errors |-> 0,
     active |-> FALSE, announced |-> FALSE, nextFeedback |-> 0, nextCaps |-> 0]

\* A probe belongs to a stage of a test; the first of another stage, an earlier
\* one included, starts the counts anew.
CountProbe(m, p, sequence) ==
    LET begun == IF <<p.test, p.stage>> # <<m.test, m.stage>> THEN NoCount ELSE m.probe
    IN [m EXCEPT !.test = p.test, !.stage = p.stage, !.active = TRUE,
                 !.probe = Count(begun, sequence)]

\* The last number of a report, which has none for "no number yet".
Reported(last) == IF last = Unseen THEN 0 ELSE last

\* What is reported of the counters.
Feedback(m, complete, final) ==
    [test |-> m.test, stage |-> m.stage, complete |-> complete, final |-> final,
     normalRx |-> m.normal.rx, normalGaps |-> m.normal.gaps,
     rx |-> m.probe.rx, gaps |-> m.probe.gaps, last |-> Reported(m.probe.last),
     maxGap |-> m.probe.maxGap, errors |-> m.errors]
===============================================================================
