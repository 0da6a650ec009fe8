------------------------------- MODULE DataModel -------------------------------
(***************************************************************************)
(* data_model.py: what the Monitor stores of the samples it receives, and  *)
(* how it answers queries.  A data model is a record m; every operation of *)
(* the class is an operator that returns the model after the call.         *)
(*                                                                         *)
(* A source has one time axis (stamps) that all its variables share: the   *)
(* i-th value of a variable belongs to the i-th stamp of its source.  A    *)
(* stamp is in the clock of the source and is labelled with a session of   *)
(* that clock; where it lies on the axis of the plot is computed anew for  *)
(* every query from the offsets and transforms known by then.              *)
(*                                                                         *)
(* Revision numbers come from one counter, so all that a cache can learn   *)
(* from them is whether one of them has moved: m.bumped and m.valued are   *)
(* the sources and variables whose revisions the operation has moved.      *)
(*                                                                         *)
(* A transform is its offset and its epoch: every transform published is   *)
(* usable, and drift changes the offset but not the order of samples.      *)
(***************************************************************************)
EXTENDS Integers, Sequences, FiniteSets, SequencesExt, FiniteSetsExt

CONSTANTS
    Sources,    \* names of sources, clock sources included
    Vars,       \* names of variables
    Jump,       \* JUMP_THRESHOLD_MS
    None        \* Python's None

ASSUME JumpAssumption == Jump \in Nat

NoBucket == [offset |-> None, stamps |-> <<>>, spans |-> <<>>, last |-> None, session |-> 1]
Unbound  == [src |-> None, values |-> <<>>]
Nothing  == [k \in {} |-> None]

\* A dictionary with one more entry, or several.
With(f, key, x) == [k \in DOMAIN f \cup {key} |-> IF k = key THEN x ELSE f[k]]
Updated(f, g) ==
    [k \in DOMAIN f \cup DOMAIN g |-> IF k \in DOMAIN g THEN g[k] ELSE f[k]]

EmptyModel ==
    [ sources    |-> [s \in Sources |-> NoBucket],
      vars       |-> [v \in Vars |-> Unbound],
      offsets    |-> Nothing,                       \* (clock, session) -> offset
      transforms |-> [s \in Sources |-> None],      \* the current one of a clock
      history    |-> Nothing,                       \* (clock, session) -> transform
      calibrated |-> Nothing,                       \* (clock, session) -> transform
      mode       |-> "realtime",
      bumped     |-> {},
      valued     |-> {} ]

\* clear: the epoch in every cache key moves.
Clear(m) == [EmptyModel EXCEPT !.bumped = Sources, !.valued = Vars]

ClockOf(m, s) == IF m.sources[s].offset = None THEN s ELSE m.sources[s].offset

\* _mark_alignment_changed, for every source that follows the clock.
Mark(m, clock) ==
    [m EXCEPT !.bumped = @ \cup {s \in Sources : ClockOf(m, s) = clock}]

-----------------------------------------------------------------------------
(* Recording.                                                              *)

\* A span is a run of stamps with one label.
Extended(spans, n, label) ==
    IF spans # <<>> /\ Last(spans).session = label
    THEN [spans EXCEPT ![Len(spans)].end = n]
    ELSE Append(spans, [session |-> label, start |-> n, end |-> n])

AddTimestamp(m, s, ts, label) ==
    LET b == m.sources[s] IN
    [m EXCEPT !.sources[s].stamps = Append(b.stamps, [ts |-> ts, session |-> label]),
              !.sources[s].spans  = Extended(b.spans, Len(b.stamps) + 1, label),
              !.bumped = @ \cup {s}]

\* The clock has gone back too far for a late datagram: another session of it.
RolledBack(m, clock, ts) ==
    m.sources[clock].last # None /\ ts < m.sources[clock].last - Jump

\* The smallest difference of arrival and clock seen in the session so far.
LowerOffset(m, clock, label, offset) ==
    LET key == <<clock, label>> IN
    IF key \in DOMAIN m.offsets /\ m.offsets[key] <= offset
    THEN m
    ELSE Mark([m EXCEPT !.offsets = With(@, key, offset)], clock)

\* Mutant: a transform of another session stands in for the offset.
UpdateTrustsTransform(m, s, arrival, ts, clock, clockTs) ==
    LET m1 == [m EXCEPT !.sources[s].offset = clock]
        label == m1.sources[clock].session + (IF RolledBack(m1, clock, clockTs) THEN 1 ELSE 0)
        m2 == [m1 EXCEPT !.sources[clock].session = label, !.sources[clock].last = clockTs]
    IN AddTimestamp(IF m2.transforms[clock] # None THEN m2
                    ELSE LowerOffset(m2, clock, label, arrival - clockTs), s, ts, label)

\* update_source_timestamp; clockTs is the clock's time at the packet, arrival
\* the host's.
UpdateSourceTimestamp(m, s, arrival, ts, clock, clockTs) ==
    LET m1 == IF m.sources[s].offset = clock THEN m
              ELSE [m EXCEPT !.sources[s].offset = clock, !.bumped = @ \cup {s}]
        label == m1.sources[clock].session + (IF RolledBack(m1, clock, clockTs) THEN 1 ELSE 0)
        m2 == [m1 EXCEPT !.sources[clock].session = label, !.sources[clock].last = clockTs]
        m3 == IF s = clock THEN m2 ELSE [m2 EXCEPT !.sources[s].last = ts]
        t  == m3.transforms[clock]
        m4 == IF t # None /\ t.epoch = label THEN m3
              ELSE LowerOffset(m3, clock, label, arrival - clockTs)
    IN AddTimestamp(m4, s, ts, label)

\* ensure_var raises for a variable of another source; the caller has stored
\* the timestamp by then.
AddValues(m, s, data) ==
    IF \E v \in DOMAIN data : m.vars[v].src \notin {None, s} THEN m
    ELSE [m EXCEPT
            !.vars   = [v \in Vars |-> IF v \notin DOMAIN data THEN @[v]
                          ELSE [src |-> s, values |-> Append(@[v].values, data[v])]],
            !.valued = @ \cup DOMAIN data]

AddData(m, s, arrival, ts, clock, clockTs, data) ==
    AddValues(UpdateSourceTimestamp(m, s, arrival, ts, clock, clockTs), s, data)

\* Mutant: an imported series is one session.
AddAsOneSession(m, v, s, samples, clock) ==
    LET n == Len(samples) IN
    [m EXCEPT
       !.sources[s] = [NoBucket EXCEPT
          !.offset = clock,
          !.stamps = [i \in 1..n |-> [ts |-> samples[i].ts, session |-> 1]],
          !.spans  = <<[session |-> 1, start |-> 1, end |-> n]>>],
       !.vars[v] = [src |-> s, values |-> [i \in 1..n |-> samples[i].value]]]

\* add_raw_series, for a source and a variable that have no data:
\* the importer clears the model and gives each variable a source of its own.
AddRawSeries(m, v, s, samples, clock) ==
    LET n     == Len(samples)
        label == samples[n].session
    IN IF n = 0 THEN m ELSE
       [m EXCEPT
          !.sources[s] = [ offset  |-> clock,
                           stamps  |-> [i \in 1..n |-> [ts |-> samples[i].ts,
                                                        session |-> samples[i].session]],
                           spans   |-> FoldLeftDomain(
                                         LAMBDA spans, i : Extended(spans, i, samples[i].session),
                                         <<>>, samples),
                           last    |-> samples[n].ts,
                           session |-> label ],
          !.sources[clock].session = label,
          !.vars[v] = [src |-> s, values |-> [i \in 1..n |-> samples[i].value]],
          !.bumped = @ \cup {s}, !.valued = @ \cup {v}]

-----------------------------------------------------------------------------
(* Clocks.                                                                 *)

SetClockTransform(m, clock, t) ==
    LET changed == [m EXCEPT !.transforms[clock] = t,
                             !.history = With(@, <<clock, t.epoch>>, t)]
    IN IF m.transforms[clock] = t THEN changed ELSE Mark(changed, clock)

\* Mutant: the curves that follow the clocks are not marked.
CalibratedUnmarked(m, models) == [m EXCEPT !.calibrated = Updated(@, models)]

\* set_calibrated_clock_transform for each of models, which are of different sessions.
SetCalibratedClockTransforms(m, models) ==
    LET changed == {key \in DOMAIN models :
                       key \notin DOMAIN m.calibrated \/ m.calibrated[key] # models[key]}
    IN [m EXCEPT
          !.calibrated = Updated(@, models),
          !.bumped = @ \cup {s \in Sources : \E key \in changed : key[1] = ClockOf(m, s)}]

SetAlignmentMode(m, mode) ==
    IF mode = m.mode THEN m ELSE [m EXCEPT !.mode = mode, !.bumped = Sources]

BeginClockEpoch(m, clock, epoch) ==
    LET b == [m.sources[clock] EXCEPT !.session = Max({1, epoch}), !.last = None]
        changed == [m EXCEPT !.sources[clock] = b, !.transforms[clock] = None]
    IN IF m.sources[clock].session = b.session THEN changed ELSE Mark(changed, clock)

-----------------------------------------------------------------------------
(* Queries.                                                                *)

\* _alignment_parameters: the offset of a session of a clock.
Aligned(m, s, label) ==
    LET key == <<ClockOf(m, s), label>> IN
    IF m.mode = "calibrated" /\ key \in DOMAIN m.calibrated THEN m.calibrated[key].offset
    ELSE IF key \in DOMAIN m.history THEN m.history[key].offset
    ELSE IF key \in DOMAIN m.offsets THEN m.offsets[key]
    ELSE 0

MapTimestamp(m, s, i) ==
    LET stamp == m.sources[s].stamps[i] IN stamp.ts + Aligned(m, s, stamp.session)

\* _series_storage: how many samples of v have a time and a value.
Count(m, v) ==
    IF m.vars[v].src = None THEN 0
    ELSE Min({Len(m.vars[v].values), Len(m.sources[m.vars[v].src].stamps)})

RawSeries(m, v) ==
    [i \in 1..Count(m, v) |-> [ts      |-> m.sources[m.vars[v].src].stamps[i].ts,
                               session |-> m.sources[m.vars[v].src].stamps[i].session,
                               value   |-> m.vars[v].values[i]]]

Slice(m, v, from, to) ==
    [i \in 1..Max({0, to - from + 1}) |->
        [at    |-> MapTimestamp(m, m.vars[v].src, from + i - 1),
         value |-> m.vars[v].values[from + i - 1]]]

Series(m, v) == Slice(m, v, 1, Count(m, v))

\* _aligned_insertion_index, where bisection counts the earlier samples of a span
\* as these are in order: how many samples come before the target (up to and
\* with it, if right).  The first span that ends at or after the target decides.
InsertionIndex(m, v, target, right) ==
    LET s      == m.vars[v].src
        n      == Count(m, v)
        At(i)  == MapTimestamp(m, s, i)
        before(i) == At(i) < target \/ (right /\ At(i) = target)
        Spans  == m.sources[s].spans
        Clip(j) == Min({n, Spans[j].end})
        Decides(j) == /\ Spans[j].start <= n
                      /\ \/ ~before(Spans[j].start)
                         \/ target <= At(Clip(j))
        deciding == {j \in DOMAIN Spans : Decides(j)}
    IN IF deciding = {} THEN n
       ELSE LET j == Min(deciding) IN
            (Spans[j].start - 1) + Cardinality({i \in Spans[j].start..Clip(j) : before(i)})

\* Mutant: the end of the window is excluded.
BetweenHalfOpen(m, v, from, to, around) ==
    IF Count(m, v) = 0 THEN <<>>
    ELSE LET low  == InsertionIndex(m, v, from, FALSE)
             high == InsertionIndex(m, v, to, FALSE)
         IN Slice(m, v, Max({0, low - around}) + 1, Min({Count(m, v), high + around}))

\* _query_range and the slices that use it.
SeriesBetween(m, v, from, to, around) ==
    IF Count(m, v) = 0 THEN <<>>
    ELSE LET low  == InsertionIndex(m, v, from, FALSE)
             high == InsertionIndex(m, v, to, TRUE)
         IN Slice(m, v, Max({0, low - around}) + 1, Min({Count(m, v), high + around}))

SeriesWindowEndingAt(m, v, to, k) ==
    IF Count(m, v) = 0 \/ k <= 0 THEN <<>>
    ELSE LET high == InsertionIndex(m, v, to, TRUE)
         IN Slice(m, v, Max({0, high - k}) + 1, high)

SeriesTail(m, v, k) ==
    IF k <= 0 THEN <<>> ELSE Slice(m, v, Max({0, Count(m, v) - k}) + 1, Count(m, v))

\* The samples at or before the target and after it, if any.
BracketingSamples(m, v, target) ==
    LET n == Count(m, v)
        k == IF n = 0 THEN 0 ELSE InsertionIndex(m, v, target, TRUE)
    IN <<Slice(m, v, Max({1, k}), k), Slice(m, v, k + 1, Min({n, k + 1}))>>

Distance(a, b) == IF a < b THEN b - a ELSE a - b

NearestSample(m, v, target) ==
    LET b == BracketingSamples(m, v, target)
        nearer == b[1] # <<>> /\ (b[2] = <<>>
                     \/ Distance(b[1][1].at, target) <= Distance(b[2][1].at, target))
    IN IF nearer THEN b[1] ELSE b[2]

\* The first and the last sample of each source, taken from one of its variables.
TimeBounds(m, names) ==
    LET known == {v \in names : Count(m, v) > 0}
        ends  == UNION {{MapTimestamp(m, m.vars[v].src, 1),
                         MapTimestamp(m, m.vars[v].src, Count(m, v))} : v \in known}
    IN IF known = {} THEN <<None, None>> ELSE <<Min(ends), Max(ends)>>
=============================================================================
