-------------------------------- MODULE Capture --------------------------------
(***************************************************************************)
(* A recording and its replay: how data_receiver.py and ui/main_window.py  *)
(* use the data model.  Samples of the device, of the force sensor (FT)    *)
(* and of the motion capture are recorded; clock exchanges and FT frames   *)
(* are kept as evidence, from which transforms of the clocks are made,     *)
(* while data comes in or by a calibration in a background thread; the     *)
(* capture can be exported, cleared and imported again; and the plot keeps *)
(* the series it last drew as long as the data model says that nothing     *)
(* changed.                                                                *)
(*                                                                         *)
(* Actions are the handlers of the GUI thread, except Measure (auxiliary   *)
(* thread).                                                                *)
(***************************************************************************)
EXTENDS DataModel

CONSTANTS
    NfVars, FtVars, MocapVars,  \* the variables of the three kinds of source
    Ports,          \* sources of the device's ports
    NfClock, Ft, Mocap,         \* NF_CLOCK_SOURCE, "ft", "mocap"
    CsvSource,      \* variable -> source of its imported series
    CsvClock,       \* clock of imported series that have no clock domain
    Schemas,        \* what the device can export: functions from NfVars to ports
    LosesBodies,    \* the motion capture can lose track of a body
    Times,          \* bound: times of a clock
    Packets,        \* bound: what comes, by origin: time sent, age of the sample, delay
    Measured,       \* bound: offsets that a clock exchange can yield
    MaxSession,     \* bound: sessions of a clock
    MaxSamples,     \* bound: samples recorded
    MaxHandled,     \* bound: samples in a capture that is exported or calibrated
    MaxResults,     \* bound: calibrations under way
    MaxEvidence     \* bound: clock observations kept

\* The times of samples.
Instant == 0 .. Max(Times)

\* Sources and clocks have names of their own; packets bring samples of Instant.
ASSUME CaptureAssumption ==
    /\ NfVars \cup FtVars \cup MocapVars \subseteq Vars /\ IsFiniteSet(Vars)
    /\ Ports \cup {NfClock, Ft, Mocap, CsvClock} \subseteq Sources
    /\ None \notin Sources \cup [offset : Int, epoch : Nat]
    /\ NfClock \notin {Ft, Mocap} /\ Ft # Mocap /\ Ports \cap {NfClock, Ft, Mocap} = {}
    /\ CsvSource \in [Vars -> Sources] /\ Schemas \subseteq [NfVars -> Ports]
    /\ Times \subseteq Nat /\ IsFiniteSet(Times) /\ Times # {}
    /\ Measured \subseteq Int /\ MaxSession \in Nat \ {0}
    /\ \A s \in {NfClock, Ft, Mocap} : \A p \in Packets[s] :
          p.sent \in Instant /\ p.sent - p.age \in Instant /\ p.delay \in Int

VARIABLES
    model,      \* data_model
    schema,     \* nf_schema_by_key: which port publishes which variable
    ingesting,  \* data_ingestion_enabled
    replay,     \* active_data_source.kind = "replay"
    epoch,      \* nf_clock_estimator.epoch
    evidence,   \* clock_observations
    results,    \* _clock_calibration_results: models fitted and not yet applied
    file,       \* the exported file, Nothing if there is none
    cache       \* _curve_cache: variable -> the series last drawn, None if outdated

vars == <<model, schema, ingesting, replay, epoch, evidence, results, file, cache>>

Init ==
    /\ model = EmptyModel /\ schema \in Schemas
    /\ ingesting = TRUE /\ replay = FALSE
    /\ epoch = 1 /\ evidence = {} /\ results = <<>>
    /\ file = Nothing /\ cache = [v \in Vars |-> None]

-----------------------------------------------------------------------------
\* The model after a handler.  A series that was drawn under a revision key
\* that has moved is never used again.
Becomes(m) ==
    /\ model' = [m EXCEPT !.bumped = {}, !.valued = {}]
    /\ cache' = [v \in Vars |-> IF v \in m.valued \/ m.vars[v].src \in m.bumped
                                THEN None ELSE cache[v]]

Samples(m) == Cardinality(UNION {{s} \X DOMAIN m.sources[s].stamps : s \in Sources})
Room(m) == /\ Samples(m) <= MaxSamples
           /\ \A s \in Sources : m.sources[s].session <= MaxSession

Domains == {NfClock, Ft}
OfSession(clock, label) == {o \in evidence : o.clock = clock /\ o.session = label}
Offsets(observations) == {o.offset : o \in observations}

\* RealtimeOffsetTracker: at most once a second, the offset of the best of the
\* recent observations; the tracker forgets those of another session or capture.
Published(m, clock, label, observations) ==
    {m} \cup {SetClockTransform(m, clock, [offset |-> d, epoch |-> label]) :
                 d \in Offsets({o \in observations : ~o.imported})}

-----------------------------------------------------------------------------
(* Samples.                                                                *)

\* process_data, FT: the frame has all variables of the sensor.
FtFrame(ts, delay) ==
    LET m == AddData(model, Ft, ts + delay, ts, Ft, ts, [v \in FtVars |-> ts])
        label == m.sources[Ft].session
        seen  == [clock |-> Ft, session |-> label, offset |-> delay, imported |-> FALSE]
    IN /\ ingesting /\ Room(m)
       /\ evidence' = evidence \cup {seen} /\ Cardinality(evidence') <= MaxEvidence
       /\ \E p \in Published(m, Ft, label, OfSession(Ft, label) \cup {seen}) : Becomes(p)
       /\ UNCHANGED <<schema, ingesting, replay, epoch, results, file>>

\* process_data, motion capture: bodies that are not tracked are not in the frame.
MocapFrame(tracked, ts, delay) ==
    LET m == AddData(model, Mocap, ts + delay, ts, Mocap, ts, [v \in tracked |-> ts]) IN
    /\ ingesting /\ Room(m)
    /\ tracked = MocapVars \/ LosesBodies
    /\ Becomes(m)
    /\ UNCHANGED <<schema, ingesting, replay, epoch, evidence, results, file>>

\* _process_nfv3_data, one published port: the sample is age older than the packet.
NfSample(v, sent, age, delay) ==
    LET m == AddData(model, schema[v], sent + delay, sent - age, NfClock, sent,
                     [w \in {v} |-> sent - age]) IN
    /\ ingesting /\ Room(m)
    /\ Becomes(m)
    /\ UNCHANGED <<schema, ingesting, replay, epoch, evidence, results, file>>

\* The schema of the device that is recorded, or of one that a replay hides.
SchemaInstalled(s) ==
    /\ schema' = s
    /\ UNCHANGED <<model, cache, ingesting, replay, epoch, evidence, results, file>>

\* The schema of the device that the user asked for during a replay: the live
\* view begins anew (PlotWindow says when an answer may do so).
SchemaActivates(s) ==
    /\ replay
    /\ schema' = s
    /\ Becomes(Clear(model)) /\ evidence' = {}
    /\ ingesting' = TRUE /\ replay' = FALSE
    /\ UNCHANGED <<epoch, results, file>>

-----------------------------------------------------------------------------
(* Clocks.                                                                 *)

\* The clock source takes the estimator's epoch as its session.
SyncEpoch(m) ==
    IF m.sources[NfClock].session = epoch THEN m ELSE BeginClockEpoch(m, NfClock, epoch)

\* A clock exchange with the device, during a replay too.
Measure(offset) ==
    LET m    == SyncEpoch(model)
        seen == [clock |-> NfClock, session |-> epoch, offset |-> offset, imported |-> FALSE]
    IN /\ evidence' = evidence \cup {seen} /\ Cardinality(evidence') <= MaxEvidence
       /\ \E p \in Published(m, NfClock, epoch, OfSession(NfClock, epoch) \cup {seen}) : Becomes(p)
       /\ UNCHANGED <<schema, ingesting, replay, epoch, results, file>>

\* A session begins: the estimator is reset, the clock source follows.
SessionStart ==
    /\ epoch < MaxSession
    /\ epoch' = epoch + 1
    /\ Becomes(BeginClockEpoch(model, NfClock, epoch + 1))
    /\ UNCHANGED <<schema, ingesting, replay, evidence, results, file>>

\* What a fit of some observations yields: a function of these, of which only
\* that it is one matters here.
Fit(observations) == Min(Offsets(observations))

ModelsOf(sessions) ==
    [key \in {k \in sessions : OfSession(k[1], k[2]) # {}} |->
        [offset |-> Fit(OfSession(key[1], key[2])), epoch |-> key[2]]]

Small(m) == Samples(m) <= MaxHandled

\* The observations are copied when the calibration starts; its models wait
\* until the GUI thread takes them.  A calibration that fails leaves nothing.
RequestCalibration ==
    LET models == ModelsOf({<<d, model.sources[d].session>> : d \in Domains}) IN
    /\ Small(model) /\ Len(results) < MaxResults
    /\ models # Nothing
    /\ results' = Append(results, models)
    /\ UNCHANGED <<model, cache, schema, ingesting, replay, epoch, evidence, file>>

\* _apply_clock_calibration_results, whatever the model holds by now.
ApplyCalibration ==
    /\ results # <<>>
    /\ Becomes(SetAlignmentMode(FoldLeft(SetCalibratedClockTransforms, model, results),
                                "calibrated"))
    /\ results' = <<>>
    /\ UNCHANGED <<schema, ingesting, replay, epoch, evidence, file>>

ChooseMode(mode) ==
    /\ Becomes(SetAlignmentMode(model, mode))
    /\ UNCHANGED <<schema, ingesting, replay, epoch, evidence, results, file>>

-----------------------------------------------------------------------------
(* Files and views.                                                        *)

\* Clear, and Start when there is nothing to show.
ClearCapture ==
    /\ Becomes(Clear(model)) /\ evidence' = {}
    /\ UNCHANGED <<schema, ingesting, replay, epoch, results, file>>

RawTable(m) == [v \in Vars |-> RawSeries(m, v)]

\* export_csv: raw samples, the evidence, and a fit of each session that has any.
\* A variable's domain says which clock it follows; only two have a name.
Export ==
    LET DomainOf(v) == LET c == ClockOf(model, model.vars[v].src) IN
                       IF c \in Domains THEN c ELSE CsvClock
    IN /\ Small(model)
       /\ file' = [ series   |-> RawTable(model),
                    domains  |-> [v \in {w \in Vars : Count(model, w) > 0} |-> DomainOf(v)],
                    evidence |-> evidence,
                    models   |-> ModelsOf({<<o.clock, o.session>> : o \in evidence}) ]
       /\ file'.domains # Nothing
       /\ UNCHANGED <<model, cache, schema, ingesting, replay, epoch, evidence,
                      results>>

ImportedModel(f) ==
    LET series == FoldSet(LAMBDA v, m : AddRawSeries(m, v, CsvSource[v], f.series[v], f.domains[v]),
                          Clear(model), DOMAIN f.domains)
    IN SetAlignmentMode(SetCalibratedClockTransforms(series, f.models),
                        IF f.models = Nothing THEN "realtime" ELSE "calibrated")

\* _load_imported_series and load_clock_capture.
Import ==
    /\ file # Nothing
    /\ Becomes(ImportedModel(file))
    /\ evidence' = {[o EXCEPT !.imported = TRUE] : o \in file.evidence}
    /\ ingesting' = FALSE /\ replay' = TRUE
    /\ UNCHANGED <<schema, epoch, results, file>>

\* The plot draws a curve and keeps what it drew with the revision key.
Draw(v) ==
    /\ cache[v] = None /\ Count(model, v) > 0
    /\ cache' = [cache EXCEPT ![v] = Series(model, v)]
    /\ UNCHANGED <<model, schema, ingesting, replay, epoch, evidence, results, file>>

Next ==
    \/ \E p \in Packets[Ft] : FtFrame(p.sent, p.delay)
    \/ \E p \in Packets[Mocap], tracked \in SUBSET MocapVars : MocapFrame(tracked, p.sent, p.delay)
    \/ \E p \in Packets[NfClock], v \in NfVars : NfSample(v, p.sent, p.age, p.delay)
    \/ \E s \in Schemas : SchemaInstalled(s)
    \/ \E s \in Schemas : SchemaActivates(s)
    \/ \E d \in Measured : Measure(d)
    \/ SessionStart
    \/ RequestCalibration
    \/ ApplyCalibration
    \/ \E mode \in {"realtime", "calibrated"} : ChooseMode(mode)
    \/ ClearCapture
    \/ Export
    \/ Import
    \/ \E v \in Vars : Draw(v)

Spec == Init /\ [][Next]_vars

(* Properties.                                                             *)

\* Every frame of a source has all its variables: no body is lost, no variable
\* belongs to two sources, and the device keeps its schema, in which a port
\* publishes one variable.  An imported series has a source of its own.
FramesAreWhole ==
    /\ ~LosesBodies
    /\ NfVars \cap (FtVars \cup MocapVars) = {} /\ FtVars \cap MocapVars = {}
    /\ \A s, t \in Schemas : s = t /\ IsInjective(s)
    /\ IsInjective(CsvSource)

\* The recording is a table of samples that are added, saved, loaded and
\* dropped, as long as frames are whole.
Table == INSTANCE SampleTable WITH
    Names <- Vars, Instants <- Instant, Labels <- 1..(MaxSession + 1), NoFile <- Nothing,
    table <- RawTable(model),
    saved <- IF file = Nothing THEN Nothing ELSE file.series,
    loaded <- ~ingesting
IsASampleTable == Table!TableSpec

\* Type invariant: axes, spans and values of the model are of the right shape.
TypeOK ==
    /\ \A s \in Sources :
          LET b == model.sources[s] IN
          /\ b.offset \in Sources \cup {None} /\ b.last \in Instant \cup {None}
          /\ b.session \in 1..(MaxSession + 1)
          /\ \A i \in DOMAIN b.stamps : b.stamps[i].ts \in Instant
    /\ \A v \in Vars : model.vars[v].src \in Sources \cup {None}
    /\ schema \in Schemas /\ epoch \in 1..MaxSession
    /\ {ingesting, replay} \subseteq BOOLEAN

\* The spans of a source divide its stamps, in order, into the runs of one session.
SpansDivide(b) ==
    /\ b.spans = <<>> <=> b.stamps = <<>>
    /\ b.spans # <<>> => b.spans[1].start = 1 /\ b.spans[Len(b.spans)].end = Len(b.stamps)
    /\ \A j \in DOMAIN b.spans :
          /\ 1 <= b.spans[j].start /\ b.spans[j].start <= b.spans[j].end
          /\ b.spans[j].end <= Len(b.stamps)
          /\ \A i \in b.spans[j].start .. b.spans[j].end :
                b.stamps[i].session = b.spans[j].session
          /\ j > 1 => /\ b.spans[j].start = b.spans[j - 1].end + 1
                      /\ b.spans[j].session # b.spans[j - 1].session
SessionsDivide == \A s \in Sources : SpansDivide(model.sources[s])

\* A curve drawn from the cache is the curve that the data model holds now:
\* no operation changes the values, the times or the alignment of a series
\* without moving a revision of its key.
CacheIsCurrent == \A v \in Vars : cache[v] # None => cache[v] = Series(model, v)

\* A variable's value is drawn at the time at which it was taken.
SamplesKeepTime ==
    \A v \in Vars : \A i \in DOMAIN RawSeries(model, v) :
        RawSeries(model, v)[i].value = RawSeries(model, v)[i].ts

\* In time order, and no two sessions meet at one instant.
InOrder(v) ==
    LET s == Series(model, v) IN
    \A i, j \in DOMAIN s : i < j =>
        /\ s[i].at <= s[j].at
        /\ RawSeries(model, v)[i].session # RawSeries(model, v)[j].session => s[i].at < s[j].at

\* How many samples of a series come before an instant, or not after it.
Before(s, t) == Cardinality({i \in DOMAIN s : s[i].at < t})
UpTo(s, t)   == Cardinality({i \in DOMAIN s : s[i].at <= t})

\* Window queries, which search the sessions of a source by bisection without
\* building the series, return exactly the samples in the window, and as many
\* around it as asked for.
WindowsAreExact ==
    \A v \in Vars : Count(model, v) > 0 /\ InOrder(v) =>
        LET s == Series(model, v) IN
        /\ \A k \in 0..2 : SeriesTail(model, v, k) = SubSeq(s, Max({0, Len(s) - k}) + 1, Len(s))
        /\ \A a \in Instant :
          /\ \A b \in {a, a + 1}, k \in 0..1 :
                SeriesBetween(model, v, a, b, k) =
                   SubSeq(s, Max({0, Before(s, a) - k}) + 1, Min({Len(s), UpTo(s, b) + k}))
          /\ SeriesWindowEndingAt(model, v, a, 1) = SubSeq(s, Max({1, UpTo(s, a)}), UpTo(s, a))
          /\ \A i \in DOMAIN s :
                Distance(NearestSample(model, v, a)[1].at, a) <= Distance(s[i].at, a)

\* The bounds of the timeline hold every sample that can be drawn.
BoundsHoldSeries ==
    (\A v \in Vars : InOrder(v)) =>
        LET b == TimeBounds(model, Vars) IN
        \A v \in Vars : \A x \in Range(Series(model, v)) : b[1] <= x.at /\ x.at <= b[2]

\* The queries of the views answer what the whole series says.
QueriesAreExact == TypeOK /\ SessionsDivide /\ WindowsAreExact /\ BoundsHoldSeries

\* While samples are recorded none is drawn at the raw time of its source: the
\* session of its clock has an offset or a transform, although an offset is
\* stored only for samples that come while there is no transform.
LiveSamplesAreAligned ==
    ingesting => \A v \in Vars : \A x \in Range(RawSeries(model, v)) :
        LET key == <<ClockOf(model, model.vars[v].src), x.session>> IN
        key \in DOMAIN model.offsets \cup DOMAIN model.history

=============================================================================
