------------------------------ MODULE MCAlgorithms ------------------------------
(***************************************************************************)
(* The pure algorithms of the Monitor on every input of a bounded set.  A  *)
(* behaviour asks one question, the state after it is the question, and    *)
(* the invariants compare the answer of the code's algorithm with a        *)
(* definition of the right answer.                                         *)
(***************************************************************************)
EXTENDS CurveExpr, Recordings, Codec, PeakCapture, MonitorCsv,
        DiagReports, Trajectory

VARIABLE question

-----------------------------------------------------------------------------
(* Filters and the samples for the screen.                                 *)

Sample(t, v) == [t |-> t, v |-> v]

\* The times of a series, which may repeat.
Axes == UNION {{f \in [1..n -> 0..3] : \A i \in 2..n : f[i - 1] <= f[i]} : n \in 1..4}

FilterValues(n) == {Whole(0), Whole(1), Whole(5)} \cup (IF n < 4 THEN {NaN} ELSE {})

AskFilter ==
    \/ /\ question.about = "nothing"
       /\ \E ts \in Axes : question' = [about |-> "axis", ts |-> ts]
    \/ /\ question.about = "axis"
       /\ \E vs \in [DOMAIN question.ts -> FilterValues(Len(question.ts))] :
            question' = [about |-> "filter",
                         s |-> [i \in DOMAIN vs |-> Sample(question.ts[i], vs[i])]]

AskScreen ==
    \/ /\ question.about = "nothing"
       /\ \E n \in {5, 7}, v \in {Whole(0), Whole(2), NaN} :
            question' = [about |-> "length", n |-> n, v |-> v]
    \/ /\ question.about = "length"
       /\ \E vs \in [1..question.n -> {Whole(0), Whole(2), NaN}] :
            /\ vs[1] = question.v
            /\ question' = [about |-> "screen", s |-> [i \in DOMAIN vs |-> Sample(i, vs[i])]]

\* The values within half the width of time t.
Near(s, t, width) ==
    LET near == SelectSeq(FiniteSeries(s), LAMBDA x : 2 * Magnitude(x.t - t) <= width)
    IN [k \in DOMAIN near |-> near[k].v]

Mean(values) == Over(FoldLeft(Plus, Nought, values), Whole(Len(values)))

\* The k-th smallest value, counted.
Ranked(values, k) ==
    CHOOSE v \in ToSet(values) :
        /\ Cardinality({i \in DOMAIN values : Less(values[i], v)}) < k
        /\ Cardinality({i \in DOMAIN values : AtMost(values[i], v)}) >= k

Median(values) ==
    LET n == Len(values)
    IN Mean(<<Ranked(values, (n + 1) \div 2), Ranked(values, (n + 2) \div 2)>>)

IsSpike(values, v, sigma) ==
    LET away(x) == Distance(x, Median(values))
        mad == Median([k \in DOMAIN values |-> away(values[k])])
    IN Less(Times(Times(sigma, ScaleFactor), mad), away(v))

Each(s, F(_)) ==
    LET f == FiniteSeries(s) IN [k \in DOMAIN f |-> Sample(f[k].t, F(f[k]))]

\* moving_average, moving_median and hampel_filter slide their windows over the
\* series; what they give at every finite sample depends on exactly the finite
\* samples within half the width of it, those at the edge included: it is their
\* mean, their median, and the sample itself unless it is further from the
\* median than sigma scaled median deviations.
FiltersAreCentred ==
    question.about = "filter" =>
        LET s == question.s IN
        \A width \in {1, 2, 4} :
            /\ MovingAverage(s, width) = Each(s, LAMBDA x : Mean(Near(s, x.t, width)))
            /\ MovingMedian(s, width) = Each(s, LAMBDA x : Median(Near(s, x.t, width)))
            /\ \A sigma \in {Nought, Frac(1, 2)} :
                 HampelFilter(s, width, sigma) =
                     Each(s, LAMBDA x : IF IsSpike(Near(s, x.t, width), x.v, sigma)
                                        THEN Median(Near(s, x.t, width)) ELSE x.v)

\* What the plot draws is thinned out by min_max_downsample to the points it may
\* draw: the drawn samples keep their order and are no more than that, the ends
\* of the curve are drawn, and no finite sample is higher or lower than what is
\* drawn between the same two ends.
ScreenKeepsExtremes ==
    question.about = "screen" =>
        LET s == question.s
            finite(r) == ToSet(FiniteSeries(r))
        IN \A points \in {0, 5, 6} :
            LET r == MinMaxDownsample(s, points) IN
            /\ Len(r) <= Max({4, points})
            /\ r[1] = s[1] /\ Last(r) = Last(s)
            /\ \A k \in 2..Len(r) : r[k - 1].t < r[k].t
            /\ ToSet(r) \subseteq ToSet(s)
            /\ \A x \in finite(s) : \E y, z \in finite(r) : AtMost(y.v, x.v) /\ AtMost(x.v, z.v)

-----------------------------------------------------------------------------
(* Expressions.                                                            *)

Names == {<<"a">>, <<"a", "-", "1">>, <<"a", "[", "1", "]">>}

Leaves == {<<"num", Whole(2)>>} \cup {<<"ref", name>> : name \in Names}

Built(nodes, operands) ==
    {<<"unary", op, e>> : op \in {"+", "-"}, e \in nodes}
      \cup {<<"bin", op, l, r>> : op \in {"+", "-", "*", "/"}, l \in nodes, r \in operands}
      \cup {<<"bin", op, l, r>> : op \in {"+", "-", "*", "/"}, l \in operands, r \in nodes}
      \cup {<<"call", "d", <<e>>>> : e \in nodes}
      \cup {<<"call", "clip", <<e, <<"num", Whole(1)>>>>>> : e \in nodes}

Small == Leaves \cup Built(Leaves, Leaves)
Operands == {<<"num", Whole(2)>>, <<"ref", <<"a">>>>,
             <<"bin", "-", <<"num", Whole(2)>>, <<"ref", <<"a">>>>>>,
             <<"bin", "/", <<"ref", <<"a">>>>, <<"num", Whole(2)>>>>}

AskText ==
    \/ /\ question.about = "nothing"
       /\ \E e \in Small : question' = [about |-> "text", e |-> e]
    \/ /\ question.about = "text" /\ question.e \in Small
       /\ \E e \in Built({question.e}, Operands) : question' = [about |-> "text", e |-> e]

\* An expression as it is written by hand, with the parentheses it needs: level
\* 1 is a sum, 2 a product, 3 a signed operand, 4 anything else.
Level(e) == CASE e[1] = "bin" /\ e[2] \in {"+", "-"} -> 1
              [] e[1] = "bin" /\ e[2] \in {"*", "/"} -> 2
              [] e[1] = "unary" -> 3
              [] OTHER -> 4

RECURSIVE Written(_)
AtLevel(e, level) ==
    IF Level(e) >= level THEN Written(e) ELSE <<"(">> \o Written(e) \o <<")">>
Written(e) ==
    CASE e[1] = "num"   -> <<"2">>
      [] e[1] = "ref"   -> FormatCurveRef(e[2])
      [] e[1] = "unary" -> <<e[2]>> \o AtLevel(e[3], 3)
      [] e[1] = "bin"   -> AtLevel(e[3], Level(e)) \o <<e[2]>> \o AtLevel(e[4], Level(e) + 1)
      [] e[1] = "call"  -> <<e[2], "(">> \o Written(e[3][1])
                             \o (IF Len(e[3]) = 1 THEN <<>> ELSE <<",", "1">>) \o <<")">>

\* The parser reads an expression as it is meant: products bind closer than
\* sums, operators of one level associate to the left, a sign belongs to its
\* operand, and the reference the panel inserts for a curve (_format_curve_ref)
\* names that curve, as long as the name does not hold both a "]" and an operator.
ParsesAsWritten == question.about = "text" => Parse(Written(question.e)) = question.e

\* Curve expressions, their filters and the screen keep what the user asked for.
CurveArithmetic == FiltersAreCentred /\ ScreenKeepsExtremes /\ ParsesAsWritten

-----------------------------------------------------------------------------
(* Windows.                                                                *)

Val == <<3, 7, -2, 4, 4, -9, 6, 1>>
At(times) == Gather(8, LAMBDA i : i - 1 \in times, LAMBDA i : Sample(i - 1, Whole(Val[i])))

Raw(s) == [ast |-> <<>>, samples |-> s, valid |-> TRUE,
           phase |-> 0, scale |-> Whole(1), offset |-> Nought]
Derived(ast) == [Raw(<<>>) EXCEPT !.ast = ast]

RefA == <<"ref", <<"a">>>>
RefB == <<"ref", <<"b">>>>
RefX == <<"ref", <<"x">>>>
N(k) == <<"num", Whole(k)>>
F(f, e, k) == <<"call", f, <<e, N(k)>>>>

\* The expressions of a pair of derived curves x and y: two slopes of a raw
\* curve, nested filters, an interpolated operand, a limited quotient, and each
\* of them under the transform of x.
Expressions ==
    { <<RefA, <<"call", "d", <<<<"call", "d", <<RefX>>>>>>>>>>,
      <<F("smooth", RefA, 2), F("moving_median", RefX, 4)>>,
      <<F("moving_average", RefA, 2), <<"call", "hampel", <<RefX, N(4), N(1)>>>>>>,
      <<<<"bin", "-", RefA, RefB>>, F("moving_average", RefX, 2)>>,
      <<<<"call", "sign", <<RefB>>>>, <<"bin", "/", RefA, RefX>>>>,
      <<<<"call", "clip", <<<<"bin", "/", N(1), RefB>>, N(1)>>>>, <<"unary", "-", RefX>>>> }

AskWindow ==
    \/ /\ question.about = "nothing"
       /\ \E xy \in Expressions, phase \in {0, 2} :
            question' = [about |-> "curve", xy |-> xy, phase |-> phase]
    \/ /\ question.about = "curve"
       /\ \E at \in SUBSET (0..7), bt \in {0..7, {0, 3, 4, 7}, {2, 5}} :
            /\ Cardinality(at) = 5
            /\ question' =
                 [about |-> "window", lo |-> 3, hi |-> 5,
                  env |-> (<<"a">> :> Raw(At(at))) @@ (<<"b">> :> Raw(At(bt)))
                            @@ (<<"x">> :> [Derived(question.xy[1]) EXCEPT !.phase = question.phase])
                            @@ (<<"y">> :> Derived(question.xy[2]))]

\* To draw a window the code reads only the samples of the window, of as much
\* around it as the filters of the expression reach, and two more on either
\* side; inside the window that gives the curve that the whole history gives.
WindowedMatchesFull ==
    question.about = "window" =>
        LET q == question IN
        PlotData(q.env, <<"y">>, q.lo, q.hi) =
            Clipped(Curve(q.env, <<"y">>, {}, History), q.lo, q.hi)

-----------------------------------------------------------------------------
(* Recordings.                                                             *)

\* Samples whose steps in time are 1, 2 or 4; a step of 4 is a gap.
Timed(steps, vs) ==
    [i \in DOMAIN vs |-> Sample(FoldLeft(LAMBDA t, step : t + step, 0, SubSeq(steps, 1, i - 1)), vs[i])]

AskSwitch ==
    \/ /\ question.about = "nothing"
       /\ \E n \in 2..5 : \E steps \in [1..n - 1 -> {1, 2, 4}] :
            question' = [about |-> "steps", n |-> n, steps |-> steps]
    \/ /\ question.about = "steps"
       /\ \/ \E vs \in [1..question.n -> {Whole(0), Whole(1)}] :
                question' = [about |-> "switch", s |-> Timed(question.steps, vs)]
          \/ \E vs \in [1..question.n -> {Whole(0), Whole(2), Whole(5)}] :
                /\ question.n = 4
                /\ question' = [about |-> "height", s |-> Timed(question.steps, vs)]

MaxGap == 3

IsGap(s, i) == s[i].t - s[i - 1].t > MaxGap
High(s, i)  == s[i].v = Whole(1)

\* The runs of high samples that no gap interrupts, with the time they end.
HighRuns(s, period) ==
    LET n == Len(s)
        breaks(i) == i = 1 \/ i = n + 1 \/ (i \in 2..n /\ (IsGap(s, i) \/ ~High(s, i) \/ ~High(s, i - 1)))
        end(j) == IF j = n THEN s[n].t + period
                  ELSE IF IsGap(s, j + 1) THEN s[j].t + period ELSE s[j + 1].t
    IN {[start |-> s[i].t, end |-> end(j)] :
          <<i, j>> \in {p \in (1..n) \X (1..n) :
                          /\ p[1] <= p[2] /\ breaks(p[1]) /\ breaks(p[2] + 1)
                          /\ \A k \in p[1]..p[2] : High(s, k)
                          /\ \A k \in p[1] + 1..p[2] : ~IsGap(s, k)}}

AreHighRuns(found, s, minimum, period) ==
    /\ ToSet(found) = {r \in HighRuns(s, period) : r.end - r.start >= minimum}
    /\ period <= MaxGap => \A k \in 2..Len(found) : found[k - 1].end <= found[k].start

\* The recordings cut out of a file are exactly the long enough times for which
\* CH3 is high and no sample of it is missing, in order; a gap is never counted
\* as high time (tools/README.md), and recordings do not overlap as long as the
\* usual step of the signal is no gap itself.
SegmentsAreHighRuns ==
    question.about = "switch" =>
        \A minimum \in {0, 3} :
            AreHighRuns(FindHighSegments(question.s, Frac(1, 2), minimum, MaxGap),
                        question.s, minimum, TerminalPeriod(question.s))

Raised(s, height) == [k \in DOMAIN s |-> [s[k] EXCEPT !.v = Plus(@, height)]]

\* The filtered height of a recording starts at zero, and the filter starts anew
\* after every gap: from there on it depends on no sample before the gap, and it
\* resumes at the height that was measured.
FilterRestartsAfterGaps ==
    question.about = "height" =>
        LET s == question.s
            filtered(start, step) == FilteredZeroed(s, start, Last(s).t + 1, step, MaxGap).s
        IN \A step \in {1, 2}, i \in DOMAIN s :
            i = 1 \/ (i > 1 /\ IsGap(s, i)) =>
                SelectSeq(filtered(0, step), LAMBDA x : x.t >= s[i].t)
                    = Raised(filtered(s[i].t, step), Minus(s[i].v, s[1].v))

\* A capture lasts from time 0 to its end and has CH3 high at some times.
Switches == {2..5, 3..5, 4..7, (2..3) \cup (6..7), (2..4) \cup (7..8)}
Capture(high, end) ==
    [ch3    |-> [i \in 1..end + 1 |-> Sample(i - 1, Whole(IF i - 1 \in high THEN 1 ELSE 0))],
     height |-> [i \in 1..end + 1 |-> Sample(i - 1, Whole(i % 3))]]

AskCaptures ==
    \/ /\ question.about = "nothing"
       /\ \E high \in Switches, end \in {9, 10} :
            question' = [about |-> "capture", file |-> Capture(high, end)]
    \/ /\ question.about = "capture"
       /\ \E high2, high3 \in Switches, end2, end3 \in {9, 10} :
            question' = [about |-> "captures",
                         files |-> <<question.file, Capture(high2, end2), Capture(high3, end3)>>]

AccountsFor(rows, found, tolerance) ==
    LET kept == {r.segment : r \in {x \in rows : x.status = "processed"}}
        same(a, b) == SameRecording(a, b, tolerance)
    IN /\ {r.segment : r \in rows} = found /\ Cardinality(rows) = Cardinality(found)
       /\ \A r \in rows : r.status # "processed" =>
            /\ r.status = "duplicate"
            /\ \E s \in kept : Key(s) = r.of /\ s.span >= r.segment.span
            /\ \E s \in found : s # r.segment /\ same(s, r.segment)
       /\ \A a, b \in kept : a # b /\ same(a, b) =>
            \E x, y, z \in found : same(x, y) /\ same(y, z) /\ ~same(x, z)

\* The manifest has one row for every recording of every capture.  Of several
\* captures of one recording the one that spans most is processed and the
\* others name it; two processed ones are the same recording only where a third
\* lies between recordings that are different.
EveryCaptureIsAccountedFor ==
    question.about = "captures" =>
        LET c == [threshold |-> Frac(1, 2), minimum |-> 2, maxGap |-> MaxGap, step |-> 1,
                  heightGap |-> MaxGap, deduplicate |-> TRUE, tolerance |-> 1]
        IN AccountsFor(ToSet(Manifest(question.files, c)),
                       ToSet(DiscoverSegments(question.files, c.threshold, c.minimum, c.maxGap)),
                       c.tolerance)

\* From a capture to the segments cut out of it and the file they are taken from.
RecordingsAreKept ==
    SegmentsAreHighRuns /\ FilterRestartsAfterGaps /\ EveryCaptureIsAccountedFor

-----------------------------------------------------------------------------
(* Packets.                                                                *)

Wires == {"feedback", "capabilities", "echo", "probe3", "probe4", "tcp", "session_accept",
          "session_busy", "sync_response", "diag_command", "diag_control", "clock_sample",
          "session_open", "session_close", "sync_request", "clock_model",
          "capabilities_report", "feedback_report", "path_report"}

Paths == <<"upload", "download", "rtt">>
PathsFmt ==
    FlattenSeq([p \in DOMAIN Paths |->
        [i \in DOMAIN PathFmt |-> <<Paths[p] \o PathFmt[i][1], PathFmt[i][2]>>]])
StatsOf(rec) ==
    [p \in ToSet(Paths) |->
        [name \in {PathFmt[i][1] : i \in DOMAIN PathFmt} |-> rec[p \o name]]]

\* What follows the session in a report of each kind.
ReportOf ==
    << CapabilitiesFmt,
       <<U32("test_id"), U8("stage"), U8("_"), U16("_")>> \o CountersFmt,
       <<U32("test_id"), U8("stage"), U8("_"), U16("_"), U64("source_anchor_us"),
         U64("target_anchor_us"), U32("drift_ppb"), U32("uncertainty_us")>> \o PathsFmt >>

FormatOf ==
    [ feedback |-> FeedbackFmt, capabilities |-> CapabilitiesFmt, echo |-> EchoFmt,
      probe3 |-> ProbeFmt, probe4 |-> InSession(ProbeFmt),
      tcp |-> SelectSeq(TcpFmt, LAMBDA f : f[1] \notin {"magic", "payload_size"}),
      session_accept |-> SessionAcceptFmt, session_busy |-> SessionBusyFmt,
      sync_response |-> SyncResponseFmt,
      diag_command |-> <<U32("session_id"), U32("test_id")>> \o CommandFmt,
      diag_control |-> <<U32("test_id")>> \o CommandFmt, clock_sample |-> ClockSampleFmt,
      session_open |-> SessionOpenFmt, session_close |-> SessionCloseFmt,
      sync_request |-> SyncRequestFmt,
      clock_model |-> <<U32("revision"), U64("source_anchor_us"), U64("target_anchor_us"),
                        U32("drift_ppb"), U32("uncertainty_us"), U8("locked"), U8("_"), U16("_")>>
                      \o PathsFmt,
      capabilities_report |-> InSession(ReportOf[1]),
      feedback_report |-> InSession(ReportOf[2]), path_report |-> InSession(ReportOf[3]) ]

Locked(rec) == [locked |-> rec.locked = 1] @@ rec
Usable(rec) == [usable |-> TRUE, locked |-> FALSE] @@ rec

\* The datagram that carries a record: the Monitor's own where it builds one,
\* the device's otherwise.
Sent(wire, rec) ==
    CASE wire = "feedback" -> BuildDiagFeedback(rec)
      [] wire = "capabilities" -> BuildDiagCapabilities(rec)
      [] wire = "echo" -> BuildEchoResponse(rec)
      [] wire = "probe3" -> BuildDiagProbe(rec)
      [] wire = "probe4" -> BuildProbe(rec)
      [] wire = "tcp" -> Datagram(0, "tcp", BuildTcpFrame(rec))
      [] wire = "session_open" -> BuildSessionOpen(rec)
      [] wire = "session_close" -> BuildSessionClose(rec)
      [] wire = "sync_request" -> BuildSyncRequest(rec)
      [] wire = "clock_model" -> BuildClockModel(Locked(rec), StatsOf(rec))
      [] wire = "capabilities_report" -> BuildCapabilitiesReport(rec.session_id, rec)
      [] wire = "feedback_report" -> BuildFeedbackReport(rec.session_id, [flags |-> 0] @@ rec)
      [] wire = "path_report" -> BuildPathReport(rec.session_id, rec, Usable(rec), StatsOf(rec))
      [] wire = "diag_control" -> Datagram(3, wire, Pack(FormatOf[wire], rec))
      [] wire = "clock_sample" -> Datagram(3, "diag_clock_sample", Pack(FormatOf[wire], rec))
      [] OTHER -> Datagram(4, wire, Pack(FormatOf[wire], rec))

\* The device reads a report that is as long as it says and as its kind is.
ReadReport(d) ==
    LET head == UnpackAt(ReportFmt, d.body, 0)
        rest == Len(d.body) - Size(ReportFmt)
        fits == /\ head.size = (4 + Len(d.body)) % Base ^ 2
                /\ rest = Size(ReportOf[head.kind])
    IN IF rest < 0 THEN None
       ELSE IF ~fits THEN None
       ELSE Typed("diag_report", [session_id |-> head.session_id]
                                    @@ UnpackAt(ReportOf[head.kind], d.body, Size(ReportFmt)))

Received(d) ==
    CASE d.type = "diag_report" -> ReadReport(d)
      [] d.type \in {"session_open", "session_close", "sync_request"} ->
            Exactly(d.type, FormatOf[d.type], d.body)
      [] d.type = "diag_clock_model" -> Exactly(d.type, FormatOf["clock_model"], d.body)
      [] d.type = "tcp" -> ParseTcpFrame(d.body)
      [] d.version = 3 -> ParsePacket(0, <<>>, d)
      [] d.version = 4 /\ d.type \in {"session_accept", "session_busy"} -> ParseBasePacket(0, <<>>, d)
      [] OTHER -> ParseAuxPacket(d)

\* Field k has the value v and every other field one of its own; a probe is as
\* long as its record says, up to five bytes longer than its fields.
RecordWith(format, k, v) ==
    LET index(name) == CHOOSE i \in DOMAIN format : format[i][1] = name
    IN [name \in {format[i][1] : i \in DOMAIN format} \ {"_"} |->
          IF name = "packet_size" THEN 4 + Size(format) + (v % 6)
          ELSE IF name = "locked" THEN v % 2
          ELSE IF index(name) = k THEN v ELSE index(name)]

AskWire ==
    \/ /\ question.about = "nothing"
       /\ \E wire \in Wires : question' = [about |-> "wires", wire |-> wire]
    \/ /\ question.about = "wires"
       /\ \E k \in DOMAIN FormatOf[question.wire] :
            LET width == FormatOf[question.wire][k][2] IN
            \E v \in {0, Base - 1, Base ^ width - 1, Base ^ width, Base ^ width + 2} :
                question' = [about |-> "wire", wire |-> question.wire,
                             rec |-> RecordWith(FormatOf[question.wire], k, v)]

\* The fields of a record that its format has room for.
Carried(wire, format, rec) ==
    LET width(name) == format[CHOOSE i \in DOMAIN format : format[i][1] = name][2]
    IN [name \in DOMAIN rec |->
          IF wire = "clock_model" /\ name = "uncertainty_us"
          THEN Min({rec[name], Base ^ width(name) - 1})
          ELSE rec[name] % Base ^ width(name)]

\* A datagram is read as these fields, and is not read with any other length.
IsRead(packet, intact, fields) == IF intact THEN packet.fields = fields ELSE IsNone(packet)

Arrives(d, fields) ==
    \A n \in 0..Len(d.body) + 3 :
        IsRead(Received([d EXCEPT !.body = SubSeq(d.body \o Zeros(3), 1, n)]),
               n = Len(d.body), fields)

\* What one end of a link packs the other end reads: every field arrives in its
\* place, reduced to its width (the uncertainty is limited to it), and a datagram
\* that lost its last bytes or has some too many is refused, whatever its type.
WireRoundTrips ==
    question.about = "wire" =>
        Arrives(Sent(question.wire, question.rec),
                Carried(question.wire, FormatOf[question.wire], question.rec))

\* A task of a device: the timestamp groups of its inputs and outputs, how many
\* groups it has, its name, and whether its firmware sends the category.
Tasks == [ins : UNION {[1..n -> {0, 1, Default}] : n \in 0..2},
          outs : UNION {[1..n -> {0, Default}] : n \in 0..1},
          inGroups : 0..2, outGroups : 0..1]

AskData ==
    \/ /\ question.about = "nothing"
       /\ \E t \in Tasks : question' = [about |-> "task", task |-> t]
    \/ /\ question.about = "task"
       /\ \E shape \in {"old", "new"}, name \in {<<>>, <<2>>, <<3, 1>>, <<1, 2>>} :
            question' = [about |-> "data", task |-> question.task, shape |-> shape, name |-> name]

\* The device's side: the schema of the task, and of a second one after it, in
\* two packets, the ports of the first in the order of falling slots.
Entry(kind, payload) == Pack(EntryFmt, [kind |-> kind, length |-> Len(payload)]) \o payload

TaskBytes(id, t, name, shape) ==
    Entry(TaskKind,
          Pack(IF shape = "new" THEN NewTaskFmt ELSE OldTaskFmt,
               [task_id |-> id, category |-> 2, input_count |-> Len(t.ins),
                output_count |-> Len(t.outs), input_groups |-> t.inGroups,
                output_groups |-> t.outGroups, name_len |-> Len(name)]) \o name)

PortBytes(id, direction, slot, group) ==
    Entry(PortKind, Pack(PortFmt, [task_id |-> id, direction |-> direction, slot |-> slot,
                                   scalar_type |-> 1, group |-> group, name_len |-> 1,
                                   unit_len |-> 0]) \o <<2>>)

PortsBytes(id, direction, groups) ==
    [k \in DOMAIN groups |-> PortBytes(id, direction, Len(groups) - k, groups[Len(groups) + 1 - k])]

Second == [ins |-> <<Default>>, outs |-> <<>>, inGroups |-> 0, outGroups |-> 0]

ResponseBytes(entries, index, total) ==
    Pack(ResponseFmt, [generation |-> 7, chunk_index |-> index, chunk_total |-> 2,
                       entry_count |-> Len(entries), total_entries |-> total])
      \o FlattenSeq(entries)

\* Values and ages that no two ports share.
FrameBytes(id, t, base) ==
    LET values == [k \in 1..Len(t.ins) + Len(t.outs) |-> base + k]
        ages == [k \in 1..t.inGroups + t.outGroups |-> base + 20 + k]
    IN Pack(FrameFmt, [task_id |-> id, flags |-> 1, input_age_us |-> base + 11, output_age_us |-> base + 12])
         \o FlattenSeq([k \in DOMAIN values |-> Bytes(values[k], 4)])
         \o FlattenSeq([k \in DOMAIN ages |-> Bytes(ages[k], 4)])

\* What a frame of FrameBytes says of the ports of one direction.
Readings(groups, base, first, age, firstAge) ==
    [k \in DOMAIN groups |->
       [slot |-> k - 1, raw |-> base + first + k,
        age |-> IF groups[k] = Default THEN base + age ELSE base + 20 + firstAge + groups[k] + 1]]

\* The packets of a task and the second one: its schema, and a data packet.
SchemaEntries(t, name, shape) ==
    <<TaskBytes(5, t, name, shape)>> \o PortsBytes(5, 0, t.ins)
      \o <<TaskBytes(9, Second, <<1>>, "new")>> \o PortsBytes(5, 1, t.outs)
      \o PortsBytes(9, 0, Second.ins)

SchemaPacket(entries, i) ==
    Datagram(3, "schema_resp",
             ResponseBytes(IF i = 0 THEN SubSeq(entries, 1, 2) ELSE SubSeq(entries, 3, Len(entries)),
                           i, Len(entries)))

DataBytes(t) ==
    Pack(DataFmt, [generation |-> 7, packet_seq |-> 3, packet_time_us |-> 100, task_frames |-> 2])
      \o FrameBytes(9, Second, 100) \o FrameBytes(5, t, 30)

\* The entries of both packets, as the Monitor reads them.
EntriesOf(given) ==
    FlattenSeq([i \in 1..2 |-> ParsePacket(0, <<>>, SchemaPacket(given, i - 1)).fields.entries])

FrameShows(frame, t) ==
    /\ frame.task_id = 5
    /\ frame.inputs = Readings(t.ins, 30, 0, 11, 0)
    /\ frame.outputs = Readings(t.outs, 30, Len(t.ins), 12, t.inGroups)

\* A data packet of b is decoded if it is of the installed generation and whole.
IsDecoded(packet, generation, whole, t) ==
    CASE generation = 7 /\ whole  -> FrameShows(packet.fields.frames[2], t)
      [] generation = 7 /\ ~whole -> IsNone(packet)
      [] OTHER -> ~packet.fields.available

Lands(schema, t, body) ==
    schema # <<>> =>
        \A generation \in {7, 8}, cut \in 0..3 :
            IsDecoded(ParsePacket(generation, schema[1],
                                  Datagram(3, "data", SubSeq(body, 1, Len(body) - cut))),
                      generation, cut = 0, t)

Fits(t) ==
    /\ \A k \in DOMAIN t.ins : t.ins[k] \in {Default} \cup 0..t.inGroups - 1
    /\ \A k \in DOMAIN t.outs : t.outs[k] \in {Default} \cup 0..t.outGroups - 1

IsInstalled(entries, schema, t, name, n) ==
    /\ Len(entries) = n /\ entries[1].name = name
    /\ Fits(t) => schema # <<>>
    /\ Lands(schema, t, DataBytes(t))

Installs(entries, t, name, n) == IsInstalled(entries, InstallSchema(entries), t, name, n)

\* A device's schema is read back from its packets, with the category or
\* without it (but for a name that looks like the longer form), and installed
\* when its ports name groups that exist.  Data of an installed schema never
\* runs into an index that is not there, and gives every port the value and the
\* age given for it; data of another generation is not decoded, and data cut
\* short is refused.
DataLandsOnItsPort ==
    question.about = "data" =>
        LET q == question
            given == SchemaEntries(q.task, q.name, q.shape)
            looksNew == q.shape = "old" /\ q.name # <<>> /\ q.name[1] = Len(q.name) - 1
        IN looksNew \/ Installs(EntriesOf(given), q.task, q.name, Len(given))

\* What is packed on one side is unpacked on the other, and nothing else is.
PacketsArrive == WireRoundTrips /\ DataLandsOnItsPort

-----------------------------------------------------------------------------
(* Packet counters.                                                        *)

\* Numbers around the wrap at 8; the number 9 ends a stage, the second one the test.
TwoStages == {<<1, 1>>, <<1, 2>>}
SentProbes ==
    {[test |-> 1, stage |-> k, n |-> n, version |-> v, end |-> n = 9, final |-> n = 9 /\ k = 2] :
        k \in 1..2, n \in PacketNumbers, v \in {3, 4}}

\* The question is a behaviour of DiagReports up to a number of arrivals: probes of
\* either stage with a data packet among them, or everything else.
AskReports ==
    \/ /\ question.about = "nothing"
       /\ \E mix \in {"probes", "data"} :
            question' = [about |-> "reports", mix |-> mix, left |-> 5]
       /\ UNCHANGED reportVars
    \/ /\ question.about = "reports" /\ question.left > 0
       /\ question' = [question EXCEPT !.left = @ - 1]
       /\ \/ question.mix = "probes" /\ \E p \in SentProbes : ReceiveProbe(p)
          \/ Inputs /\ (question.mix = "probes" => aux' = aux /\ now' = now /\ Len(normal') < 2)
    \/ question.about = "reports" /\ Continues /\ UNCHANGED question

-----------------------------------------------------------------------------
(* Peaks and periods.                                                      *)

AskPeaks ==
    \/ /\ question.about = "nothing"
       /\ \E ts \in {<<1, 2, 3, 4, 5, 6, 7>>, <<1, 3, 4, 5, 6, 8, 9>>}, a, b \in 0..2 :
            question' = [about |-> "rise", ts |-> ts, a |-> a, b |-> b]
    \/ /\ question.about = "nothing"
       /\ \E n \in 3..5 : \E shape \in [1..n -> 0..2] :
            question' = [about |-> "reference",
                         s |-> [i \in 1..11 |-> Sample(i, Whole(shape[1 + ((i - 1) % n)]))]]
    \/ /\ question.about = "rise"
       /\ \E vs \in [1..7 -> 0..2] :
            /\ vs[1] = question.a /\ vs[2] = question.b
            /\ question.ts[2] = 2 \/ vs[1] = 0
            /\ question' = [about |-> "peaks",
                            s |-> [i \in 1..7 |-> Sample(question.ts[i], Whole(vs[i]))]]

\* The local maxima of a series, a plateau from its first to its last sample.
Maxima(s) ==
    {p \in (2..Len(s) - 1) \X (2..Len(s) - 1) :
       /\ p[1] <= p[2]
       /\ \A k \in p[1]..p[2] : s[k].v = s[p[1]].v
       /\ Less(s[p[1] - 1].v, s[p[1]].v) /\ Less(s[p[2] + 1].v, s[p[2]].v)}

\* Those that are kept when each must be some way behind the one kept before.
Spaced(maxima, minSep) ==
    CHOOSE kept \in SUBSET maxima :
        \A p \in maxima : p \in kept <=> \A q \in kept : q[1] < p[1] => p[1] - q[2] >= minSep

\* The samples from which the vertex of a peak is fitted.
Around(s, p) ==
    LET reach == IF p[1] = p[2] THEN 2 ELSE 1
    IN SubSeq(s, Max({1, p[1] - reach}), Min({Len(s), p[2] + reach}))

Symmetric(points) ==
    LET n == Len(points) IN
    \A i \in 1..n : /\ points[i].v = points[n + 1 - i].v
                    /\ points[i].t + points[n + 1 - i].t = points[1].t + points[n].t

\* The scan for peaks, which steps over plateaus and remembers where the last
\* peak was, finds exactly the local maxima that keep their distance, one vertex
\* for each, the newest ones of them: near its maximum, and in the middle of a
\* symmetric one.  Periods follow one another in time, however the fit moves
\* the peaks.
PeaksAreMaxima ==
    /\ question.about = "peaks" =>
         LET s == question.s IN
         \A limit \in {<<1, 7>>, <<2, 7>>, <<4, 7>>, <<1, 1>>} :
             LET minSep == limit[1]
                 lastN == limit[2]
                 all  == SetToSortSeq(Spaced(Maxima(s), minSep), LAMBDA p, q : p[1] < q[1])
                 kept == SubSeq(all, Max({1, Len(all) - lastN + 1}), Len(all))
                 found == FindParabolicPeaks(s, minSep, 9, lastN)
             IN /\ Len(found) = Len(kept)
                /\ \A k \in DOMAIN kept :
                     LET near == Around(s, kept[k]) IN
                     /\ AtMost(Whole(near[1].t), found[k]) /\ AtMost(found[k], Whole(Last(near).t))
                     /\ Symmetric(near) => found[k] = Frac(near[1].t + Last(near).t, 2)
    /\ question.about = "reference" =>
         \A pairs \in 1..2, span \in {5, 11} :
             LET periods == UpdatePeriodList(<<>>, question.s, span, pairs) IN
             /\ Len(periods) <= pairs
             /\ \A k \in DOMAIN periods : AtMost(periods[k][1], periods[k][2])
             /\ \A k \in 2..Len(periods) : periods[k - 1][2] = periods[k][1]

\* Signals with all samples, every other one, few ones, none, and ones that
\* begin late or end early.
SampledAt == {0..16, {2 * k : k \in 0..8}, {1, 6, 11}, {}, 0..9, 6..16}
SignalOf(times) == Gather(17, LAMBDA i : i - 1 \in times, LAMBDA i : Sample(i - 1, Whole(Cardinality(times))))

PeriodLists == {<<p>> : p \in {<<0, 5>>, <<6, 9>>}}
                 \cup {<<<<0, 5>>, <<5, 10>>, <<10, 16>>>>, <<<<1, 7>>, <<7, 7>>, <<7, 12>>>>,
                       <<<<0, 4>>, <<4, 8>>, <<8, 12>>, <<12, 16>>>>}

AskCurves ==
    \/ /\ question.about = "nothing"
       /\ \E ps \in PeriodLists, overlay \in 1..3 :
            question' = [about |-> "periods", overlay |-> overlay,
                         periods |-> [k \in DOMAIN ps |-> <<Whole(ps[k][1]), Whole(ps[k][2])>>]]
    \/ /\ question.about = "periods"
       /\ \E first, second, third \in SampledAt, before \in 0..3 :
            question' = [about |-> "curves", overlay |-> question.overlay, before |-> before,
                         periods |-> question.periods,
                         signals |-> <<SignalOf(first), SignalOf(second), SignalOf(third)>>]

Stale == <<Sample(0, Whole(99))>>

\* The curves are numbered by signal and period: whatever signals are too short
\* and whatever was drawn before, every curve shows its own signal in its own
\* period or nothing, and none still shows what it showed before.
CurvesKeepTheirSlots ==
    question.about = "curves" =>
        LET q == question
            drawn == DrawnPeriods(q.periods, q.signals, q.overlay)
            n == Len(drawn)
            curves == ProcessAndPlot([k \in 1..n * q.before |-> Stale], q.periods, q.signals, q.overlay)
        IN /\ n <= q.overlay
           /\ Len(curves) = n * Len(q.signals)
           /\ \A k \in DOMAIN q.signals, i \in DOMAIN drawn :
                LET shown == curves[(k - 1) * n + i] IN
                shown = Inside(q.signals[k], drawn[i]) \/ (shown = <<>> /\ Len(Inside(q.signals[k], drawn[i])) < 5)

\* The periods that are found are there, and the curves drawn are of them.
PeriodsAreShown == PeaksAreMaxima /\ CurvesKeepTheirSlots

-----------------------------------------------------------------------------
(* The trail of the flight window.                                         *)

\* What is recorded: the samples of each axis before their clock was aligned,
\* how far it is shifted, and the transport.  Axes of one source get their
\* samples together.
NoFlight ==
    [raw |-> [axis \in Axes3 |-> <<>>], shift |-> 0, data |-> [axis \in Axes3 |-> 0],
     revision |-> 0, epoch |-> 0, now |-> 0, state |-> "follow_live", playhead |-> 0,
     mode |-> "combined", capacity |-> 3]

AxisNow(f, axis) == [i \in DOMAIN f.raw[axis] |-> [f.raw[axis][i] EXCEPT !.t = @ + f.shift]]

LiveEdge(f) == Max({0} \cup {Last(AxisNow(f, axis)).t : axis \in {a \in Axes3 : f.raw[a] # <<>>}})

Followed(f) == IF f.state = "follow_live" THEN [f EXCEPT !.playhead = LiveEdge(f)] ELSE f

View(f) ==
    [series |-> [axis \in Axes3 |-> AxisNow(f, axis)],
     revisions |-> [axis \in Axes3 |-> [epoch |-> f.epoch, data |-> f.data[axis], rebuilt |-> f.shift]],
     revision |-> f.revision, epoch |-> f.epoch, source |-> "live", state |-> f.state,
     playhead |-> f.playhead, mode |-> f.mode, capacity |-> f.capacity, gap |-> 2, limit |-> 3]

AddTo(f, axes, step) ==
    Followed([f EXCEPT
        !.now = @ + step, !.revision = @ + 1,
        !.data = [a \in Axes3 |-> IF a \in axes THEN @[a] + 1 ELSE @[a]],
        !.raw = [a \in Axes3 |-> IF a \in axes
                                 THEN Append(@[a], Sample(f.now + step, Whole(Val[((f.now + step) % 8) + 1])))
                                 ELSE @[a]]])

Draw(f, w) == question' = [question EXCEPT !.f = f, !.w = UpdateScene(w, View(f)), !.left = @ - 1]

AskTrail ==
    LET f == question.f
        w == question.w
    IN \/ /\ question.about = "nothing"
          /\ \E together \in BOOLEAN :
               question' = [about |-> "trail", together |-> together, left |-> 6,
                            f |-> NoFlight, w |-> NewWindow]
       \/ /\ question.about = "trail" /\ question.left > 0
          /\ \/ question.together /\ \E step \in {1, 3} : Draw(AddTo(f, Axes3, step), w)
             \/ ~question.together /\ \E axes \in {{"x"}, {"y", "z"}} : Draw(AddTo(f, axes, 1), w)
             \/ /\ f.shift < 1 /\ f.revision > 0
                /\ Draw(Followed([f EXCEPT !.shift = @ + 1, !.revision = @ + 1]), w)
             \/ LiveEdge(f) > 2 /\ Draw([f EXCEPT !.state = "paused", !.playhead = LiveEdge(f) - 2], w)
             \/ f.state = "paused" /\ Draw(Followed([f EXCEPT !.state = "follow_live"]), w)
             \/ Draw([f EXCEPT !.mode = IF @ = "combined" THEN "attitude" ELSE "combined"], w)
             \/ f.revision > 0 /\ Draw(f, ClearTrail(w, View(f)))
             \/ Draw([f EXCEPT !.capacity = 5 - @], SettingsChanged(w))
             \/ f.revision > 0 /\ Draw([NoFlight EXCEPT !.epoch = f.epoch + 1, !.now = f.now,
                                                       !.revision = f.revision + 1], w)

\* A value of an axis at a time, as it may have been drawn: that of the sample
\* before, or interpolated.
MayBe(s, t, v, gap) ==
    /\ Previous(s, t) # <<>>
    /\ v \in {Last(Previous(s, t)).v, InterpolateSample(s, t, gap)}

\* A point of the trail but for the vehicle at its end: a sample of x, its
\* place at that time and values the other axes may have had then.
IsSampled(p, v, start, place, times) ==
    /\ p.t \in times /\ start # NoStart => p.t >= start[1]
    /\ p.x = place.x
    /\ MayBe(v.series["y"], p.t, p.y, v.gap) /\ MayBe(v.series["z"], p.t, p.z, v.gap)

IsTrail(trail, new, here, v, start) ==
    LET times == {p.t : p \in ToSet(Newest(Previous(v.series["x"], v.playhead), v.capacity))}
        at(p) == Position([v EXCEPT !.playhead = p.t])
    IN /\ \A k \in 2..Len(trail) : trail[k - 1].t <= trail[k].t
       /\ Len(trail) <= v.limit
       /\ v.mode = "combined" => \A k \in DOMAIN trail :
            \/ k = Len(trail) /\ SamePlace(trail[k], here)
            \/ IsSampled(trail[k], v, start, at(trail[k]), times)
       /\ trail # <<>> => SamePlace(Last(trail), here)
       /\ question.together => trail = new
       /\ \A k \in DOMAIN new : SamePlace(new[k], at(new[k]))

\* However the window was redrawn before, through seeks, new alignments, changes
\* of mode, of capacity and of the start of the trail, its trail is one of the
\* data: the newest samples of x up to the playhead in order, with a value of
\* y and of z at that time, and the vehicle at its end.  Where the axes
\* are of one source it is exactly the trail a new window would draw; where they
\* are not, a point at the edge keeps the held value it was first drawn with.
\* At every point of a trail drawn anew the vehicle would be shown on it.
TrailIsOfTheData ==
    question.about = "trail" =>
        LET v == View(question.f)
            w == question.w
        IN w.source # "none" =>
             IsTrail(w.trail, UpdateScene([NewWindow EXCEPT !.start = w.start, !.source = v.source], v).trail,
                     Position(v), v, w.start)

-----------------------------------------------------------------------------
(* Capture files.                                                          *)

Cell(t, session, v) == [t |-> t, session |-> session, v |-> v]
SampleLists ==
    LET some == {Cell(t, 1, Whole(4)) : t \in {Nought, Frac(5, 2)}}
                  \cup {Cell(Frac(7, 2), 2, Frac(3, 2)), Cell(Whole(6), 2, NaN)}
    IN {<<>>} \cup {<<a>> : a \in some} \cup {<<a, b>> : a, b \in some}

Full  == [section |-> "s", kind |-> "k", direction |-> {1}, scalar_type |-> {6}, slot |-> {0},
          hidden |-> TRUE, clock_domain |-> "FT"]
Plain == [section |-> "", kind |-> "", direction |-> {}, scalar_type |-> {}, slot |-> {},
          hidden |-> FALSE, clock_domain |-> ""]
Part  == [Full EXCEPT !.direction = {0}, !.scalar_type = {9}, !.kind = "", !.clock_domain = "monitor"]

Model(domain, session, mode, drift) ==
    [domain |-> domain, session |-> session, mode |-> mode, host_clock |-> "", complete |-> TRUE,
     source |-> Whole(1), target |-> Whole(100 * session), drift |-> drift]

ModelLists ==
    {<<>>,
     <<Model("monitor", 1, "realtime", Nought), Model("FT", 2, "realtime", Frac(1, 2)),
       Model("FT", 2, "calibrated", Frac(1, 4))>>,
     <<[Model("monitor", 1, "calibrated", Nought) EXCEPT !.complete = FALSE],
       Model("FT", 1, "calibrated", Nought), Model("FT", 1, "realtime", Frac(1, 3))>>}

\* The same samples in the columns of an older version, times in the file's
\* unit, here microseconds since its origin, or milliseconds.
OldFile(items, version, origin) ==
    LET file == WriteMonitorCsv(items, "realtime", "", <<>>)[1]
        renamed(h) == CASE Last(h) = "_time_raw_us" /\ version = 3 -> Append(Front(h), "_time_us")
                        [] Last(h) = "_time_raw_us" /\ version = 2 -> Append(Front(h), "_time_ms")
                        [] OTHER -> h
    IN [file EXCEPT !.version = version, !.origin = origin,
                    !.headers = [k \in DOMAIN @ |-> renamed(@[k])]]

\* What was to be written, the file, and the old files with the same samples.
Captured(items, mode, models) ==
    [about |-> "csv", items |-> items, mode |-> mode, models |-> models,
     file |-> WriteMonitorCsv(items, mode, "monotonic", models)[1],
     old  |-> [version \in {2, 3} |-> OldFile(items, version, 50)]]

AskCsv ==
    \/ /\ question.about = "nothing"
       /\ \E samples \in SampleLists, desc \in {Full, Plain}, mode \in {"realtime", "calibrated"} :
            question' = [about |-> "variable", mode |-> mode,
                         item |-> [name |-> <<"a">>, desc |-> desc, samples |-> samples]]
    \/ /\ question.about = "variable"
       /\ \E name \in {<<"a", "_value">>, <<"a", "_session">>, <<"b">>},
            samples \in {<<Cell(Whole(3), 2, Whole(7))>>,
                         <<Cell(Whole(3), 2, Whole(7)), Cell(Whole(1), 1, NaN), Cell(Whole(1), 1, Nought)>>},
            models \in ModelLists :
            question' = Captured(<<question.item,
                                   [name |-> name, desc |-> Full, samples |-> samples],
                                   [name |-> <<"c">>, desc |-> Part,
                                    samples |-> <<Cell(Nought, 1, Nought)>>]>>,
                                 question.mode, models)

DomainOf(item) == IF item.desc.clock_domain = "" THEN "monitor" ELSE item.desc.clock_domain

\* The models of a session, realtime ones where calibrated ones are missing.
ModelsOf(item, session, mode, models) ==
    LET of(m) == {x \in ToSet(models) : x.domain = DomainOf(item) /\ x.session = session /\ x.mode = m}
    IN IF of(mode) # {} THEN of(mode) ELSE of("realtime")

SampleIsBack(x, cell, models) ==
    /\ AtMost(Distance(x.raw, cell.t), Frac(1, 2))
    /\ x.session = cell.session /\ x.v = cell.v
    /\ IF models = {} \/ ~(\A m \in models : m.complete) THEN x.t = x.raw
       ELSE \E m \in models : Minus(x.t, m.target)
              = Times(Plus(Whole(1), m.drift), Minus(x.raw, m.source))

\* The variable of an item, whose finite samples are these.
ItemIsBack(r, item, cells, q) ==
    /\ Len(r.samples) = Len(cells)
    /\ \A i \in DOMAIN cells :
         SampleIsBack(r.samples[i], cells[i], ModelsOf(item, cells[i].session, q.mode, q.models))
    /\ r.desc.section = (IF item.desc.section = "" THEN "Ungrouped" ELSE item.desc.section)
    /\ r.desc.hidden = {item.desc.hidden}
    /\ \A field \in {"kind", "direction", "scalar_type", "slot", "clock_domain"} :
         r.desc[field] = item.desc[field]

\* The variables of an old file, which knows nothing of clocks.
OldSamples(old, samples, version) ==
    \A i \in DOMAIN samples :
        /\ old[i].v = samples[i].v
        /\ old[i].t = IF version = 3 THEN Plus(Whole(50), samples[i].raw)
                      ELSE Times(Whole(1000), samples[i].raw)

OldIsBack(old, series, version) ==
    /\ DOMAIN old = DOMAIN series
    /\ \A name \in DOMAIN series : OldSamples(old[name].samples, series[name].samples, version)

IsBack(series, q) ==
    LET cells(item) == SelectSeq(item.samples, LAMBDA x : Finite(x.v))
        written == {k \in DOMAIN q.items : cells(q.items[k]) # <<>>}
    IN /\ DOMAIN series = {q.items[k].name : k \in written}
       /\ \A k \in written :
            ItemIsBack(series[q.items[k].name], q.items[k], cells(q.items[k]), q)
       /\ \A version \in {2, 3} :
            OldIsBack(ReadMonitorCsv(q.old[version])[1], series, version)

\* Reading a capture gives back what was written: the variables that have a
\* finite sample, their descriptions, and their own samples and no others,
\* although the columns are of different lengths and a name may look like the
\* column of another variable; their times are rounded to microseconds and
\* aligned by the model of their clock and session in the mode of the file, by
\* the realtime one where a calibrated one is missing, and by none where there
\* is none.  Files of earlier versions read back too.
CapturesReadBack ==
    question.about = "csv" =>
        IsBack(ReadMonitorCsv(question.file)[1], question)

-----------------------------------------------------------------------------
Init == question = [about |-> "nothing"] /\ ReportsInit

AskAlgorithm ==
    AskFilter \/ AskScreen \/ AskText \/ AskWindow \/ AskSwitch \/ AskCaptures
        \/ AskWire \/ AskData \/ AskPeaks \/ AskCurves \/ AskTrail \/ AskCsv

Next == AskReports \/ (AskAlgorithm /\ UNCHANGED reportVars)

Spec == Init /\ [][Next]_<<question, reportVars>>

================================================================================
