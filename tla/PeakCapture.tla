------------------------------- MODULE PeakCapture -----------------------------
(***************************************************************************)
(* The waveform capture window of waveform_capture.py: it cuts a reference *)
(* signal into periods at its peaks and lays the same periods of other     *)
(* signals over each other, one curve for every period of every signal.    *)
(* The comparison of slopes with a relative tolerance is exact here; the   *)
(* average curve, the colours and the thinning of long curves are left     *)
(* out.                                                                    *)
(***************************************************************************)
EXTENDS Curves

\* The samples of the last span, unless they are fewer than three.
Recent(s, span) ==
    LET r == SelectSeq(s, LAMBDA x : x.t >= Last(s).t - span)
    IN IF Len(r) >= 3 THEN r ELSE s

-----------------------------------------------------------------------------
(* Peaks.                                                                  *)

SumOver(points, F(_)) == FoldLeft(LAMBDA sum, x : Plus(sum, F(x)), Nought, points)

\* The first of the largest values.
Highest(points) ==
    points[Min({i \in DOMAIN points : \A j \in DOMAIN points : AtMost(points[j].v, points[i].v)})].t

\* The vertex of the parabola a u^2 + b u + c, a and b over the same divisor.
Vertex(points, a, b) ==
    IF Len(points) < 3 \/ a = Nought THEN Whole(Highest(points))
    ELSE ClipScalar(Minus(Whole(points[1].t), Over(b, Times(Whole(2), a))),
                    <<Whole(points[1].t), Whole(Last(points).t)>>)

\* _quad_vertex: the vertex of the parabola a u^2 + b u + c of least squares, u
\* the time since the first point, by the normal equations and Cramer's rule.
QuadVertex(points) ==
    LET u(x, k) == IF k = 0 THEN Whole(1) ELSE Whole((x.t - points[1].t) ^ k)
        S(k) == SumOver(points, LAMBDA x : u(x, k))
        T(k) == SumOver(points, LAMBDA x : Times(x.v, u(x, k)))
        minor(p, q, r, s) == Minus(Times(p, s), Times(q, r))
        det(m) == Plus(Minus(Times(m[1][1], minor(m[2][2], m[2][3], m[3][2], m[3][3])),
                             Times(m[1][2], minor(m[2][1], m[2][3], m[3][1], m[3][3]))),
                       Times(m[1][3], minor(m[2][1], m[2][2], m[3][1], m[3][2])))
        ofA(k) == <<T(k), S(k + 1), S(k)>>
        ofB(k) == <<S(k + 2), T(k), S(k)>>
    IN Vertex(points, det(<<ofA(2), ofA(1), ofA(0)>>), det(<<ofB(2), ofB(1), ofB(0)>>))

\* A peak from sample s to sample e is taken if it is far enough from the last
\* one that was.
Taken(v, acc, s, e, reach, minSep) ==
    IF s - acc.last < minSep THEN acc
    ELSE [acc EXCEPT !.last = e,
                     !.peaks = Append(@, QuadVertex(SubSeq(v, Max({s - reach, 1}),
                                                           Min({e + reach, Len(v)}))))]

\* One round of the scan at sample i, with one point more than the neighbours
\* of a sharp peak on either side; a plateau of one sample is a sharp peak.
ScanStep(v, acc, minSep) ==
    LET i == acc.i
        up(k) == Less(v[k].v, v[k + 1].v)
        down(k) == Less(v[k + 1].v, v[k].v)
        end == IF down(i) THEN i ELSE Min({k \in i..Len(v) : k = Len(v) \/ up(k) \/ down(k)})
        peak == up(i - 1) /\ end < Len(v) /\ down(end)
        next == IF up(i - 1) /\ ~up(i) THEN end + 1 ELSE i + 1
    IN [IF peak THEN Taken(v, acc, i, end, IF end = i THEN 2 ELSE 1, minSep) ELSE acc EXCEPT !.i = next]

Scanned(v, minSep) ==
    FoldLeft(LAMBDA acc, k : IF acc.i < Len(v) THEN ScanStep(v, acc, minSep) ELSE acc,
             [i |-> 2, last |-> 1 - minSep - 1, peaks |-> <<>>], v).peaks

\* find_parabolic_peaks
FindParabolicPeaks(series, minSep, span, lastN) ==
    IF Len(FiniteSeries(series)) < 3 THEN <<>>
    ELSE Newest(Scanned(Recent(FiniteSeries(series), span), minSep), lastN)

PeriodsBetween(peaks) == [k \in 1..Max({0, Len(peaks) - 1}) |-> <<peaks[k], peaks[k + 1]>>]

\* update_period_list: the periods lie between neighbouring peaks; a signal of
\* fewer than ten samples leaves the ones there are.
UpdatePeriodList(periods, series, span, maxPairs) ==
    IF Len(series) < 10 THEN periods
    ELSE PeriodsBetween(FindParabolicPeaks(Recent(series, span), 4, span, maxPairs + 1))

-----------------------------------------------------------------------------
(* Curves.  A curve of the plot is what it shows: <<>> or samples with the *)
(* time since the start of the period.                                     *)

Enough == 5

Inside(s, period) ==
    LET r == SelectSeq(s, LAMBDA x : AtMost(period[1], Whole(x.t)) /\ AtMost(Whole(x.t), period[2]))
    IN [k \in DOMAIN r |-> [t |-> Minus(Whole(r[k].t), period[1]), v |-> r[k].v]]

\* What the next curve of the plot is given.
SetData(acc, data) == [next |-> acc.next + 1, curves |-> [acc.curves EXCEPT ![acc.next] = data]]

\* Mutant: the curves of a signal that is too short are passed over.
DrawSignalIfEnough(acc, s, periods) ==
    IF Len(s) < Enough THEN acc
    ELSE FoldLeft(LAMBDA a, p : SetData(a, IF ~Less(p[1], p[2]) \/ Len(Inside(s, p)) < Enough THEN <<>>
                                           ELSE Inside(s, p)),
                  acc, periods)

\* The curves of one signal, one for each period.
DrawSignal(acc, s, periods) ==
    FoldLeft(LAMBDA a, p : SetData(a, IF \/ Len(s) < Enough \/ ~Less(p[1], p[2])
                                         \/ Len(Inside(s, p)) < Enough
                                      THEN <<>> ELSE Inside(s, p)),
             acc, periods)

\* The periods that are drawn: the last ones of those that overlap the time
\* that all signals with samples cover.
DrawnPeriods(periods, signals, overlay) ==
    LET some == SelectSeq(signals, LAMBDA s : s # <<>>)
        from == Max({some[k][1].t : k \in DOMAIN some})
        to   == Min({Last(some[k]).t : k \in DOMAIN some})
        valid == SelectSeq(periods, LAMBDA p : Less(Whole(from), p[2]) /\ Less(p[1], Whole(to)))
    IN IF some = <<>> THEN <<>> ELSE Newest(valid, overlay)

\* process_and_plot: the curves of the plot afterwards.  They are made anew when
\* their number changes, otherwise each one keeps what it shows until it is set.
ProcessAndPlot(curves, periods, signals, overlay) ==
    LET drawn == DrawnPeriods(periods, signals, overlay)
        n == Len(drawn) * Len(signals)
        blank == IF Len(curves) = n THEN curves ELSE [k \in 1..n |-> <<>>]
    IN CASE periods = <<>> -> curves
         [] periods # <<>> /\ drawn = <<>> -> <<>>
         [] OTHER -> FoldLeft(LAMBDA acc, s : DrawSignal(acc, s, drawn),
                              [next |-> 1, curves |-> blank], signals).curves

================================================================================
