-------------------------------- MODULE Recordings -------------------------------
(***************************************************************************)
(* tools/clean_ch3_segments.py: cuts recordings out of monitor CSV files   *)
(* where the CH3 switch is high, keeps one of several captures of the same *)
(* recording, and filters the height and position curves inside of it.     *)
(* Times are integers (microseconds in the code).  A file is a record      *)
(* [ch3, height] of two series; files are numbered in the order of names.  *)
(***************************************************************************)
EXTENDS Curves

Before(a, b) == a.t < b.t

\* _normalized_points_us: sorted finite samples, the last value of each time.
NormalizedPoints(series) ==
    LET s == FiniteSeries(series)
    IN SortSeq(Gather(Len(s), LAMBDA i : \A j \in i + 1..Len(s) : s[j].t # s[i].t,
                      LAMBDA i : s[i]), Before)

-----------------------------------------------------------------------------
(* find_high_segments                                                      *)

Floor(q) == q[1] \div q[2]

\* int(median) of the steps forward: how long the last sample is taken to last.
TerminalPeriod(points) ==
    LET deltas == Gather(Len(points), LAMBDA i : i > 1 /\ points[i - 1].t < points[i].t,
                         LAMBDA i : Whole(points[i].t - points[i - 1].t))
    IN IF deltas = <<>> THEN 0 ELSE Floor(MiddleOf(deltas))

\* The interval that is open, <<>> or its start, is closed if it is long enough.
Close(acc, end, minimum) ==
    [acc EXCEPT !.open = <<>>,
                !.out  = IF acc.open # <<>> /\ end - acc.open[1] >= minimum
                         THEN Append(@, [start |-> acc.open[1], end |-> end]) ELSE @]

\* Mutant: the gaps are not looked at.
HighStepAcrossGaps(acc, x, c) ==
    LET a == IF Less(c.threshold, x.v) THEN acc ELSE Close(acc, x.t, c.minimum)
    IN [a EXCEPT !.open = IF a.open = <<>> /\ Less(c.threshold, x.v) THEN <<x.t>> ELSE @,
                 !.previous = <<x.t>>]

\* One sample of the scan: after a gap the interval ended at the last sample
\* before it.
HighStep(acc, x, c) ==
    LET gap  == acc.previous # <<>> /\ x.t - acc.previous[1] > c.maxGap
        a1   == IF gap THEN Close(acc, acc.previous[1] + c.period, c.minimum) ELSE acc
        high == Less(c.threshold, x.v)
        a2   == IF high THEN a1 ELSE Close(a1, x.t, c.minimum)
    IN [a2 EXCEPT !.open = IF a2.open = <<>> /\ high THEN <<x.t>> ELSE @,
                  !.previous = <<x.t>>]

HighRunsOf(points, c) ==
    IF points = <<>> THEN <<>>
    ELSE Close(FoldLeft(LAMBDA acc, x : HighStep(acc, x, c),
                        [open |-> <<>>, previous |-> <<>>, out |-> <<>>], points),
               Last(points).t + c.period, c.minimum).out

FindHighSegments(points, threshold, minimum, maxGap) ==
    HighRunsOf(points, [threshold |-> threshold, minimum |-> minimum, maxGap |-> maxGap,
                        period |-> TerminalPeriod(points)])

Numbered(found, f, span) ==
    [k \in DOMAIN found |->
       [file |-> f, index |-> k, start |-> found[k].start, end |-> found[k].end, span |-> span]]

\* discover_segments, file by file; a file without CH3 samples is an error of
\* the whole run.
DiscoverSegments(files, threshold, minimum, maxGap) ==
    LET of(f, points) == Numbered(FindHighSegments(points, threshold, minimum, maxGap), f,
                                  Last(points).t - points[1].t)
    IN FlattenSeq([f \in DOMAIN files |-> of(f, NormalizedPoints(files[f].ch3))])

-----------------------------------------------------------------------------
(* deduplicate_segments                                                    *)

SameRecording(a, b, tolerance) ==
    Magnitude(a.start - b.start) <= tolerance /\ Magnitude(a.end - b.end) <= tolerance

\* A candidate joins the first group that has a capture of the same recording.
JoinGroup(groups, candidate, tolerance) ==
    LET mine == {g \in DOMAIN groups :
                   \E member \in ToSet(groups[g]) : SameRecording(candidate, member, tolerance)}
    IN IF mine = {} THEN Append(groups, <<candidate>>)
       ELSE [groups EXCEPT ![Min(mine)] = Append(@, candidate)]

Groups(segments, tolerance) ==
    FoldLeft(LAMBDA groups, s : JoinGroup(groups, s, tolerance), <<>>,
             SortSeq(segments, LAMBDA a, b : a.start < b.start \/ (a.start = b.start /\ a.end < b.end)))

\* The capture that spans most, of two alike the one of the later file.
Winner(group) ==
    CHOOSE w \in ToSet(group) : \A s \in ToSet(group) :
        \/ s.span < w.span
        \/ s.span = w.span /\ s.file < w.file
        \/ s.span = w.span /\ s.file = w.file /\ s.index <= w.index

Key(s) == <<s.file, s.index>>

ByKey(segments) ==
    SortSeq(segments, LAMBDA a, b : a.file < b.file \/ (a.file = b.file /\ a.index < b.index))

BestOf(groups) ==
    LET winners == [g \in DOMAIN groups |-> Winner(groups[g])]
        groupOf(s) == CHOOSE g \in DOMAIN groups : s \in ToSet(groups[g])
    IN [kept       |-> ByKey(winners),
        duplicates |-> [s \in UNION {ToSet(groups[g]) : g \in DOMAIN groups} \ ToSet(winners)
                          |-> winners[groupOf(s)]]]

Deduplicated(segments, tolerance) == BestOf(Groups(segments, tolerance))

-----------------------------------------------------------------------------
(* The curves of one recording.                                            *)

SplitAtGaps(points, maxGap) ==
    FoldLeft(LAMBDA blocks, x :
                 IF blocks = <<>> \/ x.t - Last(Last(blocks)).t > maxGap
                 THEN Append(blocks, <<x>>)
                 ELSE [blocks EXCEPT ![Len(blocks)] = Append(@, x)],
             <<>>, points)

\* The low-pass filter: scipy's Butterworth is replaced by one of first order,
\* which like it starts at rest at the first value.
LowPass(values) ==
    FoldLeft(LAMBDA out, v : Append(out, IF out = <<>> THEN v
                                         ELSE Over(Plus(Last(out), v), Whole(2))),
             <<>>, values)

\* _filter_regular_block: the samples are held on a regular grid.
FilterBlock(block, step) ==
    LET first == block[1].t
        n == (Last(block).t - first) \div step + 1
        held(t) == block[Max({i \in DOMAIN block : block[i].t <= t})].v
        out == LowPass([k \in 1..n |-> held(first + (k - 1) * step)])
    IN [k \in 1..n |-> [t |-> first + (k - 1) * step, v |-> out[k]]]

Zeroed(s) == [k \in DOMAIN s |-> [s[k] EXCEPT !.v = Minus(@, s[1].v)]]

FilteredBlocks(blocks, step) ==
    [s |-> Zeroed(FlattenSeq([b \in DOMAIN blocks |-> FilterBlock(blocks[b], step)])),
     resets |-> Max({0, Len(blocks) - 1})]

\* filtered_zeroed_series: every block is filtered anew, and the values are
\* counted from the first one of the recording.
FilteredZeroed(series, start, end, step, maxGap) ==
    FilteredBlocks(SplitAtGaps(SelectSeq(NormalizedPoints(series),
                                         LAMBDA x : start <= x.t /\ x.t < end), maxGap), step)

-----------------------------------------------------------------------------
(* process_directory                                                       *)

ManifestOrder(a, b) ==
    \/ a.segment.file < b.segment.file
    \/ a.segment.file = b.segment.file /\ a.segment.index < b.segment.index

Processed(segment, curve) ==
    [segment |-> segment, status |-> "processed", of |-> <<>>, warning |-> curve.resets, curve |-> curve.s]

\* A segment that is not processed names the one it duplicates.
NotProcessed(segment, duplicates) ==
    [segment |-> segment, warning |-> 0, curve |-> <<>>,
     status |-> IF segment \in DOMAIN duplicates THEN "duplicate" ELSE "skipped",
     of |-> IF segment \in DOMAIN duplicates THEN Key(duplicates[segment]) ELSE <<>>]

Rows(files, found, result, c) ==
    LET curve(s) == FilteredZeroed(files[s.file].height, s.start, s.end, c.step, c.heightGap)
        others == SelectSeq(found, LAMBDA s : ~Contains(result.kept, s))
    IN SortSeq([k \in DOMAIN result.kept |-> Processed(result.kept[k], curve(result.kept[k]))]
                 \o [k \in DOMAIN others |-> NotProcessed(others[k], result.duplicates)],
               ManifestOrder)

\* A run that comes upon a recording without a sample to filter ends in an error.
Finished(rows) ==
    IF \E k \in DOMAIN rows : rows[k].status = "processed" /\ rows[k].curve = <<>>
    THEN <<>> ELSE rows

\* The segments found, less the duplicates if they are to be left out.
Manifested(files, found, c) ==
    Finished(Rows(files, found, IF c.deduplicate THEN Deduplicated(found, c.tolerance)
                                ELSE [kept |-> found, duplicates |-> [s \in {} |-> 0]], c))

\* The rows of the manifest; <<>> when the run ends in an error, as it does too
\* with a file without CH3.
Manifest(files, c) ==
    IF \E f \in DOMAIN files : NormalizedPoints(files[f].ch3) = <<>> THEN <<>>
    ELSE Manifested(files, DiscoverSegments(files, c.threshold, c.minimum, c.maxGap), c)

================================================================================
