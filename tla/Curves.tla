--------------------------------- MODULE Curves --------------------------------
(***************************************************************************)
(* The arithmetic of curves: ui/curve_data_engine.py and the operations on *)
(* series of ui/main_window.py.  A series is a sequence of samples         *)
(* [t, v], t an integer time and v a fraction.  The unit of time is left   *)
(* open: the factor of 1000 between milliseconds and seconds is not        *)
(* modelled.                                                               *)
(***************************************************************************)
EXTENDS Fractions, Sequences, SequencesExt, FiniteSetsExt

Newest(s, n) == SubSeq(s, Max({1, Len(s) - n + 1}), Len(s))

FiniteSeries(s) == SelectSeq(s, LAMBDA x : Finite(x.v))

\* The samples at the indices that pass the test, each replaced by F.
Gather(n, Test(_), F(_)) ==
    LET kept == SelectSeq([i \in 1..n |-> i], Test)
    IN [k \in DOMAIN kept |-> F(kept[k])]

-----------------------------------------------------------------------------
(* Filters over a centred window of time.                                  *)

\* The first index from start on whose sample fails the test of the loop.
PastWhile(s, start, Test(_)) ==
    Min({i \in start..Len(s) + 1 : i = Len(s) + 1 \/ (i \in DOMAIN s /\ ~Test(s[i]))})

SumOf(s, from, to) ==
    FoldLeft(LAMBDA sum, x : Plus(sum, x.v), Nought, SubSeq(s, from, to))

\* Both edges of the window move on to the centre c, and the running sum with
\* them.
Slide(s, w, c) ==
    LET right == PastWhile(s, w.right, LAMBDA x : 2 * (x.t - c.t) <= w.width)
        left  == PastWhile(s, w.left, LAMBDA x : 2 * (c.t - x.t) > w.width)
    IN [w EXCEPT !.right = right, !.left = left,
                 !.sum = Minus(Plus(w.sum, SumOf(s, w.right, right - 1)),
                               SumOf(s, w.left, left - 1))]

MovingAverage(series, width) ==
    IF width <= 0 THEN series
    ELSE LET s == FiniteSeries(series)
             step(acc, c) ==
                 LET w == Slide(s, acc.w, c)
                     n == w.right - w.left
                 IN [w   |-> w,
                     out |-> IF n = 0 THEN acc.out
                             ELSE Append(acc.out, [t |-> c.t, v |-> Over(w.sum, Whole(n))])]
             start == [w   |-> [left |-> 1, right |-> 1, width |-> width, sum |-> Nought],
                       out |-> <<>>]
         IN FoldLeft(step, start, s).out

MiddleOfSorted(values) ==
    LET m == Len(values) \div 2
    IN IF Len(values) % 2 = 1 THEN values[m + 1]
       ELSE Over(Plus(values[m], values[m + 1]), Whole(2))

MiddleOf(values) == MiddleOfSorted(SortSeq(values, Less))

\* _time_window_samples: the left edge never moves back.
Window(s, left, c, width) ==
    LET l == PastWhile(s, left, LAMBDA x : 2 * (c.t - x.t) > width)
    IN [left |-> l, right |-> PastWhile(s, l, LAMBDA x : 2 * (x.t - c.t) <= width)]

\* The filters that look at all values of the window at once; Pick gives the
\* new value of the centre.
Filtered(series, width, Pick(_, _)) ==
    IF width <= 0 THEN series
    ELSE LET s == FiniteSeries(series)
             step(acc, c) ==
                 LET w == Window(s, acc.left, c, width)
                     values == [k \in 1..(w.right - w.left) |-> s[w.left + k - 1].v]
                 IN [left |-> w.left,
                     out  |-> IF values = <<>> THEN acc.out
                              ELSE Append(acc.out, [t |-> c.t, v |-> Pick(values, c.v)])]
         IN FoldLeft(step, [left |-> 1, out |-> <<>>], s).out

MovingMedian(series, width) ==
    Filtered(series, width, LAMBDA values, v : MiddleOf(values))

ScaleFactor == <<7413, 5000>>     \* 1.4826

Unspiked(values, v, sigma) ==
    LET center == MiddleOf(values)
        mad == MiddleOf([k \in DOMAIN values |-> Distance(values[k], center)])
        threshold == Times(Times(sigma, ScaleFactor), mad)
    IN IF \/ mad = Nought /\ v # center
          \/ Less(threshold, Distance(v, center))
       THEN center ELSE v

HampelFilter(series, width, sigma) ==
    IF ~Finite(sigma) \/ Less(sigma, Nought) THEN <<>>
    ELSE Filtered(series, width, LAMBDA values, v : Unspiked(values, v, sigma))

-----------------------------------------------------------------------------
(* Samples for the screen.                                                 *)

\* The (zero-based) indices of bucket b; none is empty.
Bucket(n, buckets, b) ==
    LET start == 1 + (b * (n - 2)) \div buckets
        end   == IF b = buckets - 1 THEN n - 1 ELSE 1 + ((b + 1) * (n - 2)) \div buckets
    IN start..(Max({start + 1, Min({end, n - 1})}) - 1)

\* The first of the smallest and the first of the largest finite values.
Extremes(series, indices) ==
    LET valid == {i \in indices : Finite(series[i + 1].v)}
        v(i) == series[i + 1].v
        first(S) == IF S = {} THEN {} ELSE {Min(S)}
    IN first({i \in valid : \A j \in valid : AtMost(v(i), v(j))})
         \cup first({i \in valid : \A j \in valid : AtMost(v(j), v(i))})

Shown(series, points) ==
    LET n == Len(series)
        max == Max({4, points})
        buckets == Max({1, (max - 2) \div 2})
    IN IF n <= max THEN 0..(n - 1)
       ELSE {0, n - 1}
              \cup UNION {Extremes(series, Bucket(n, buckets, b)) : b \in 0..(buckets - 1)}

MinMaxDownsample(series, points) ==
    LET shown == Shown(series, points)
    IN Gather(Len(series), LAMBDA i : i - 1 \in shown, LAMBDA i : series[i])

-----------------------------------------------------------------------------
(* Slopes, interpolation, arithmetic, limits.                              *)

\* _differentiate_curve_data: the slope from each sample to the next one.
Differentiate(s) ==
    Gather(Len(s),
           LAMBDA i : i > 1 /\ Finite(s[i - 1].v) /\ Finite(s[i].v) /\ s[i - 1].t < s[i].t,
           LAMBDA i : [t |-> s[i].t,
                       v |-> Over(Minus(s[i].v, s[i - 1].v), Whole(s[i].t - s[i - 1].t))])

\* _interp_at: NaN stands for None, there is nothing to combine either way.
InterpAt(s, x) ==
    IF s = <<>> \/ x < s[1].t \/ x > Last(s).t THEN NaN
    ELSE LET i == Min({j \in DOMAIN s : s[j].t >= x}) IN
         IF s[i].t = x THEN s[i].v
         ELSE LET p == s[i - 1] IN
              IF ~Finite(p.v) \/ ~Finite(s[i].v) THEN NaN
              ELSE Plus(p.v, Times(Minus(s[i].v, p.v), Frac(x - p.t, s[i].t - p.t)))

\* _apply_binary_scalar; a divisor of zero gives no value.
Apply(op, l, r) ==
    CASE op = "+" -> Plus(l, r)
      [] op = "-" -> Minus(l, r)
      [] op = "*" -> Times(l, r)
      [] op = "/" -> Over(l, r)

Series(s) == [kind |-> "series", s |-> s]
Scalar(q) == [kind |-> "scalar", v |-> q]
Empty     == Series(<<>>)
IsSeries(value) == value.kind = "series"
IsScalar(value) == value.kind = "scalar"

\* The samples of s for which f has a finite value.
Mapped(s, F(_)) ==
    FiniteSeries([i \in DOMAIN s |-> [t |-> s[i].t, v |-> F(s[i])]])

\* _apply_binary_value: two series are combined at the times of the left one.
Combine(op, l, r) ==
    CASE IsScalar(l) /\ IsScalar(r) ->
           LET v == Apply(op, l.v, r.v) IN IF Finite(v) THEN Scalar(v) ELSE Empty
      [] IsSeries(l) /\ IsScalar(r) -> Series(Mapped(l.s, LAMBDA x : Apply(op, x.v, r.v)))
      [] IsScalar(l) /\ IsSeries(r) -> Series(Mapped(r.s, LAMBDA x : Apply(op, l.v, x.v)))
      [] OTHER -> Series(Mapped(l.s, LAMBDA x : Apply(op, x.v, InterpAt(r.s, x.t))))

SignOf(q) == Whole(IF q[1] > 0 THEN 1 ELSE IF q[1] < 0 THEN -1 ELSE 0)

Sign(value) ==
    IF IsScalar(value) THEN Scalar(SignOf(value.v))
    ELSE Series(Mapped(value.s, LAMBDA x : IF Finite(x.v) THEN SignOf(x.v) ELSE NaN))

\* resolve_clip_bounds; one limit stands for plus and minus its magnitude.
ClipBounds(limits) ==
    LET abs == Distance(limits[1], Nought)
        b == IF Len(limits) = 1 THEN <<Neg(abs), abs>> ELSE limits
    IN IF Finite(b[1]) /\ Finite(b[2]) /\ ~Less(b[2], b[1]) THEN b ELSE <<>>

ClipScalar(q, b) ==
    IF ~Finite(q) THEN NaN ELSE IF Less(q, b[1]) THEN b[1] ELSE IF Less(b[2], q) THEN b[2] ELSE q

Clip(value, limits) ==
    LET b == ClipBounds(limits) IN
    CASE b = <<>> -> Empty
      [] b # <<>> /\ IsScalar(value) -> Scalar(ClipScalar(value.v, b))
      [] OTHER -> Series(Mapped(value.s, LAMBDA x : ClipScalar(x.v, b)))

================================================================================
