------------------------------ MODULE Trajectory ------------------------------
(***************************************************************************)
(* The trail of the flight window: ui/flight_visualization_window.py and   *)
(* the interpolation of flight_visualization.py.  The window redraws on a  *)
(* timer.  Two signatures tell it whether anything changed, and the trail  *)
(* is kept from one drawing to the next: while the playhead follows the    *)
(* live edge only new samples are appended to it.                          *)
(*                                                                         *)
(* A view v is what the window finds when it redraws: the series of the    *)
(* axes with aligned times and their revisions, the transport, the         *)
(* settings.  A window w is what it remembers.  A point of the trail also  *)
(* has the time t of its sample, which the code drops.                     *)
(***************************************************************************)
EXTENDS Curves

Axes3   == {"x", "y", "z"}
NoStart == <<>>     \* a trail that has not been cleared
Unset   == <<>>

\* The last sample at or before a time, if there is one, and the first after it.
Previous(s, t)  == SelectSeq(s, LAMBDA p : p.t <= t)
Following(s, t) == SelectSeq(s, LAMBDA p : p.t > t)

OnTheLine(previous, following, t) ==
    Plus(previous.v, Times(Frac(t - previous.t, following.t - previous.t),
                           Minus(following.v, previous.v)))

Oldest(s, n) == SubSeq(s, 1, Min({n, Len(s)}))

\* interpolate_sample on what get_bracketing_samples gives: nothing before the
\* first sample, and a long gap is not interpolated.  Angles, which turn the
\* short way, are left out.
Interpolated(before, after, t, gap) ==
    IF before = <<>> THEN NaN
    ELSE IF after = <<>> \/ t <= Last(before).t \/ after[1].t - Last(before).t > gap
         THEN Last(before).v
    ELSE OnTheLine(Last(before), after[1], t)

InterpolateSample(s, t, gap) == Interpolated(Previous(s, t), Following(s, t), t, gap)

\* The same for all times of a trail at once, over the part of the series that
\* holds them and one sample more at either end.
PartAround(s, first, last) ==
    Newest(SelectSeq(s, LAMBDA p : p.t < first), 1)
      \o SelectSeq(s, LAMBDA p : first <= p.t /\ p.t <= last)
      \o Oldest(Following(s, last), 1)

\* The value at a time that has k samples of the part at or before it.
ValueAfter(part, k, t, gap) ==
    IF k = 0 THEN NaN
    ELSE IF k < Len(part) /\ part[k + 1].t - part[k].t <= gap THEN OnTheLine(part[k], part[k + 1], t)
    ELSE part[k].v

ValuesOf(part, times, gap) ==
    [i \in DOMAIN times |-> ValueAfter(part, Len(Previous(part, times[i])), times[i], gap)]

SeriesValuesAt(s, times, gap) == ValuesOf(PartAround(s, times[1], Last(times)), times, gap)

Points(xs, ys, zs) ==
    Gather(Len(xs), LAMBDA i : Finite(xs[i].v) /\ Finite(ys[i]) /\ Finite(zs[i]),
           LAMBDA i : [t |-> xs[i].t, x |-> xs[i].v, y |-> ys[i], z |-> zs[i]])

PointsAt(v, xs, times) ==
    IF xs = <<>> THEN <<>>
    ELSE Points(xs, SeriesValuesAt(v.series["y"], times, v.gap),
                SeriesValuesAt(v.series["z"], times, v.gap))

TrajectoryPoints(v, xs, start) ==
    LET kept == SelectSeq(xs, LAMBDA p : start = NoStart \/ p.t >= start[1])
    IN PointsAt(v, kept, [i \in DOMAIN kept |-> kept[i].t])

\* Forgotten: _invalidate_trajectory_cache.
Invalidated == [key |-> Unset, revisions |-> Unset, points |-> <<>>, last |-> Unset, playhead |-> Unset]

CacheKey(v, start) == <<start, v.capacity, v.epoch>>

\* Mutant: an axis whose clock was aligned anew may be appended to.
CanAppendAcrossAlignments(c, v, start) ==
    /\ v.state = "follow_live" /\ c.key = CacheKey(v, start)
    /\ c.last # Unset /\ c.playhead # Unset /\ v.playhead >= c.playhead[1]
    /\ c.revisions # Unset
    /\ v.revisions["x"] # c.revisions["x"]
    /\ \E axis \in {"y", "z"} : v.revisions[axis] # c.revisions[axis]

CanAppend(c, v, start) ==
    /\ v.state = "follow_live" /\ c.key = CacheKey(v, start)
    /\ c.last # Unset /\ c.playhead # Unset /\ v.playhead >= c.playhead[1]
    /\ c.revisions # Unset
    /\ v.revisions["x"] # c.revisions["x"]
    /\ \E axis \in {"y", "z"} : v.revisions[axis] # c.revisions[axis]
    /\ \A axis \in Axes3 : v.revisions[axis].rebuilt = c.revisions[axis].rebuilt

Appended(c, v, start) ==
    LET new == SelectSeq(v.series["x"], LAMBDA p : p.t > c.last[1] /\ p.t <= v.playhead)
    IN [c EXCEPT !.points = Newest(@ \o TrajectoryPoints(v, new, start), v.capacity),
                 !.last = IF new = <<>> THEN @ ELSE <<Last(new).t>>]

Rebuilt(c, v, start) ==
    LET xs == Newest(Previous(v.series["x"], v.playhead), v.capacity)
    IN [c EXCEPT !.points = Newest(TrajectoryPoints(v, xs, start), v.capacity),
                 !.last = IF xs = <<>> THEN Unset ELSE <<Last(xs).t>>]

TrajectoryAt(c, v, start) ==
    LET changed == c.key # CacheKey(v, start) \/ c.revisions # v.revisions
                     \/ c.playhead # <<v.playhead>>
        drawn == IF CanAppend(c, v, start) THEN Appended(c, v, start)
                 ELSE IF changed THEN Rebuilt(c, v, start) ELSE c
    IN [drawn EXCEPT !.key = CacheKey(v, start), !.revisions = v.revisions,
                     !.playhead = <<v.playhead>>]

DownsampleTrajectory(points, limit) ==
    LET n == Len(points)
        m == Max({2, limit})
    IN IF n <= m THEN points
       ELSE [i \in 1..m |-> points[1 + ((i - 1) * (n - 1)) \div (m - 1)]]

-----------------------------------------------------------------------------
(* The window.                                                             *)

NewWindow == [cache |-> Invalidated, gate |-> Unset, source |-> "none", scene |-> Unset,
              start |-> NoStart, trail |-> <<>>]

Gate(w, v)  == <<v.revision, v.state, v.playhead, v.mode, w.start>>
Scene(w, v) == <<v.state, v.playhead, v.mode, w.start, v.revisions>>

Position(v) ==
    [t |-> v.playhead, x |-> InterpolateSample(v.series["x"], v.playhead, v.gap),
     y |-> InterpolateSample(v.series["y"], v.playhead, v.gap),
     z |-> InterpolateSample(v.series["z"], v.playhead, v.gap)]

SamePlace(p, q) == p.x = q.x /\ p.y = q.y /\ p.z = q.z

\* The points of the trail and the vehicle at the end of it.
UpTo(here, points) ==
    IF \/ ~Finite(here.x) \/ ~Finite(here.y) \/ ~Finite(here.z)
       \/ points # <<>> /\ SamePlace(Last(points), here)
    THEN points ELSE Append(points, here)

WithTrail(w, v, cache) ==
    [w EXCEPT !.cache = cache, !.trail = DownsampleTrajectory(UpTo(Position(v), cache.points), v.limit)]

Drawn(w, v) ==
    IF \/ \A axis \in Axes3 : Previous(v.series[axis], v.playhead) = <<>>
       \/ v.mode = "attitude"
    THEN [w EXCEPT !.trail = <<>>]
    ELSE WithTrail(w, v, TrajectoryAt(w.cache, v, w.start))

\* update_scene: another source of the timeline ends what Clear Trail began.
UpdateScene(w, v) ==
    LET gated == [w EXCEPT !.gate = Gate(w, v)]
        moved == IF w.source = v.source THEN gated
                 ELSE [gated EXCEPT !.source = v.source, !.start = NoStart, !.cache = Invalidated]
    IN IF w.gate = Gate(w, v) THEN w
       ELSE IF moved.scene = Scene(moved, v) THEN moved
       ELSE Drawn([moved EXCEPT !.scene = Scene(moved, v)], v)

ClearTrail(w, v) ==
    [w EXCEPT !.start = <<v.playhead>>, !.cache = Invalidated, !.gate = Unset, !.scene = Unset,
              !.trail = <<>>]

\* A setting was changed: the trail is computed anew.
SettingsChanged(w) == [w EXCEPT !.cache = Invalidated, !.gate = Unset, !.scene = Unset]
================================================================================
