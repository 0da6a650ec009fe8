-------------------------------- MODULE Timeline --------------------------------
(***************************************************************************)
(* TimelineController of timeline_controller.py: the transport of the plot *)
(* and flight windows, over live history or an imported capture.  Buttons, *)
(* the slider, the playhead line and a timer call it, in any order, while  *)
(* the data's bounds grow, shrink when the data is cleared, or move when   *)
(* the time alignment changes.                                             *)
(*                                                                         *)
(* Timestamps are in a unit that the slowest speed moves by one for each   *)
(* unit of the clock.                                                      *)
(***************************************************************************)
EXTENDS Integers

CONSTANTS
    MaxTime,        \* bound: timestamps
    Speeds,         \* playback speeds
    EdgeTolerance,  \* a playhead this close to the newest sample is live
    MaxElapsed,     \* bound: clock units between two calls
    NoTime          \* None

Times == 0..MaxTime

ASSUME TimelineConstants ==
    /\ MaxTime \in Nat /\ MaxElapsed \in Nat
    /\ Speeds \subseteq Nat \ {0} /\ 1 \in Speeds
    /\ EdgeTolerance \in Nat
    /\ NoTime \notin Int

VARIABLES
    state,          \* empty, follow_live, paused or playing
    kind,           \* source_kind
    start,          \* start_ms
    latest,         \* latest_ms
    playhead,       \* playhead_ms
    speed,          \* speed
    elapsed,        \* clock units since _last_tick_s
    playing,        \* clock units since playback last started
    shown           \* what "changed" last showed to the windows

transport == <<state, kind, start, latest, playhead, speed>>
timeVars  == <<elapsed, playing>>
tlVars    == <<state, kind, start, latest, playhead, speed, elapsed, playing, shown>>

Max2(a, b) == IF a >= b THEN a ELSE b
Min2(a, b) == IF a <= b THEN a ELSE b
Clamp(t, low, high) == Min2(high, Max2(low, t))

HasRange  == start # NoTime /\ latest # NoTime /\ latest >= start
IsRunning == state \in {"follow_live", "playing"}

\* _emit_changed: both windows and the bar read the transport again.
EmitChanged == shown' = transport'

EmitIf(changed) == IF changed THEN EmitChanged ELSE UNCHANGED shown

\* _last_tick_s = _clock()
MarkTick == elapsed' = 0 /\ playing' = 0

TimelineInit ==
    /\ state = "empty" /\ kind = "none" /\ speed = 1
    /\ start = NoTime /\ latest = NoTime /\ playhead = NoTime
    /\ elapsed = 0 /\ playing = 0 /\ shown = transport

-----------------------------------------------------------------------------
(* Operations.                                                             *)

Forget ==
    /\ start' = NoTime /\ latest' = NoTime /\ playhead' = NoTime
    /\ speed' = 1 /\ MarkTick

Reset ==
    /\ state' = "empty" /\ kind' = "none"
    /\ Forget /\ EmitChanged

BeginLive ==
    /\ state' = "follow_live" /\ kind' = "live"
    /\ Forget /\ EmitChanged

BeginReplay(s, l) ==
    /\ state' = "paused" /\ kind' = "replay"
    /\ start' = s /\ latest' = Max2(s, l) /\ playhead' = s
    /\ speed' = 1 /\ MarkTick /\ EmitChanged

\* The playhead follows the newest sample or is brought inside the bounds.
MovedHead(s, l) ==
    IF state = "follow_live" THEN l
    ELSE IF playhead = NoTime THEN s ELSE Clamp(playhead, s, l)

UpdateBounds(s, l) ==
    \/ /\ s = NoTime \/ l = NoTime
       /\ UNCHANGED tlVars
    \/ /\ s # NoTime /\ l # NoTime
       /\ start' = s /\ latest' = Max2(s, l)
       /\ playhead' = MovedHead(s, Max2(s, l))
       /\ UNCHANGED <<state, kind, speed, timeVars>>
       /\ EmitIf(<<start, latest, playhead>>' # <<start, latest, playhead>>)

Pause ==
    \/ /\ IsRunning
       /\ state' = "paused"
       /\ UNCHANGED <<kind, start, latest, playhead, speed>>
       /\ MarkTick /\ EmitChanged
    \/ ~IsRunning /\ UNCHANGED tlVars

GoLive ==
    \/ /\ kind = "live"
       /\ state' = "follow_live"
       /\ playhead' = IF latest # NoTime THEN latest ELSE playhead
       /\ UNCHANGED <<kind, start, latest, speed>>
       /\ MarkTick /\ EmitChanged
    \/ kind # "live" /\ UNCHANGED tlVars

AtLiveEdge == kind = "live" /\ latest - playhead <= EdgeTolerance

\* A replay at its end starts again.
StartPlaying ==
    /\ playhead' = IF kind = "replay" /\ playhead >= latest THEN start ELSE playhead
    /\ state' = "playing"
    /\ UNCHANGED <<kind, start, latest, speed>>
    /\ MarkTick /\ EmitChanged

Play ==
    \/ ~HasRange /\ UNCHANGED tlVars
    \/ HasRange /\ AtLiveEdge /\ GoLive
    \/ HasRange /\ ~AtLiveEdge /\ StartPlaying

TogglePlayback == (IsRunning /\ Pause) \/ (~IsRunning /\ Play)

\* Mutant: a seek to where the playhead is does not tell the windows.
SeekTellsMove == playhead' # playhead

SeekTells == playhead' # playhead \/ state # "paused"

Seek(t) ==
    \/ /\ HasRange
       /\ playhead' = Clamp(t, start, latest)
       /\ state' = "paused"
       /\ UNCHANGED <<kind, start, latest, speed>>
       /\ MarkTick /\ EmitIf(SeekTells)
    \/ ~HasRange /\ UNCHANGED tlVars

\* A change of speed drops the time since the last tick.
SetSpeed(v) ==
    \/ /\ v # speed
       /\ speed' = v
       /\ elapsed' = 0
       /\ UNCHANGED <<state, kind, start, latest, playhead, playing>>
       /\ EmitChanged
    \/ v = speed /\ UNCHANGED tlVars

Ahead == playhead + elapsed * speed

\* Mutant: a replay starts over at its end.
AdvanceLoops ==
    \/ /\ Ahead < latest
       /\ playhead' = Ahead /\ UNCHANGED state
    \/ /\ Ahead >= latest
       /\ playhead' = IF kind = "live" THEN latest ELSE start
       /\ state' = IF kind = "live" THEN "follow_live" ELSE state

\* At the end live playback joins the live edge and a replay stops.
Advance ==
    \/ /\ Ahead < latest
       /\ playhead' = Ahead /\ UNCHANGED state
    \/ /\ Ahead >= latest
       /\ playhead' = latest
       /\ state' = IF kind = "live" THEN "follow_live" ELSE "paused"

TickTimeline ==
    /\ elapsed' = 0
    /\ UNCHANGED <<kind, start, latest, speed, playing>>
    /\ \/ /\ state = "playing" /\ HasRange
          /\ Advance /\ EmitChanged
       \/ /\ ~(state = "playing" /\ HasRange)
          /\ UNCHANGED <<state, playhead, shown>>

Elapse ==
    /\ elapsed < MaxElapsed
    /\ elapsed' = elapsed + 1 /\ playing' = Min2(playing + 1, MaxElapsed)
    /\ UNCHANGED <<transport, shown>>

-----------------------------------------------------------------------------
TimelineNext ==
    \/ Reset
    \/ BeginLive
    \/ \E s, l \in Times : BeginReplay(s, l)
    \/ \E s, l \in Times \cup {NoTime} : UpdateBounds(s, l)
    \/ Pause
    \/ GoLive
    \/ TogglePlayback
    \/ \E t \in Times : Seek(t)
    \/ \E v \in Speeds : SetSpeed(v)
    \/ TickTimeline
    \/ Elapse

TimelineSpec == TimelineInit /\ [][TimelineNext]_tlVars

Moments == Times \cup {NoTime}

TransportOK ==
    /\ state \in {"empty", "follow_live", "paused", "playing"}
    /\ kind \in {"none", "live", "replay"}
    /\ start \in Moments /\ latest \in Moments /\ playhead \in Moments
    /\ speed \in Speeds
    /\ elapsed \in 0..MaxElapsed /\ playing \in 0..MaxElapsed

-----------------------------------------------------------------------------
(* Properties.                                                             *)

\* The start, the end and the playhead are known together, and whatever moves
\* the bounds the playhead stays between them: both windows draw relative to
\* the start without looking again.
PlayheadInRange ==
    \/ start = NoTime /\ latest = NoTime /\ playhead = NoTime
    \/ /\ NoTime \notin {start, latest, playhead}
       /\ start <= playhead /\ playhead <= latest

\* The live edge is followed exactly, and only in live data: no order of
\* clicks, samples and ticks leaves the view "live" on an older moment.
LiveEdgeFollowed == state = "follow_live" => kind = "live" /\ playhead = latest

\* The windows refresh on the "changed" signal alone, which each operation
\* sends on conditions of its own: no change of the transport goes untold.
WindowsUpToDate == shown = transport

\* Time that passed before playback was started is not played.
PausedTimeNotPlayed == state = "playing" => elapsed <= playing

\* What the windows that draw the transport rely on, whichever call came last.
TransportSound ==
    /\ TransportOK /\ PlayheadInRange /\ LiveEdgeFollowed
    /\ WindowsUpToDate /\ PausedTimeNotPlayed

\* Playback goes forward; it is moved back only to stay within bounds whose
\* end has moved back.
PlaybackForward ==
    [][state = "playing" /\ state' = "playing" /\ playhead' < playhead
         => playhead' = latest']_tlVars
=============================================================================
