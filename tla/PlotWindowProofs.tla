---------------------------- MODULE PlotWindowProofs ----------------------------
(***************************************************************************)
(* The safety properties of the timeline, for any length of the capture,   *)
(* any speeds and any order of calls, and those of the plot window, which  *)
(* uses the timeline only through its operations, so that what is shown of *)
(* the timeline holds in the window; on top of it the button agrees with   *)
(* the transport and an import is kept.                                    *)
(***************************************************************************)
EXTENDS PlotWindow, TLAPS

-----------------------------------------------------------------------------
(* The timeline.  TimelineInv is inductive: the playhead needs the types,  *)
(* the live edge needs that the bounds and the playhead are known          *)
(* together, the rest stand on their own.                                  *)

\* Something is played only where there is something.
PlayingSomething == state = "playing" => playhead # NoTime

TimelineInv ==
    /\ TransportOK
    /\ PlayingSomething
    /\ PlayheadInRange
    /\ LiveEdgeFollowed
    /\ WindowsUpToDate
    /\ PausedTimeNotPlayed

\* What is left of the invariant once the windows have been told.
Position ==
    /\ TransportOK /\ PlayingSomething
    /\ PlayheadInRange /\ LiveEdgeFollowed /\ PausedTimeNotPlayed

-----------------------------------------------------------------------------
(* Operators.                                                              *)

\* Clamp returns a moment between its bounds.
LEMMA Clamped ==
    ASSUME NEW t \in Times, NEW low \in Times, NEW high \in Times, low <= high
    PROVE  /\ Clamp(t, low, high) \in Times
           /\ low <= Clamp(t, low, high) /\ Clamp(t, low, high) <= high
  BY TimelineConstants DEF Clamp, Min2, Max2, Times

\* The later of two moments is a moment no earlier than either.
LEMMA LaterMoment ==
    ASSUME NEW s \in Times, NEW l \in Times
    PROVE  Max2(s, l) \in Times /\ s <= Max2(s, l)
  BY TimelineConstants DEF Max2, Times

\* NoTime is no moment.
LEMMA NoTimeIsNoMoment == NoTime \notin Times
  BY TimelineConstants DEF Times

\* Playing moves the playhead forward.
LEMMA AheadIsAhead ==
    ASSUME TransportOK, playhead \in Times
    PROVE  Ahead \in Nat /\ playhead <= Ahead
  <1>1. elapsed \in Nat /\ speed \in Nat /\ playhead \in Nat
    BY TimelineConstants DEF TransportOK, Times
  <1>2. elapsed * speed \in Nat
    BY <1>1
  <1> QED  BY <1>1, <1>2 DEF Ahead

\* Inside a known range all three moments are known.
LEMMA RangeKnown ==
    ASSUME TransportOK, PlayheadInRange, HasRange
    PROVE  /\ start \in Times /\ latest \in Times /\ playhead \in Times
           /\ start <= playhead /\ playhead <= latest
  BY NoTimeIsNoMoment DEF TransportOK, PlayheadInRange, HasRange, Moments

-----------------------------------------------------------------------------
(* The operations, one lemma for each group of a kind.                     *)

LEMMA DroppedSource ==
    ASSUME TimelineInv, Reset \/ BeginLive
    PROVE  Position'
  <1> USE TimelineConstants
  <1>1. 1 \in Speeds /\ 0 \in 0..MaxElapsed
    OBVIOUS
  <1> QED
    BY <1>1 DEF Reset, BeginLive, Forget, MarkTick, Position, TransportOK,
                PlayheadInRange, LiveEdgeFollowed, PlayingSomething, PausedTimeNotPlayed, Moments

LEMMA ReplayBegun ==
    ASSUME TimelineInv, NEW s \in Times, NEW l \in Times, BeginReplay(s, l)
    PROVE  Position'
  <1>1. 1 \in Speeds /\ 0 \in 0..MaxElapsed
    BY TimelineConstants
  <1>2. Max2(s, l) \in Times /\ s <= Max2(s, l)
    BY LaterMoment
  <1>3. s <= s
    BY DEF Times
  <1> QED
    BY <1>1, <1>2, <1>3, NoTimeIsNoMoment
    DEF BeginReplay, MarkTick, Position, TransportOK,
        PlayheadInRange, LiveEdgeFollowed, PlayingSomething, PausedTimeNotPlayed, Moments

LEMMA BoundsUpdated ==
    ASSUME TimelineInv, NEW s \in Moments, NEW l \in Moments, UpdateBounds(s, l),
           s # NoTime, l # NoTime
    PROVE  Position'
  <1> DEFINE e == Max2(s, l)
  <1>1. s \in Times /\ l \in Times
    BY DEF Moments
  <1>2. e \in Times /\ s <= e
    BY <1>1, LaterMoment
  <1>3. MovedHead(s, e) \in Times /\ s <= MovedHead(s, e) /\ MovedHead(s, e) <= e
    <2>1. CASE state = "follow_live"
      BY <2>1, <1>1, <1>2 DEF MovedHead, Times
    <2>2. CASE state # "follow_live" /\ playhead = NoTime
      BY <2>2, <1>1, <1>2 DEF MovedHead, Times
    <2>3. CASE state # "follow_live" /\ playhead # NoTime
      <3>1. playhead \in Times
        BY <2>3 DEF TimelineInv, TransportOK, Moments
      <3> QED  BY <2>3, <3>1, <1>1, <1>2, Clamped DEF MovedHead
    <2> QED  BY <2>1, <2>2, <2>3
  <1>4. /\ start' = s /\ latest' = e /\ playhead' = MovedHead(s, e)
        /\ UNCHANGED <<state, kind, speed, elapsed, playing>>
    BY DEF UpdateBounds, timeVars
  <1>5. TransportOK'
    BY <1>1, <1>2, <1>3, <1>4 DEF TimelineInv, TransportOK, Moments
  <1>6. PlayheadInRange'
    BY <1>1, <1>2, <1>3, <1>4, NoTimeIsNoMoment DEF PlayheadInRange
  <1>7. LiveEdgeFollowed'
    BY <1>4 DEF TimelineInv, LiveEdgeFollowed, MovedHead
  <1>9. PlayingSomething'
    BY <1>3, <1>4, NoTimeIsNoMoment DEF PlayingSomething
  <1>8. PausedTimeNotPlayed'
    BY <1>4 DEF TimelineInv, PausedTimeNotPlayed
  <1> QED  BY <1>5, <1>6, <1>7, <1>8, <1>9 DEF Position

LEMMA Paused ==
    ASSUME TimelineInv, IsRunning, Pause
    PROVE  Position'
  <1>1. 0 \in 0..MaxElapsed
    BY TimelineConstants
  <1> QED
    BY <1>1 DEF Pause, MarkTick, TimelineInv, Position, TransportOK,
                PlayheadInRange, LiveEdgeFollowed, PlayingSomething, PausedTimeNotPlayed

LEMMA WentLive ==
    ASSUME TimelineInv, kind = "live", GoLive
    PROVE  Position'
  <1>1. 0 \in 0..MaxElapsed
    BY TimelineConstants
  <1>2. /\ state' = "follow_live" /\ elapsed' = 0 /\ playing' = 0
        /\ playhead' = IF latest # NoTime THEN latest ELSE playhead
        /\ UNCHANGED <<kind, start, latest, speed>>
    BY DEF GoLive, MarkTick
  <1>3. CASE latest = NoTime
    BY <1>1, <1>2, <1>3
    DEF TimelineInv, Position, TransportOK, PlayheadInRange, LiveEdgeFollowed, PlayingSomething,
        PausedTimeNotPlayed
  <1>4. CASE latest # NoTime
    <2>1. /\ start \in Times /\ latest \in Times /\ start <= latest
          /\ start # NoTime
      BY <1>4, NoTimeIsNoMoment DEF TimelineInv, TransportOK, PlayheadInRange, Moments, Times
    <2>2. latest <= latest
      BY <2>1 DEF Times
    <2> QED
      BY <1>1, <1>2, <1>4, <2>1, <2>2
      DEF TimelineInv, Position, TransportOK, PlayheadInRange, LiveEdgeFollowed, PlayingSomething,
          PausedTimeNotPlayed
  <1> QED  BY <1>3, <1>4

LEMMA StartedPlaying ==
    ASSUME TimelineInv, HasRange, StartPlaying
    PROVE  Position'
  <1>1. 0 \in 0..MaxElapsed
    BY TimelineConstants
  <1>2. /\ start \in Times /\ latest \in Times /\ playhead \in Times
        /\ start <= playhead /\ playhead <= latest
    BY RangeKnown DEF TimelineInv
  <1>3. start <= start /\ start <= latest
    BY <1>2 DEF Times
  <1>4. playhead' \in {start, playhead}
    BY DEF StartPlaying
  <1> QED
    BY <1>1, <1>2, <1>3, <1>4, NoTimeIsNoMoment
    DEF StartPlaying, MarkTick, TimelineInv, Position, TransportOK, PlayheadInRange,
        LiveEdgeFollowed, PlayingSomething, PausedTimeNotPlayed, Moments

LEMMA Sought ==
    ASSUME TimelineInv, HasRange, NEW t \in Times, Seek(t)
    PROVE  Position'
  <1>1. 0 \in 0..MaxElapsed
    BY TimelineConstants
  <1>2. /\ start \in Times /\ latest \in Times
        /\ start <= latest
    BY RangeKnown DEF TimelineInv, Times
  <1>3. /\ playhead' \in Times /\ start <= playhead' /\ playhead' <= latest
        /\ state' = "paused" /\ elapsed' = 0 /\ playing' = 0
        /\ UNCHANGED <<kind, start, latest, speed>>
    BY <1>2, Clamped DEF Seek, MarkTick
  <1> QED
    BY <1>1, <1>2, <1>3, NoTimeIsNoMoment
    DEF TimelineInv, Position, TransportOK, PlayheadInRange, LiveEdgeFollowed, PlayingSomething,
        PausedTimeNotPlayed, Moments

LEMMA SpeedSet ==
    ASSUME TimelineInv, NEW v \in Speeds, SetSpeed(v), v # speed
    PROVE  Position'
  <1>1. 0 \in 0..MaxElapsed /\ \A n \in 0..MaxElapsed : 0 <= n
    BY TimelineConstants
  <1> QED
    BY <1>1 DEF SetSpeed, TimelineInv, Position, TransportOK, PlayheadInRange,
                LiveEdgeFollowed, PlayingSomething, PausedTimeNotPlayed

LEMMA Ticked ==
    ASSUME TimelineInv, TickTimeline
    PROVE  Position'
  <1>1. 0 \in 0..MaxElapsed /\ playing \in 0..MaxElapsed /\ 0 <= playing
    BY TimelineConstants DEF TimelineInv, TransportOK
  <1>2. CASE state = "playing" /\ HasRange
    <2>1. /\ start \in Times /\ latest \in Times /\ playhead \in Times
          /\ start <= playhead /\ playhead <= latest
      BY <1>2, RangeKnown DEF TimelineInv
    <2>2. Ahead \in Nat /\ playhead <= Ahead
      BY <2>1, AheadIsAhead DEF TimelineInv
    <2>3. Advance /\ elapsed' = 0 /\ UNCHANGED <<kind, start, latest, speed, playing>>
      BY <1>2 DEF TickTimeline
    <2>4. CASE Ahead < latest
      <3>1. playhead' = Ahead /\ state' = "playing"
        BY <2>1, <2>2, <2>3, <2>4, <1>2 DEF Advance, Times
      <3>2. Ahead \in Times /\ start <= Ahead /\ Ahead <= latest
        BY <2>1, <2>2, <2>4, TimelineConstants DEF Times
      <3> QED
        BY <1>1, <2>1, <2>3, <3>1, <3>2, NoTimeIsNoMoment
        DEF TimelineInv, Position, TransportOK, PlayheadInRange, LiveEdgeFollowed, PlayingSomething,
            PausedTimeNotPlayed, Moments
    <2>5. CASE Ahead >= latest
      <3>1. playhead' = latest /\ state' = IF kind = "live" THEN "follow_live" ELSE "paused"
        BY <2>1, <2>2, <2>3, <2>5 DEF Advance, Times
      <3>2. latest <= latest /\ start <= latest
        BY <2>1 DEF Times
      <3> QED
        BY <1>1, <2>1, <2>3, <3>1, <3>2, NoTimeIsNoMoment
        DEF TimelineInv, Position, TransportOK, PlayheadInRange, LiveEdgeFollowed, PlayingSomething,
            PausedTimeNotPlayed, Moments
    <2> QED  BY <2>1, <2>2, <2>4, <2>5 DEF Times
  <1>3. CASE ~(state = "playing" /\ HasRange)
    BY <1>1, <1>3
    DEF TickTimeline, TimelineInv, Position, TransportOK, PlayheadInRange,
        LiveEdgeFollowed, PlayingSomething, PausedTimeNotPlayed
  <1> QED  BY <1>2, <1>3

LEMMA Elapsed ==
    ASSUME TimelineInv, Elapse
    PROVE  Position'
  <1>1. /\ elapsed \in 0..MaxElapsed /\ playing \in 0..MaxElapsed /\ MaxElapsed \in Nat
        /\ elapsed < MaxElapsed /\ elapsed' = elapsed + 1
        /\ playing' = Min2(playing + 1, MaxElapsed)
        /\ UNCHANGED <<state, kind, start, latest, playhead, speed>>
    BY TimelineConstants DEF TimelineInv, TransportOK, Elapse, transport
  <1>2. elapsed' \in 0..MaxElapsed /\ playing' \in 0..MaxElapsed
    BY <1>1 DEF Min2
  <1>3. PausedTimeNotPlayed'
    BY <1>1 DEF TimelineInv, PausedTimeNotPlayed, Min2
  <1> QED
    BY <1>1, <1>2, <1>3
    DEF TimelineInv, Position, TransportOK, PlayheadInRange, LiveEdgeFollowed,
        PlayingSomething

-----------------------------------------------------------------------------
(* Every operation tells the windows or changes nothing they show.         *)

\* A handler that sends no signal has left the transport as it was.
LEMMA WindowsTold ==
    ASSUME TimelineInv, [TimelineNext]_tlVars
    PROVE  WindowsUpToDate'
  <1> USE DEF WindowsUpToDate
  <1>0. shown = transport
    BY DEF TimelineInv
  <1>1. CASE EmitChanged
    BY <1>1 DEF EmitChanged
  <1>2. CASE UNCHANGED <<transport, shown>>
    BY <1>0, <1>2
  <1>3. CASE \E s, l \in Moments : UpdateBounds(s, l)
    BY <1>0, <1>3 DEF UpdateBounds, EmitIf, EmitChanged, transport, timeVars, tlVars
  <1>4. CASE \E t \in Times : Seek(t)
    BY <1>0, <1>4 DEF Seek, SeekTells, EmitIf, EmitChanged, transport, tlVars
  <1>5. CASE TickTimeline
    BY <1>0, <1>5 DEF TickTimeline, EmitChanged, transport
  <1>6. tlVars' = tlVars => UNCHANGED <<transport, shown>>
    BY DEF tlVars, transport
  <1>7. Pause => EmitChanged \/ tlVars' = tlVars
    BY DEF Pause
  <1>8. GoLive => EmitChanged \/ tlVars' = tlVars
    BY DEF GoLive
  <1>9. Play => EmitChanged \/ tlVars' = tlVars
    BY <1>8 DEF Play, StartPlaying
  <1>10. TogglePlayback => EmitChanged \/ tlVars' = tlVars
    BY <1>7, <1>9 DEF TogglePlayback
  <1>11. (\E v \in Speeds : SetSpeed(v)) => EmitChanged \/ tlVars' = tlVars
    BY DEF SetSpeed
  <1>12. Reset \/ BeginLive \/ (\E s, l \in Times : BeginReplay(s, l)) => EmitChanged
    BY DEF Reset, BeginLive, BeginReplay
  <1>13. Elapse => UNCHANGED <<transport, shown>>
    BY DEF Elapse
  <1> QED
    BY <1>1, <1>2, <1>3, <1>4, <1>5, <1>6, <1>7, <1>8, <1>10, <1>11, <1>12, <1>13
    DEF TimelineNext, Moments

-----------------------------------------------------------------------------
(* The invariant.                                                          *)

LEMMA StartsInPosition ==
    ASSUME TimelineInit
    PROVE  TimelineInv
  BY TimelineConstants
  DEF TimelineInit, TimelineInv, TransportOK, PlayheadInRange, LiveEdgeFollowed, PlayingSomething,
      WindowsUpToDate, PausedTimeNotPlayed, Moments

LEMMA StaysInPosition ==
    ASSUME TimelineInv, [TimelineNext]_tlVars
    PROVE  TimelineInv'
  <1>1. tlVars' = tlVars => Position'
    BY DEF TimelineInv, Position, TransportOK, PlayheadInRange, LiveEdgeFollowed, PlayingSomething,
           PausedTimeNotPlayed, tlVars
  <1>2. Pause => Position'
    BY <1>1, Paused DEF Pause
  <1>3. GoLive => Position'
    BY <1>1, WentLive DEF GoLive
  <1>4. Play => Position'
    BY <1>1, <1>3, StartedPlaying DEF Play
  <1>5. TogglePlayback => Position'
    BY <1>2, <1>4 DEF TogglePlayback
  <1>6. ASSUME NEW s \in Moments, NEW l \in Moments, UpdateBounds(s, l)
        PROVE  Position'
    BY <1>1, <1>6, BoundsUpdated DEF UpdateBounds
  <1>7. ASSUME NEW t \in Times, Seek(t)
        PROVE  Position'
    BY <1>1, <1>7, Sought DEF Seek
  <1>8. ASSUME NEW v \in Speeds, SetSpeed(v)
        PROVE  Position'
    BY <1>1, <1>8, SpeedSet DEF SetSpeed
  <1>9. Position'
    BY <1>1, <1>2, <1>3, <1>5, <1>6, <1>7, <1>8, DroppedSource, ReplayBegun, Ticked, Elapsed
    DEF TimelineNext, Moments
  <1> QED
    BY <1>9, WindowsTold DEF TimelineInv, Position

THEOREM TransportInvariant == TimelineSpec => []TimelineInv
  <1>1. TimelineInit => TimelineInv
    BY StartsInPosition
  <1>2. TimelineInv /\ [TimelineNext]_tlVars => TimelineInv'
    BY StaysInPosition
  <1> QED
    BY <1>1, <1>2, PTL DEF TimelineSpec

-----------------------------------------------------------------------------
(* What follows for every behaviour.                                       *)

\* The transport's fields keep their types, whatever the order of the calls.
THEOREM TransportTyped == TimelineSpec => []TransportOK
  <1>1. TimelineInv => TransportOK
    BY DEF TimelineInv
  <1> QED  BY <1>1, TransportInvariant, PTL

\* The playhead is between the bounds whenever they are known.
THEOREM PlayheadStaysInRange == TimelineSpec => []PlayheadInRange
  <1>1. TimelineInv => PlayheadInRange
    BY DEF TimelineInv
  <1> QED  BY <1>1, TransportInvariant, PTL

\* A view that follows the live edge is on the newest sample of live data.
THEOREM LiveEdgeIsLive == TimelineSpec => []LiveEdgeFollowed
  <1>1. TimelineInv => LiveEdgeFollowed
    BY DEF TimelineInv
  <1> QED  BY <1>1, TransportInvariant, PTL

\* Every change of the transport is told to the windows.
THEOREM ChangesAreTold == TimelineSpec => []WindowsUpToDate
  <1>1. TimelineInv => WindowsUpToDate
    BY DEF TimelineInv
  <1> QED  BY <1>1, TransportInvariant, PTL

\* Only time since playback was last started is played.
THEOREM PauseIsNotPlayed == TimelineSpec => []PausedTimeNotPlayed
  <1>1. TimelineInv => PausedTimeNotPlayed
    BY DEF TimelineInv
  <1> QED  BY <1>1, TransportInvariant, PTL

-----------------------------------------------------------------------------
(* Playback goes forward.                                                  *)

\* What a step of playback may do to the playhead.
Forward ==
    state = "playing" /\ state' = "playing" /\ playhead' < playhead
        => playhead' = latest'

\* New bounds move a playhead back only to their end.
LEMMA BoundsMoveBackToEnd ==
    ASSUME TimelineInv, NEW s \in Times, NEW l \in Times, UpdateBounds(s, l)
    PROVE  Forward
  <1>1. SUFFICES ASSUME state = "playing", playhead' < playhead
                 PROVE  playhead' = latest'
    BY DEF Forward
  <1>2. s # NoTime /\ l # NoTime
    BY NoTimeIsNoMoment
  <1>3. latest' = Max2(s, l) /\ playhead' = MovedHead(s, Max2(s, l))
    BY <1>2 DEF UpdateBounds
  <1>4. playhead \in Times
    BY <1>1 DEF TimelineInv, PlayingSomething, TransportOK, Moments
  <1>5. playhead' = Clamp(playhead, s, Max2(s, l))
    BY <1>1, <1>3, <1>4, NoTimeIsNoMoment DEF MovedHead
  <1> QED
    BY <1>1, <1>3, <1>4, <1>5 DEF Clamp, Min2, Max2, Times

\* The transport is what the windows rely on, for any length of the data and speeds.
THEOREM TransportIsSound == TimelineSpec => []TransportSound
  BY TransportTyped, PlayheadStaysInRange, LiveEdgeIsLive, ChangesAreTold, PauseIsNotPlayed, PTL
  DEF TransportSound

\* A tick moves the playhead on or to the end.
LEMMA TickMovesOn ==
    ASSUME TimelineInv, TickTimeline
    PROVE  Forward
  <1>1. SUFFICES ASSUME state = "playing", playhead' < playhead
                 PROVE  playhead' = latest'
    BY DEF Forward
  <1>2. playhead \in Times
    BY <1>1 DEF TimelineInv, PlayingSomething, TransportOK, Moments
  <1>3. Ahead \in Nat /\ playhead <= Ahead
    BY <1>2, AheadIsAhead DEF TimelineInv
  <1>4. playhead' \in {playhead, Ahead, latest} /\ latest' = latest
    BY DEF TickTimeline, Advance
  <1> QED  BY <1>1, <1>2, <1>3, <1>4 DEF Times

\* Every other operation stops, was not playing, or leaves the playhead alone.
LEMMA OthersMoveForward ==
    ASSUME TimelineInv, tlVars' = tlVars \/ Reset \/ BeginLive \/ Pause \/ GoLive
                        \/ TogglePlayback \/ Elapse
                        \/ (\E s, l \in Times : BeginReplay(s, l))
                        \/ (\E t \in Times : Seek(t)) \/ (\E v \in Speeds : SetSpeed(v))
    PROVE  Forward
  <1>1. tlVars' = tlVars => playhead' = playhead
    BY DEF tlVars
  <1>2. Elapse \/ (\E v \in Speeds : SetSpeed(v)) => playhead' = playhead
    BY <1>1 DEF Elapse, SetSpeed, transport
  <1>3. Pause => playhead' = playhead
    BY <1>1 DEF Pause
  <1>4. GoLive => playhead' = playhead \/ state' # "playing"
    BY <1>1 DEF GoLive
  <1>5. TogglePlayback => playhead' = playhead \/ state # "playing" \/ state' # "playing"
    BY <1>3 DEF TogglePlayback, IsRunning
  <1>6. (\E t \in Times : Seek(t)) => playhead' = playhead \/ state' # "playing"
    BY <1>1 DEF Seek
  <1>7. Reset \/ BeginLive \/ (\E s, l \in Times : BeginReplay(s, l)) => state' # "playing"
    BY DEF Reset, BeginLive, BeginReplay
  <1>8. state = "playing" => ~(playhead < playhead)
    <2>1. state = "playing" => playhead \in Nat
      BY DEF TimelineInv, PlayingSomething, TransportOK, Moments, Times
    <2> QED  BY <2>1
  <1> QED
    BY <1>1, <1>2, <1>3, <1>4, <1>5, <1>6, <1>7, <1>8 DEF Forward

\* Playback goes forward, or back to an end that has moved back.
THEOREM PlaybackMovesForward == TimelineSpec => PlaybackForward
  <1>1. TimelineInv /\ [TimelineNext]_tlVars => Forward
    <2> SUFFICES ASSUME TimelineInv, [TimelineNext]_tlVars
                 PROVE  Forward
      OBVIOUS
    <2>1. ASSUME NEW s \in Moments, NEW l \in Moments, UpdateBounds(s, l)
          PROVE  Forward
      BY <2>1, BoundsMoveBackToEnd, OthersMoveForward DEF UpdateBounds, Moments
    <2> QED
      BY <2>1, TickMovesOn, OthersMoveForward DEF TimelineNext, Moments
  <1>2. TimelineInv /\ [TimelineNext]_tlVars => [Forward]_tlVars
    BY <1>1
  <1> QED
    BY <1>2, TransportInvariant, PTL DEF TimelineSpec, PlaybackForward, Forward

-----------------------------------------------------------------------------
(* The window.                                                             *)

\* An import withdraws the request for a device that was made before it.
NoStaleRequest == imported => ~requested

SourceInv ==
    /\ ImportKept
    /\ NoStaleRequest
    /\ ReplayIsReplay

-----------------------------------------------------------------------------
(* Refinement.                                                             *)

\* Each handler is one operation of the timeline, or leaves it alone.
LEMMA HandlersUseTimeline ==
    ASSUME [Next]_vars
    PROVE  [TimelineNext]_tlVars
  <1>1. CASE Connect \/ Disconnect \/ Sample \/ UNCHANGED vars
    BY <1>1 DEF Connect, Disconnect, Sample, vars
  <1>2. ASSUME NEW s \in Times, NEW l \in Times, Import(s, l)
        PROVE  TimelineNext
    BY <1>2 DEF Import, TimelineNext
  <1>3. CASE ClearData \/ StartReception
    BY <1>3 DEF ClearData, StartReception, TimelineNext
  <1>4. CASE ToggleReception
    BY <1>4 DEF ToggleReception, Controls, TimelineNext
  <1>5. CASE UsesBar
    BY <1>5 DEF UsesBar, Controls, TimelineNext
  <1>6. ASSUME NEW d \in Devices, SchemaInstalled(d)
        PROVE  [TimelineNext]_tlVars
    BY <1>6 DEF SchemaInstalled, TimelineNext
  <1>7. ASSUME NEW s \in Times, NEW l \in Times, RefreshBounds(s, l) \/ Realigned(s, l)
        PROVE  [TimelineNext]_tlVars
    BY <1>7 DEF RefreshBounds, Realigned, Controls, TimelineNext
  <1>8. CASE AdvanceCursor \/ TimePasses
    BY <1>8 DEF AdvanceCursor, TimePasses, TimelineNext
  <1> QED
    BY <1>1, <1>2, <1>3, <1>4, <1>5, <1>6, <1>7, <1>8 DEF Next

\* The plot window's behaviours are behaviours of the timeline.
THEOREM WindowUsesTimeline == Spec => UsesTimeline
  <1>1. Init => TimelineInit
    BY DEF Init
  <1>2. [Next]_vars => [TimelineNext]_tlVars
    BY HandlersUseTimeline
  <1> QED
    BY <1>1, <1>2, PTL DEF Spec, UsesTimeline, TimelineSpec

\* What is proved of the timeline holds in the window.
THEOREM WindowTransport == Spec => []TimelineInv
  BY WindowUsesTimeline, TransportInvariant, PTL DEF UsesTimeline

-----------------------------------------------------------------------------
(* The button.                                                             *)

\* A handler that tells the button brings it in step.
LEMMA ToldAgrees ==
    ASSUME ButtonAgrees, WindowsUpToDate, WindowsUpToDate', Told
    PROVE  ButtonAgrees'
  BY DEF ButtonAgrees, WindowsUpToDate, Told

LEMMA ButtonStep ==
    ASSUME ButtonAgrees, WindowsUpToDate, WindowsUpToDate', [Next]_vars
    PROVE  ButtonAgrees'
  <1>1. UNCHANGED <<transport, plotState>> => ButtonAgrees'
    BY DEF ButtonAgrees
  <1>2. CASE Connect \/ Disconnect \/ Sample \/ TimePasses \/ UNCHANGED vars
    BY <1>1, <1>2
    DEF Connect, Disconnect, Sample, TimePasses, Elapse, vars, tlVars, transport
  <1>3. CASE ClearData
    BY <1>3 DEF ClearData, Reset, ButtonAgrees, ButtonFor, transport
  <1>4. ASSUME NEW d \in Devices, SchemaInstalled(d)
        PROVE  ButtonAgrees'
    BY <1>1, <1>4, ToldAgrees DEF SchemaInstalled, tlVars, transport
  <1>5. CASE \/ \E s, l \in Times : Import(s, l) \/ RefreshBounds(s, l) \/ Realigned(s, l)
             \/ StartReception \/ ToggleReception \/ UsesBar \/ AdvanceCursor
    <2>1. Told
      BY <1>5 DEF Import, RefreshBounds, Realigned, StartReception, ToggleReception,
                  UsesBar, Controls, AdvanceCursor
    <2> QED  BY <2>1, ToldAgrees
  <1> QED
    BY <1>2, <1>3, <1>4, <1>5 DEF Next

\* The Start/Pause button always shows the transport's state.
THEOREM ButtonShowsTransport == Spec => []ButtonAgrees
  <1>1. Init => ButtonAgrees
    BY DEF Init, TimelineInit, ButtonAgrees, ButtonFor, transport
  <1>2. TimelineInv => WindowsUpToDate
    BY DEF TimelineInv
  <1>3. ButtonAgrees /\ WindowsUpToDate /\ WindowsUpToDate' /\ [Next]_vars => ButtonAgrees'
    BY ButtonStep
  <1> QED
    BY <1>1, <1>2, <1>3, WindowTransport, PTL DEF Spec

-----------------------------------------------------------------------------
(* The source.                                                             *)

LEMMA ReplayIsNotLive == \A d : Live(d) # Replay /\ Live(d)[1] = "live" /\ Replay[1] # "live"
  BY DEF Live, Replay

\* The operations that change neither the source of the transport nor anything
\* else but the transport's position.
LEMMA KindKept ==
    ASSUME \/ Pause \/ GoLive \/ TogglePlayback \/ TickTimeline \/ Elapse
           \/ (\E t \in Times : Seek(t)) \/ (\E v \in Speeds : SetSpeed(v))
           \/ (\E s, l \in Times : UpdateBounds(s, l)) \/ UNCHANGED tlVars
    PROVE  kind' = kind
  <1>1. UNCHANGED tlVars => kind' = kind
    BY DEF tlVars
  <1>2. Pause => kind' = kind
    BY <1>1 DEF Pause
  <1>3. GoLive => kind' = kind
    BY <1>1 DEF GoLive
  <1>4. Play => kind' = kind
    BY <1>1, <1>3 DEF Play, StartPlaying
  <1>5. TickTimeline => kind' = kind
    BY DEF TickTimeline
  <1>6. Elapse => kind' = kind
    BY DEF Elapse, transport
  <1>7. (\E t \in Times : Seek(t)) \/ (\E v \in Speeds : SetSpeed(v)) => kind' = kind
    BY <1>1 DEF Seek, SetSpeed
  <1>8. (\E s, l \in Times : UpdateBounds(s, l)) => kind' = kind
    BY <1>1 DEF UpdateBounds
  <1> QED
    BY <1>1, <1>2, <1>3, <1>4, <1>5, <1>6, <1>7, <1>8 DEF TogglePlayback

LEMMA SourceStep ==
    ASSUME SourceInv, [Next]_vars
    PROVE  SourceInv'
  <1> USE DEF SourceInv, ImportKept, NoStaleRequest, ReplayIsReplay
  <1>1. CASE Connect \/ Disconnect \/ Sample \/ UNCHANGED vars
    BY <1>1, KindKept DEF Connect, Disconnect, Sample, vars
  <1>2. ASSUME NEW s \in Times, NEW l \in Times, Import(s, l)
        PROVE  SourceInv'
    BY <1>2 DEF Import
  <1>3. CASE ClearData
    BY <1>3 DEF ClearData, Reset
  <1>4. CASE StartReception
    BY <1>4 DEF StartReception, BeginLive
  <1>5. ASSUME UNCHANGED winVars, kind' = kind
        PROVE  SourceInv'
    BY <1>5 DEF winVars
  <1>6. CASE \/ ToggleReception \/ UsesBar \/ AdvanceCursor \/ TimePasses
             \/ \E s, l \in Times : RefreshBounds(s, l) \/ Realigned(s, l)
    <2>1. UNCHANGED winVars
      BY <1>6 DEF ToggleReception, UsesBar, AdvanceCursor, TimePasses, RefreshBounds,
                  Realigned, Controls
    <2>2. kind' = kind
      BY <1>6, KindKept DEF ToggleReception, UsesBar, AdvanceCursor, TimePasses,
                            RefreshBounds, Realigned, Controls
    <2> QED  BY <2>1, <2>2, <1>5
  <1>7. ASSUME NEW d \in Devices, SchemaInstalled(d)
        PROVE  SourceInv'
    <2>1. CASE IsLive \/ requested
      <3>1. ~imported /\ imported' = imported
        BY <1>7, <2>1, ReplayIsNotLive DEF SchemaInstalled, IsLive
      <3>2. kind' # "replay"
        <4>1. CASE IsNewSource(d)
          BY <1>7, <2>1, <4>1 DEF SchemaInstalled, BeginLive
        <4>2. CASE ~IsNewSource(d)
          <5>1. kind' = kind
            BY <1>7, <2>1, <4>2, KindKept DEF SchemaInstalled
          <5> QED  BY <4>2, <5>1, ReplayIsNotLive DEF IsNewSource
        <4> QED  BY <4>1, <4>2
      <3> QED  BY <3>1, <3>2
    <2>2. CASE ~IsLive /\ ~requested
      BY <1>7, <2>2, KindKept DEF SchemaInstalled
    <2> QED  BY <2>1, <2>2
  <1> QED
    BY <1>1, <1>2, <1>3, <1>4, <1>6, <1>7 DEF Next

LEMMA SourceInvariant == Spec => []SourceInv
  <1>1. Init => SourceInv
    BY DEF Init, TimelineInit, SourceInv, ImportKept, NoStaleRequest, ReplayIsReplay
  <1>2. SourceInv /\ [Next]_vars => SourceInv'
    BY SourceStep
  <1> QED
    BY <1>1, <1>2, PTL DEF Spec

\* An imported capture stays, unmixed, until a device is asked for again.
THEOREM ImportStays == Spec => []ImportKept
  <1>1. SourceInv => ImportKept
    BY DEF SourceInv
  <1> QED  BY <1>1, SourceInvariant, PTL

\* The transport replays only what the window calls a replay.
THEOREM OnlyReplaysAreReplayed == Spec => []ReplayIsReplay
  <1>1. SourceInv => ReplayIsReplay
    BY DEF SourceInv
  <1> QED  BY <1>1, SourceInvariant, PTL

\* The transport of the window is sound because the window uses the timeline.
THEOREM WindowTransportSound == Spec => []TransportSound
  BY WindowUsesTimeline, TransportIsSound, PTL DEF UsesTimeline

\* The window plays what it says it shows, and its button agrees.
THEOREM SourceIsSound == Spec => []SourceSound
  BY ButtonShowsTransport, ImportStays, OnlyReplaysAreReplayed, PTL DEF SourceSound

\* Reconnecting to the same device keeps the recorded history.
THEOREM ReconnectKeepsHistory == Spec => HistoryKept
  <1> DEFINE Kept == hasData /\ ~hasData' /\ source' = source
                         => plotState = "idle" \/ plotState' = "idle"
  <1>1. [Next]_vars => [Kept]_vars
    <2> SUFFICES ASSUME Next, hasData, ~hasData', source' = source
                 PROVE  plotState = "idle" \/ plotState' = "idle"
      OBVIOUS
    <2>1. hasData' = hasData \/ ClearData \/ StartReception
          \/ (\E s, l \in Times : Import(s, l)) \/ (\E d \in Devices : SchemaInstalled(d))
      BY DEF Next, Connect, Disconnect, ToggleReception, UsesBar, Controls, Sample,
             RefreshBounds, Realigned, AdvanceCursor, TimePasses, winVars
    <2>2. ASSUME NEW d \in Devices, SchemaInstalled(d)
          PROVE  FALSE
      BY <2>2 DEF SchemaInstalled, IsNewSource
    <2> QED
      BY <2>1, <2>2 DEF ClearData, StartReception, Import
  <1> QED
    BY <1>1, PTL DEF Spec, HistoryKept
=============================================================================
