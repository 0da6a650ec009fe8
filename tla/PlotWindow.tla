------------------------------- MODULE PlotWindow -------------------------------
(***************************************************************************)
(* The plot window of ui/main_window.py around the timeline: which source  *)
(* it shows (nothing, a live device, an imported capture), whether samples *)
(* are taken in, and the state of its Start/Pause button.  Three parties   *)
(* act on the GUI thread: the user, the answers of a device the user       *)
(* connected to (however late), and the axis timer.                        *)
(*                                                                         *)
(* Each handler calls operations of the Timeline; the timer's calls two,   *)
(* one after the other, and "cursor" keeps every other handler out between *)
(* them.                                                                   *)
(***************************************************************************)
EXTENDS Timeline

CONSTANTS
    Devices     \* endpoints a live source can have

VARIABLES
    source,     \* active_data_source: <<"none">>, <<"replay">> or <<"live", device>>
    requested,  \* _live_activation_requested
    wanted,     \* the link is wanted: a device may answer
    ingesting,  \* data_ingestion_enabled
    hasData,    \* the data model has samples
    plotState,  \* plot_state
    cursor,     \* the axis timer's handler has refreshed the bounds
    imported    \* the user's last choice of a source was an import

NoSource   == <<"none">>
Replay     == <<"replay">>
Live(d)    == <<"live", d>>
IsLive     == source[1] = "live"

winVars == <<source, requested, wanted, ingesting, hasData, imported>>
vars    == <<tlVars, source, requested, wanted, ingesting, hasData, plotState, cursor, imported>>

Init ==
    /\ TimelineInit
    /\ source = NoSource /\ requested = FALSE /\ wanted = FALSE
    /\ ingesting = TRUE /\ hasData = FALSE
    /\ plotState = "idle" /\ cursor = FALSE /\ imported = FALSE

-----------------------------------------------------------------------------
\* _timeline_changed: the button follows the transport it is told of.
ButtonFor(told) ==
    CASE told[1] = "empty" -> "idle"
      [] told[1] \in {"follow_live", "playing"} -> "running"
      [] told[1] = "paused" -> "stopped"

Told == plotState' = IF shown' = shown THEN plotState ELSE ButtonFor(shown')

\* What a handler does that only calls the timeline.
Controls(op) ==
    /\ ~cursor
    /\ op
    /\ Told
    /\ UNCHANGED <<winVars, cursor>>

-----------------------------------------------------------------------------
(* The user.                                                               *)

Connect ==
    /\ ~cursor
    /\ requested' = TRUE /\ wanted' = TRUE /\ imported' = FALSE
    /\ UNCHANGED <<tlVars, source, ingesting, hasData, plotState, cursor>>

Disconnect ==
    /\ ~cursor
    /\ requested' = FALSE /\ wanted' = FALSE
    /\ UNCHANGED <<tlVars, source, ingesting, hasData, plotState, cursor, imported>>

\* Mutant: an import leaves a requested activation standing.
ImportKeepsRequest(s, l) ==
    /\ ~cursor
    /\ source' = Replay
    /\ ingesting' = FALSE /\ hasData' = TRUE /\ imported' = TRUE
    /\ BeginReplay(s, l)
    /\ Told
    /\ UNCHANGED <<requested, wanted, cursor>>

\* Everything of the previous source is dropped, then the capture's series
\* become the data and the replay starts at its first sample.
Import(s, l) ==
    /\ ~cursor
    /\ source' = Replay
    /\ requested' = FALSE /\ ingesting' = FALSE
    /\ hasData' = TRUE /\ imported' = TRUE
    /\ BeginReplay(s, l)
    /\ Told
    /\ UNCHANGED <<wanted, cursor>>

\* The reset finds the state "clearing", which ends "idle" in any case.
ClearData ==
    /\ ~cursor
    /\ hasData' = FALSE
    /\ Reset
    /\ plotState' = "idle"
    /\ UNCHANGED <<source, requested, wanted, ingesting, cursor, imported>>

\* Start, when there is nothing to show yet.
StartReception ==
    /\ ~cursor /\ plotState = "idle"
    /\ hasData' = FALSE
    /\ BeginLive
    /\ Told
    /\ UNCHANGED <<source, requested, wanted, ingesting, cursor, imported>>

\* The Start/Pause button otherwise.
ToggleReception ==
    /\ plotState # "idle"
    /\ Controls(IF kind = "live" /\ state = "paused" THEN GoLive ELSE TogglePlayback)

\* The bar, the slider and the playhead line.
UsesBar ==
    \/ Controls(TogglePlayback)
    \/ Controls(Pause)
    \/ Controls(GoLive)
    \/ \E t \in Times : Controls(Seek(t))
    \/ \E v \in Speeds : Controls(SetSpeed(v))

-----------------------------------------------------------------------------
(* The device and the timer.                                               *)

\* Mutant: every schema starts the live view afresh.
FreshSource(d) == TRUE

IsNewSource(d) == source # Live(d)

\* activate_live_dataflow_export_descriptors, when a schema was installed.
SchemaInstalled(d) ==
    /\ ~cursor /\ wanted
    /\ \/ /\ IsLive \/ requested
          /\ source' = Live(d)
          /\ requested' = FALSE /\ ingesting' = TRUE
          /\ \/ /\ IsNewSource(d)
                /\ hasData' = FALSE /\ BeginLive /\ Told
             \/ /\ ~IsNewSource(d)
                /\ UNCHANGED <<tlVars, plotState, hasData>>
       \/ /\ ~IsLive /\ ~requested
          /\ UNCHANGED <<tlVars, source, requested, ingesting, hasData, plotState>>
    /\ UNCHANGED <<wanted, cursor, imported>>

Sample ==
    /\ ~cursor /\ ingesting
    /\ hasData' = TRUE
    /\ UNCHANGED <<tlVars, source, requested, wanted, ingesting, plotState, cursor, imported>>

\* update_cursor: the bounds of the data, aligned as they now are, unless the
\* data is as it was or has no samples of the available variables; then a tick.
RefreshBounds(s, l) ==
    /\ ~cursor
    /\ \/ hasData /\ s <= l /\ UpdateBounds(s, l)
       \/ UNCHANGED tlVars
    /\ Told
    /\ cursor' = TRUE
    /\ UNCHANGED winVars

AdvanceCursor ==
    /\ cursor
    /\ TickTimeline
    /\ Told
    /\ cursor' = FALSE
    /\ UNCHANGED winVars

\* set_alignment_mode and a finished calibration refresh the bounds at once.
Realigned(s, l) == hasData /\ s <= l /\ Controls(UpdateBounds(s, l))

TimePasses ==
    /\ Elapse
    /\ UNCHANGED <<winVars, plotState, cursor>>

Next ==
    \/ Connect
    \/ Disconnect
    \/ \E s, l \in Times : s <= l /\ Import(s, l)
    \/ ClearData
    \/ StartReception
    \/ ToggleReception
    \/ UsesBar
    \/ \E d \in Devices : SchemaInstalled(d)
    \/ Sample
    \/ \E s, l \in Times : RefreshBounds(s, l) \/ Realigned(s, l)
    \/ AdvanceCursor
    \/ TimePasses

Spec == Init /\ [][Next]_vars

\* The axis timer keeps firing and the clock advances.
LiveSpec ==
    /\ Spec
    /\ WF_vars(\E s, l \in Times : RefreshBounds(s, l))
    /\ WF_vars(AdvanceCursor)
    /\ WF_vars(TimePasses)

-----------------------------------------------------------------------------
(* Properties.                                                             *)

\* The window uses the timeline only through its operations.
UsesTimeline == TimelineSpec

\* The Start/Pause button shows the transport's state, although it learns of
\* it from the "changed" signal alone.
ButtonAgrees == plotState = ButtonFor(transport)

\* A capture the user imported stays on screen, and no live sample mixes with
\* it, until the user asks for a device again: not a late schema, a reconnect
\* of the link or an activation asked for before the import takes it away.
ImportKept == imported => source = Replay /\ ~ingesting

\* The transport replays only what the window calls a replay.
ReplayIsReplay == kind = "replay" => source = Replay

\* What the window shows as its source is what it plays, and the button agrees.
SourceSound == ButtonAgrees /\ ImportKept /\ ReplayIsReplay

\* While a source stays, its recorded samples are dropped by the user's Clear
\* and Start only: reconnecting to the same device keeps the history.
HistoryKept ==
    [][hasData /\ ~hasData' /\ source' = source
         => plotState = "idle" \/ plotState' = "idle"]_vars

\* A replay left alone reaches its end.
ReplayEnds ==
    \A s, l \in Times : \A v \in Speeds :
        <>[](kind = "replay" /\ start = s /\ latest = l /\ speed = v)
            => []<>(state # "playing")
=============================================================================
