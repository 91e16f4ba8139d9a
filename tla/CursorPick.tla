----------------------------- MODULE CursorPick -----------------------------
(***************************************************************************)
(* From the hand to a picked object: the tracker thread                    *)
(* (client/cursor/webcam_tracker.py) leaves its latest sample for the      *)
(* others, the main thread anchors the Blender viewport when the user asks *)
(* for it (calibrate_viewport_anchors of client/cursor/provider.py, called *)
(* by recalibrate of client/companion_app.py), and the event-loop thread   *)
(* fills the coordinates of pick_object_at from both                       *)
(* (client/local_executor.py, region_point).                               *)
(*                                                                         *)
(* Anchoring blocks the main thread in a loop that lets the window have its*)
(* events (pump of client/cursor/ui_overlay.py), so Recalibrate can be     *)
(* pressed again inside it: anchorings nest, and only the innermost runs.  *)
(* Each has spots drawn in Blender's viewport (addon/forge_addon.py), which*)
(* a timer there repaints until their time is up.                          *)
(*                                                                         *)
(* The screen has one dimension here, and the smoothing is left out: a     *)
(* cursor is where its sample was.                                         *)
(***************************************************************************)
EXTENDS Integers, SequencesExt

CONSTANTS
  MaxX,     \* the last position of the screen
  Region,   \* the width of the viewport region
  Rearm,    \* how far the dot must go before the second corner (120 px)
  Spread,   \* how far apart the corners must be (500 px by 300 px)
  Stale,    \* the age from which a sample is not recent
  MaxNest,  \* bound on the anchorings inside one another
  None

Screen == 0 .. MaxX
Ages == 0 .. Stale
Samples == [x : Screen, age : Ages]
Corners == [a : Screen, b : Screen]

ASSUME CursorAssumption ==
  /\ {MaxX, Region, Rearm, Spread, Stale, MaxNest} \subseteq Nat \ {0}
  /\ None \notin Int \cup Samples \cup Corners

VARIABLES
  camera,  \* the tracker thread runs
  hand,    \* the user's hand is in the picture
  latest,  \* _latest: where the hand was seen and how long ago, or None
  frames,  \* the anchorings on the main thread's stack, innermost last: what
           \* each waits for, and its first corner or None
  anchors, \* screen_to_region: the two corners, or None
  shown,   \* the calibration state the window shows
  pick,    \* the latest pick: what it was filled from, or None
  spots,   \* in Blender: the mode of the calibration markers
  due,     \* their time is not up yet
  redraw,  \* _CALIBRATION_REDRAW_TIMER_RUNNING
  timer,   \* the redraw function is registered with bpy.app.timers
  painted  \* the spots the viewport shows

vars == <<camera, hand, latest, frames, anchors, shown, pick,
          spots, due, redraw, timer, painted>>
trackerVars == <<camera, hand, latest>>
anchorVars == <<frames, anchors, shown>>
markerVars == <<spots, due, redraw, timer, painted>>

Frames == [stage : {"top_left", "rearm", "bottom_right"}, first : Screen \cup {None}]
Modes  == {"hidden", "targets", "complete"}

TypeOK ==
  /\ camera \in {"off", "on", "dead"}
  /\ hand \in BOOLEAN
  /\ latest \in Samples \cup {None}
  /\ frames \in Seq(Frames) /\ Len(frames) <= MaxNest
  /\ \A i \in DOMAIN frames : frames[i].stage # "top_left" => latest # None /\ frames[i].first # None
  /\ anchors \in Corners \cup {None}
  /\ shown \in {"calibrated", "uncalibrated"}
  /\ pick \in [region : 0 .. Region - 1, age : Ages] \cup {None}
  /\ spots \in Modes /\ painted \in Modes
  /\ {due, redraw, timer} \subseteq BOOLEAN

Init ==
  /\ camera = "off" /\ hand = FALSE /\ latest = None
  /\ frames = <<>> /\ anchors = None
  /\ shown = "uncalibrated"
  /\ pick = None
  /\ spots = "hidden" /\ painted = "hidden"
  /\ due = FALSE /\ redraw = FALSE /\ timer = FALSE

Clamp(x, last) == IF x < 0 THEN 0 ELSE IF x > last THEN last ELSE x
Distance(x, y) == IF x < y THEN y - x ELSE x - y

-----------------------------------------------------------------------------
(* The tracker *)

CameraStarts ==
  /\ camera = "off"
  /\ camera' = "on"
  /\ UNCHANGED <<hand, latest, anchorVars, pick, markerVars>>

(* The camera is stopped or its thread fails: the sample stays.            *)
CameraEnds ==
  /\ camera = "on"
  /\ camera' = "dead"
  /\ UNCHANGED <<hand, latest, anchorVars, pick, markerVars>>

HandMoves ==
  /\ hand' = ~hand
  /\ UNCHANGED <<camera, latest, anchorVars, pick, markerVars>>

(* update_from_normalized keeps the cursor on the screen.                  *)
Placed(x) == Clamp(x, MaxX)

(* A frame with a hand in it leaves a sample; one without changes nothing. *)
(* The hand moves beyond the inner area that maps to the screen.           *)
FrameArrives ==
  /\ camera = "on"
  /\ hand
  /\ \E x \in -1 .. MaxX + 1 : latest' = [x |-> Placed(x), age |-> 0]
  /\ UNCHANGED <<camera, hand, anchorVars, pick, markerVars>>

TimePasses ==
  /\ latest # None
  /\ latest.age < Stale
  /\ latest' = [latest EXCEPT !.age = @ + 1]
  /\ UNCHANGED <<camera, hand, anchorVars, pick, markerVars>>

(* get_cursor: the fallback with its age limit is for the case without a   *)
(* sample, and there has been no cursor then.                              *)
Cursor == latest

-----------------------------------------------------------------------------
(* The markers, on Blender's main thread *)

Active == due /\ spots # "hidden"

(* What a repaint draws now.                                               *)
Visible == IF Active THEN spots ELSE "hidden"

(* show_calibration_guides and show_calibration_complete: one timer is     *)
(* enough for all of them.                                                 *)
Show(mode) ==
  /\ spots' = mode
  /\ due' = TRUE
  /\ redraw' = TRUE
  /\ timer' = (timer \/ ~redraw)
  /\ painted' = mode

(* clear_calibration_guides: the timer is left to find out.                *)
Clear ==
  /\ spots' = "hidden"
  /\ due' = FALSE
  /\ painted' = "hidden"
  /\ UNCHANGED <<redraw, timer>>

(* _send_calibration_overlay: a command that fails is only reported.       *)
Overlay(command) == command \/ UNCHANGED markerVars

(* 45 s for the targets, 1.6 s for the confirmation.                       *)
MarkersExpire ==
  /\ due
  /\ due' = FALSE
  /\ UNCHANGED <<trackerVars, anchorVars, pick, spots, redraw, timer, painted>>

(* Fault: the timer ends without a word.                                   *)
TimerEnds_Flagged == redraw

(* The flag goes with the timer.                                           *)
TimerEnds == FALSE

(* _calibration_redraw_timer: repaint, and go on while there is something  *)
(* to animate.                                                             *)
Redraw ==
  /\ timer
  /\ painted' = Visible
  /\ IF Active
       THEN UNCHANGED <<spots, redraw, timer>>
       ELSE spots' = "hidden" /\ timer' = FALSE /\ redraw' = TimerEnds
  /\ UNCHANGED <<trackerVars, anchorVars, pick, due>>

-----------------------------------------------------------------------------
(* Anchoring, on the main thread *)

(* The anchoring that runs; those outside it wait for it to return.        *)
Inner == Last(frames)
Anchoring(stage) == frames # <<>> /\ Inner.stage = stage
Continue(frame) == frames' = [frames EXCEPT ![Len(frames)] = frame]

(* Where the main thread takes a click: while it waits for events, and in  *)
(* the loop of an anchoring, which pumps them.                             *)
TakesClicks == Len(frames) < MaxNest

(* recalibrate: get_view_geometry tells the size of the region, or fails.  *)
RecalibrateBegins ==
  /\ TakesClicks
  /\ shown' = "uncalibrated"
  /\ \/ UNCHANGED <<frames, markerVars>>
     \/ /\ frames' = Append(frames, [stage |-> "top_left", first |-> None])
        /\ Overlay(Show("targets"))
  /\ UNCHANGED <<trackerVars, anchors, pick>>

(* Fault: a corner is used as soon as it is captured.                      *)
AnchorsAtFirst_Used(x) == IF anchors = None THEN None ELSE [anchors EXCEPT !.a = x]

(* The corner waits in a local variable for the other.                     *)
AnchorsAtFirst(x) == anchors

(* _calibration_announce: whatever the loop says, the window shows it as    *)
(* not calibrated.                                                         *)
Announce == shown' = "uncalibrated"

(* The loop sees no hand, or a dot that has not moved away yet, and says so.*)
Notices ==
  /\ frames # <<>>
  /\ Cursor = None \/ Inner.stage = "rearm"
  /\ Announce
  /\ UNCHANGED <<trackerVars, frames, anchors, pick, markerVars>>

CaptureFirst ==
  /\ Anchoring("top_left")
  /\ Cursor # None
  /\ Continue([stage |-> "rearm", first |-> Cursor.x])
  /\ anchors' = AnchorsAtFirst(Cursor.x)
  /\ Announce
  /\ UNCHANGED <<trackerVars, pick, markerVars>>

(* Once the dot has been far enough away it may come back.                 *)
Rearms ==
  /\ Anchoring("rearm")
  /\ Distance(Cursor.x, Inner.first) >= Rearm
  /\ Continue([Inner EXCEPT !.stage = "bottom_right"])
  /\ UNCHANGED <<trackerVars, anchors, shown, pick, markerVars>>

(* The anchoring returns to recalibrate, and that to the loop around it.   *)
Returns(ok) ==
  /\ frames' = Front(frames)
  /\ shown' = IF ok THEN "calibrated" ELSE "uncalibrated"
  /\ Overlay(IF ok THEN Show("complete") ELSE Clear)

(* The corners must be apart, whichever of them is on the left.            *)
Accepts(a, b) == a # b /\ Distance(a, b) >= Spread

CaptureSecond ==
  /\ Anchoring("bottom_right")
  /\ LET ok == Accepts(Inner.first, Cursor.x) IN
       /\ anchors' = IF ok THEN [a |-> Inner.first, b |-> Cursor.x] ELSE anchors
       /\ Returns(ok)
  /\ UNCHANGED <<trackerVars, pick>>

(* target_timeout_s, of each corner.                                       *)
AnchoringFails ==
  /\ frames # <<>>
  /\ Returns(FALSE)
  /\ UNCHANGED <<trackerVars, anchors, pick>>

-----------------------------------------------------------------------------
(* A pick, on the event-loop thread *)

(* Fault: the point is not kept inside the region.                         *)
InRegion_Not(r) == r

InRegion(r) == Clamp(r, Region - 1)

(* ScreenToRegionAffine.map, in whole pixels.                              *)
RegionPoint(x) ==
  LET a == anchors.a  b == anchors.b
  IN  InRegion(IF a < b THEN ((x - a) * Region) \div (b - a)
                        ELSE ((a - x) * Region) \div (a - b))

(* _prepare_blender_command, for pick_object_at.                           *)
Pick ==
  /\ anchors # None
  /\ Cursor # None
  /\ pick' = [region |-> RegionPoint(Cursor.x), age |-> Cursor.age]
  /\ UNCHANGED <<trackerVars, anchorVars, markerVars>>

(* "no calibrated cursor".                                                 *)
PickRefused ==
  /\ anchors = None \/ Cursor = None
  /\ pick' = None
  /\ UNCHANGED <<trackerVars, anchorVars, markerVars>>

-----------------------------------------------------------------------------
Next ==
  \/ CameraStarts \/ CameraEnds \/ HandMoves \/ FrameArrives \/ TimePasses
  \/ RecalibrateBegins \/ Notices \/ CaptureFirst \/ Rearms \/ CaptureSecond
  \/ AnchoringFails \/ MarkersExpire \/ Redraw
  \/ Pick \/ PickRefused

Spec == Init /\ [][Next]_vars

(* Blender runs its timers and the markers' time passes; an anchoring has  *)
(* its deadline, camera and hand owe nothing.                              *)
FairSpec ==
  Spec /\ WF_vars(MarkersExpire) /\ WF_vars(Redraw) /\ WF_vars(AnchoringFails)

-----------------------------------------------------------------------------
(* Properties *)

(* Picks never see corners too close to tell apart, or half of a new pair, *)
(* and are not refused while the window says calibrated: what              *)
(* screen_to_region holds was accepted whole and was not lost to a later   *)
(* anchoring that failed, however the two threads interleave.              *)
AnchorsAcceptedWhole ==
  /\ anchors # None => Distance(anchors.a, anchors.b) >= Spread
  /\ shown = "calibrated" => anchors # None

(* The spots do not stay in the viewport: once the user has pressed        *)
(* Recalibrate for the last time they go, whether the anchorings succeed,  *)
(* time out inside one another or lose the command that should hide them.  *)
SpotsGo == <>[][~RecalibrateBegins]_vars => <>[](painted = "hidden")

(* CONTRACTS.md:159: "If no calibration or no recent cursor: return        *)
(* tool_result {ok:false}": a pick is filled from a recent sample.         *)
RecentCursorOnly == pick # None => pick.age < Stale
=============================================================================
