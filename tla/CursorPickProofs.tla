------------------------- MODULE CursorPickProofs -------------------------
(***************************************************************************)
(* Proofs about CursorPick, for any screen, region and depth of anchorings *)
(* inside one another: a pick is made in the region, from corners that were*)
(* accepted together, and the spots in Blender's viewport never stand      *)
(* without the timer that takes them away.                                 *)
(***************************************************************************)
EXTENDS CursorPick, TLAPS

CursorInv == TypeOK /\ AnchorsAcceptedWhole

LEMMA Numbers ==
  /\ {MaxX, Region, Rearm, Spread, Stale, MaxNest} \subseteq Nat
  /\ Region > 0 /\ Spread > 0 /\ Stale > 0 /\ MaxNest > 0
BY CursorAssumption

LEMMA InitCursorInv == Init => CursorInv
<1> SUFFICES ASSUME Init PROVE CursorInv
  OBVIOUS
<1>1. frames \in Seq(Frames) /\ Len(frames) <= MaxNest /\ DOMAIN frames = {}
  BY Numbers DEF Init
<1>2. TypeOK
  BY <1>1 DEF Init, TypeOK, Modes
<1> QED BY <1>2 DEF Init, CursorInv, AnchorsAcceptedWhole

(* The stack of anchorings: the innermost, and what is left without it.    *)
LEMMA StackTop ==
  ASSUME NEW s \in Seq(Frames), s # <<>>
  PROVE  /\ Len(s) \in Nat /\ Len(s) > 0
         /\ Last(s) = s[Len(s)] /\ Last(s) \in Frames
         /\ Front(s) \in Seq(Frames) /\ Len(Front(s)) = Len(s) - 1
         /\ \A i \in DOMAIN Front(s) : i \in DOMAIN s /\ Front(s)[i] = s[i]
<1>1. Len(s) \in Nat /\ Len(s) > 0 /\ DOMAIN s = 1 .. Len(s)
  OBVIOUS
<1>2. Last(s) = s[Len(s)] /\ Last(s) \in Frames
  BY <1>1 DEF Last
<1>3. Front(s) \in Seq(Frames) /\ Len(Front(s)) = Len(s) - 1
  BY <1>1 DEF Front
<1>4. \A i \in 1 .. Len(s) - 1 : Front(s)[i] = s[i]
  BY <1>1 DEF Front
<1>5. DOMAIN Front(s) = 1 .. Len(s) - 1
  BY <1>3
<1> QED BY <1>1, <1>2, <1>3, <1>4, <1>5

(* The markers stay of their types, whatever the overlay command does.     *)
LEMMA MarkersTyped ==
  ASSUME TypeOK, NEW mode \in Modes,
         Overlay(Show(mode)) \/ Overlay(Clear) \/ UNCHANGED markerVars
  PROVE  spots' \in Modes /\ painted' \in Modes /\ {due', redraw', timer'} \subseteq BOOLEAN
BY DEF TypeOK, Overlay, Show, Clear, markerVars, Modes

(* A stack of anchorings each of which has what it waits with.             *)
Stacked(s) ==
  /\ s \in Seq(Frames) /\ Len(s) <= MaxNest
  /\ \A i \in DOMAIN s : s[i].stage # "top_left" => latest # None /\ s[i].first # None

LEMMA StackPush ==
  ASSUME Stacked(frames), Len(frames) < MaxNest, NEW frame \in Frames, frame.stage = "top_left"
  PROVE  Stacked(Append(frames, frame))
<1> DEFINE s == Append(frames, frame)
<1>1. frames \in Seq(Frames) /\ Len(frames) \in Nat
  BY DEF Stacked
<1>2. s \in Seq(Frames) /\ Len(s) = Len(frames) + 1
  BY <1>1
<1>3. Len(s) <= MaxNest
  BY <1>1, <1>2, Numbers
<1>4. ASSUME NEW i \in DOMAIN s, s[i].stage # "top_left"
      PROVE  latest # None /\ s[i].first # None
  <2>1. i \in DOMAIN frames /\ s[i] = frames[i]
    BY <1>1, <1>4
  <2> QED BY <1>4, <2>1 DEF Stacked
<1> QED BY <1>2, <1>3, <1>4 DEF Stacked

LEMMA StackTopReplaced ==
  ASSUME Stacked(frames), frames # <<>>, NEW frame \in Frames,
         latest # None, frame.first # None, Continue(frame)
  PROVE  Stacked(frames')
<1>1. /\ frames \in Seq(Frames) /\ Len(frames) \in DOMAIN frames
      /\ frames' = [frames EXCEPT ![Len(frames)] = frame]
  BY StackTop DEF Stacked, Continue
<1>2. frames' \in Seq(Frames) /\ Len(frames') = Len(frames) /\ DOMAIN frames' = DOMAIN frames
  BY <1>1
<1>3. \A i \in DOMAIN frames' : frames'[i] = frames[i] \/ frames'[i] = frame
  BY <1>1, <1>2
<1> QED BY <1>2, <1>3 DEF Stacked

LEMMA StackPopped ==
  ASSUME Stacked(frames), frames # <<>>
  PROVE  Stacked(Front(frames))
<1>1. frames \in Seq(Frames) /\ Len(frames) <= MaxNest
  BY DEF Stacked
<1>2. /\ Front(frames) \in Seq(Frames) /\ Len(Front(frames)) = Len(frames) - 1
      /\ \A i \in DOMAIN Front(frames) : i \in DOMAIN frames /\ Front(frames)[i] = frames[i]
      /\ Len(frames) \in Nat
  BY <1>1, StackTop
<1>3. Len(Front(frames)) <= MaxNest
  BY <1>1, <1>2, Numbers
<1> QED BY <1>2, <1>3 DEF Stacked

LEMMA Unmarked ==
  ASSUME TypeOK, UNCHANGED markerVars
  PROVE  spots' \in Modes /\ painted' \in Modes /\ {due', redraw', timer'} \subseteq BOOLEAN
BY DEF TypeOK, markerVars

LEMMA ClampIn == \A x \in Int, last \in Nat : Clamp(x, last) \in 0 .. last
BY DEF Clamp

LEMMA DistanceIn == \A x \in Int, y \in Int : Distance(x, y) \in Nat
BY DEF Distance

(* A pick falls inside the region.                                         *)
LEMMA PointInRegion ==
  ASSUME CursorInv, anchors # None, NEW x \in Screen
  PROVE  RegionPoint(x) \in 0 .. Region - 1
<1>1. anchors.a \in Int /\ anchors.b \in Int /\ x \in Int
  BY Numbers DEF CursorInv, TypeOK, Corners, Screen
<1>2. anchors.a # anchors.b
  BY <1>1, Numbers DEF CursorInv, AnchorsAcceptedWhole, Distance
<1>3. Region \in Nat /\ Region - 1 \in Nat
  BY Numbers
<1> DEFINE a == anchors.a
           b == anchors.b
<1>4. CASE a < b
  <2>1. ((x - a) * Region) \div (b - a) \in Int
    <3>1. (x - a) * Region \in Int
      BY <1>1, <1>3
    <3>2. b - a \in Nat \ {0}
      BY <1>1, <1>4
    <3> QED BY <3>1, <3>2
  <2> QED BY <1>3, <1>4, <2>1, ClampIn DEF RegionPoint, InRegion
<1>5. CASE ~(a < b)
  <2>1. ((a - x) * Region) \div (a - b) \in Int
    <3>1. (a - x) * Region \in Int
      BY <1>1, <1>3
    <3>2. a - b \in Nat \ {0}
      BY <1>1, <1>2, <1>5
    <3> QED BY <3>1, <3>2
  <2> QED BY <1>3, <1>5, <2>1, ClampIn DEF RegionPoint, InRegion
<1> QED BY <1>4, <1>5

LEMMA NextCursorInv == CursorInv /\ [Next]_vars => CursorInv'
<1> SUFFICES ASSUME CursorInv, [Next]_vars PROVE CursorInv'
  OBVIOUS
<1> USE DEF CursorInv
<1>0. /\ anchors \in Corners \cup {None} /\ (anchors # None => anchors \in Corners)
      /\ (latest # None => latest \in Samples)
      /\ \A t \in Samples \cup Corners : t # None
  BY CursorAssumption DEF TypeOK
<1>1. CASE CameraStarts \/ CameraEnds \/ HandMoves
  BY <1>1 DEF CameraStarts, CameraEnds, HandMoves, anchorVars, markerVars, TypeOK,
              AnchorsAcceptedWhole
<1>2. CASE FrameArrives
  <2>1. latest' \in Samples
    <3>1. PICK x \in -1 .. MaxX + 1 : latest' = [x |-> Placed(x), age |-> 0]
      BY <1>2 DEF FrameArrives
    <3>2. Placed(x) \in Screen
      BY Numbers, ClampIn DEF Placed, Screen
    <3>3. 0 \in Ages
      BY Numbers DEF Ages
    <3> QED BY <3>1, <3>2, <3>3 DEF Samples
  <2>2. latest' # None
    BY <2>1, <1>0
  <2> QED BY <1>2, <2>1, <2>2 DEF FrameArrives, anchorVars, markerVars, TypeOK,
                                  AnchorsAcceptedWhole
<1>3. CASE TimePasses
  <2>1. latest' \in Samples
    <3>1. latest \in Samples /\ latest.age < Stale /\ latest' = [latest EXCEPT !.age = @ + 1]
      BY <1>3, <1>0 DEF TimePasses
    <3>2. latest.age + 1 \in Ages
      BY <3>1, Numbers DEF Samples, Ages
    <3> QED BY <3>1, <3>2 DEF Samples
  <2>2. latest' # None
    BY <2>1, <1>0
  <2> QED BY <1>3, <2>1, <2>2 DEF TimePasses, anchorVars, markerVars, TypeOK,
                                  AnchorsAcceptedWhole
<1>4. ASSUME UNCHANGED <<trackerVars, pick>>, Stacked(frames'),
             anchors' = anchors \/ (anchors' \in Corners /\ Distance(anchors'.a, anchors'.b) >= Spread),
             shown' \in {"calibrated", "uncalibrated"},
             shown' = "calibrated" => shown = "calibrated" \/ anchors' \in Corners,
             spots' \in Modes, painted' \in Modes, {due', redraw', timer'} \subseteq BOOLEAN
      PROVE  CursorInv'
  <2>1. anchors' # anchors => anchors' # None
    BY <1>0, <1>4
  <2>2. TypeOK'
    BY <1>4 DEF TypeOK, Stacked, trackerVars
  <2>3. AnchorsAcceptedWhole'
    BY <1>0, <1>4, <2>1 DEF AnchorsAcceptedWhole
  <2> QED BY <2>2, <2>3
<1>5. Stacked(frames)
  BY DEF TypeOK, Stacked
<1>6. "targets" \in Modes /\ "complete" \in Modes
  BY DEF Modes
<1>7. shown \in {"calibrated", "uncalibrated"}
  BY DEF TypeOK
<1>8. CASE RecalibrateBegins
  <2>1. /\ UNCHANGED <<trackerVars, anchors, pick>> /\ shown' = "uncalibrated"
        /\ \/ UNCHANGED <<frames, markerVars>>
           \/ /\ frames' = Append(frames, [stage |-> "top_left", first |-> None])
              /\ Overlay(Show("targets"))
    BY <1>8 DEF RecalibrateBegins
  <2>2. spots' \in Modes /\ painted' \in Modes /\ {due', redraw', timer'} \subseteq BOOLEAN
    BY <2>1, <1>6, MarkersTyped
  <2>3. Stacked(frames')
    <3>1. [stage |-> "top_left", first |-> None] \in Frames
      BY DEF Frames
    <3>2. Len(frames) < MaxNest
      BY <1>8 DEF RecalibrateBegins, TakesClicks
    <3>3. CASE frames' = Append(frames, [stage |-> "top_left", first |-> None])
      BY <3>1, <3>2, <3>3, <1>5, StackPush
    <3>4. CASE frames' = frames
      BY <3>4, <1>5
    <3> QED BY <2>1, <3>3, <3>4
  <2> QED BY <2>1, <2>2, <2>3, <1>4
<1>9. CASE CaptureFirst
  <2>1. /\ UNCHANGED <<trackerVars, anchors, pick, markerVars>> /\ shown' = "uncalibrated"
        /\ frames # <<>> /\ latest # None
        /\ Continue([stage |-> "rearm", first |-> latest.x])
    BY <1>9 DEF CaptureFirst, Cursor, Anchoring, AnchorsAtFirst, Announce
  <2>2. latest.x \in Screen /\ latest.x # None
    BY <2>1, <1>0, CursorAssumption DEF Samples, Screen
  <2>3. Stacked(frames')
    <3>1. [stage |-> "rearm", first |-> latest.x] \in Frames
      BY <2>2 DEF Frames
    <3> QED BY <3>1, <2>1, <2>2, <1>5, StackTopReplaced
  <2> QED BY <2>1, <2>3, <1>4, <1>7, Unmarked
<1>10. CASE Rearms
  <2>1. /\ UNCHANGED <<trackerVars, anchors, shown, pick, markerVars>>
        /\ frames # <<>> /\ Inner.stage = "rearm"
        /\ Continue([Inner EXCEPT !.stage = "bottom_right"])
    BY <1>10 DEF Rearms, Anchoring
  <2>2. Inner \in Frames /\ latest # None /\ Inner.first # None
    BY <2>1, <1>5, StackTop DEF Inner, Stacked
  <2>3. Stacked(frames')
    <3>1. [Inner EXCEPT !.stage = "bottom_right"] \in Frames
      BY <2>2 DEF Frames
    <3>2. [Inner EXCEPT !.stage = "bottom_right"].first # None
      BY <2>2 DEF Frames
    <3> QED BY <3>1, <3>2, <2>1, <2>2, <1>5, StackTopReplaced
  <2> QED BY <2>1, <2>3, <1>4, <1>7, Unmarked
<1>11. ASSUME NEW ok \in BOOLEAN, frames # <<>>, Returns(ok), UNCHANGED <<trackerVars, pick>>,
              IF ok THEN anchors' \in Corners /\ Distance(anchors'.a, anchors'.b) >= Spread
                    ELSE anchors' = anchors
       PROVE  CursorInv'
  <2>1. Stacked(frames')
    BY <1>11, <1>5, StackPopped DEF Returns
  <2>2. spots' \in Modes /\ painted' \in Modes /\ {due', redraw', timer'} \subseteq BOOLEAN
    BY <1>11, <1>6, MarkersTyped DEF Returns
  <2>3. shown' = IF ok THEN "calibrated" ELSE "uncalibrated"
    BY <1>11 DEF Returns
  <2> QED BY <1>11, <2>1, <2>2, <2>3, <1>4
<1>12. CASE CaptureSecond
  <2> DEFINE ok == Accepts(Inner.first, Cursor.x)
  <2>1. /\ UNCHANGED <<trackerVars, pick>> /\ frames # <<>> /\ Inner.stage = "bottom_right"
        /\ anchors' = IF ok THEN [a |-> Inner.first, b |-> latest.x] ELSE anchors
        /\ Returns(ok)
    BY <1>12 DEF CaptureSecond, Anchoring, Cursor
  <2>2. Inner \in Frames /\ latest # None /\ Inner.first # None
    BY <2>1, <1>5, StackTop DEF Inner, Stacked
  <2>3. Inner.first \in Screen /\ latest.x \in Screen
    BY <2>2, <1>0 DEF Frames, Samples
  <2>4. ok => anchors' \in Corners /\ Distance(anchors'.a, anchors'.b) >= Spread
    BY <2>1, <2>3 DEF Accepts, Cursor, Corners
  <2>5. ok \in BOOLEAN
    BY DEF Accepts
  <2>6. ~ok => anchors' = anchors
    BY <2>1
  <2> HIDE DEF ok
  <2> QED BY <1>11, <2>1, <2>4, <2>5, <2>6
<1>13. CASE AnchoringFails
  BY <1>13, <1>11 DEF AnchoringFails
<1>14. CASE MarkersExpire \/ Redraw
  <2>1. UNCHANGED <<trackerVars, frames, anchors, shown, pick>>
    BY <1>14 DEF MarkersExpire, Redraw, anchorVars
  <2>2. spots' \in Modes /\ painted' \in Modes /\ {due', redraw', timer'} \subseteq BOOLEAN
    BY <1>14 DEF MarkersExpire, Redraw, TimerEnds, Visible, Modes, TypeOK
  <2> QED BY <2>1, <2>2, <1>4, <1>5, <1>7
<1>15. CASE Pick \/ PickRefused
  <2>1. UNCHANGED <<trackerVars, anchorVars, markerVars>>
    BY <1>15 DEF Pick, PickRefused
  <2>2. pick' \in [region : 0 .. Region - 1, age : Ages] \cup {None}
    <3>1. CASE Pick
      <4>1. anchors # None /\ latest # None
            /\ pick' = [region |-> RegionPoint(latest.x), age |-> latest.age]
        BY <3>1 DEF Pick, Cursor
      <4>2. latest.x \in Screen /\ latest.age \in Ages
        BY <4>1, <1>0 DEF Samples
      <4>3. RegionPoint(latest.x) \in 0 .. Region - 1
        BY <4>1, <4>2, PointInRegion
      <4> QED BY <4>1, <4>2, <4>3
    <3>2. CASE PickRefused
      BY <3>2 DEF PickRefused
    <3> QED BY <1>15, <3>1, <3>2
  <2>3. TypeOK'
    BY <2>1, <2>2 DEF TypeOK, trackerVars, anchorVars, markerVars
  <2> QED BY <2>1, <2>3 DEF anchorVars, AnchorsAcceptedWhole
<1>16. CASE UNCHANGED vars
  BY <1>16 DEF vars, TypeOK, AnchorsAcceptedWhole
<1>17. CASE Notices
  BY <1>17, <1>4, <1>5, Unmarked DEF Notices, Announce
<1> QED BY <1>1, <1>2, <1>3, <1>8, <1>9, <1>10, <1>12, <1>13, <1>14, <1>15, <1>16, <1>17
        DEF Next

(* The invariant holds in every state of Spec.                             *)
THEOREM CursorInvariance == Spec => []CursorInv
BY InitCursorInv, NextCursorInv, PTL DEF Spec

(* What is picked lies in the region, and is filled from a sample.         *)
THEOREM CursorTypeCorrect == Spec => []TypeOK
<1>1. CursorInv => TypeOK
  BY DEF CursorInv
<1> QED BY <1>1, CursorInvariance, PTL

(* The corners that picks use were accepted together, however deep the     *)
(* anchorings nest, and stay when a later anchoring fails.                 *)
THEOREM CornersAreWhole == Spec => []AnchorsAcceptedWhole
<1>1. CursorInv => AnchorsAcceptedWhole
  BY DEF CursorInv
<1> QED BY <1>1, CursorInvariance, PTL
-----------------------------------------------------------------------------
(* The markers in Blender's viewport *)

(* The flag that keeps a second redraw timer from being started goes with  *)
(* the timer, and no spot is in the viewport without one: so every repaint *)
(* that is still owed has the timer that makes it.  While the markers'     *)
(* time lasts the viewport shows those that were asked for.                *)
SpotsHaveATimer ==
  /\ redraw <=> timer
  /\ painted # "hidden" => timer
  /\ due => spots # "hidden" /\ painted = spots

LEMMA OverlayKeepsTheTimer ==
  ASSUME TypeOK, SpotsHaveATimer,
         \/ Overlay(Show("targets")) \/ Overlay(Show("complete")) \/ Overlay(Clear)
         \/ UNCHANGED markerVars
  PROVE  SpotsHaveATimer'
<1>1. {due, redraw, timer} \subseteq BOOLEAN
  BY DEF TypeOK
<1>2. CASE Show("targets") \/ Show("complete")
  BY <1>1, <1>2 DEF Show, SpotsHaveATimer
<1>3. CASE Clear
  BY <1>3 DEF Clear, SpotsHaveATimer
<1>4. CASE UNCHANGED markerVars
  BY <1>4 DEF markerVars, SpotsHaveATimer
<1> QED BY <1>2, <1>3, <1>4 DEF Overlay

(* The other actions of the model leave the markers alone.                 *)
Elsewhere ==
  \/ CameraStarts \/ CameraEnds \/ HandMoves \/ FrameArrives \/ TimePasses
  \/ Notices \/ CaptureFirst \/ Rearms \/ Pick \/ PickRefused \/ UNCHANGED vars

LEMMA ElsewhereKeeps ==
  ASSUME TypeOK, Elsewhere
  PROVE  UNCHANGED markerVars /\ Len(frames') = Len(frames)
<1>1. frames \in Seq(Frames)
  BY DEF TypeOK
<1>2. CASE CaptureFirst \/ Rearms
  BY <1>1, <1>2 DEF CaptureFirst, Rearms, Continue
<1>3. CASE ~(CaptureFirst \/ Rearms)
  BY <1>3 DEF Elsewhere, CameraStarts, CameraEnds, HandMoves, FrameArrives, TimePasses,
              Notices, Pick, PickRefused, vars, anchorVars, markerVars
<1> QED BY <1>2, <1>3

LEMMA NextSpots == TypeOK /\ SpotsHaveATimer /\ [Next]_vars => SpotsHaveATimer'
<1> SUFFICES ASSUME TypeOK, SpotsHaveATimer, [Next]_vars PROVE SpotsHaveATimer'
  OBVIOUS
<1>1. CASE Elsewhere
  BY <1>1, ElsewhereKeeps, OverlayKeepsTheTimer
<1>2. CASE RecalibrateBegins
  BY <1>2, OverlayKeepsTheTimer DEF RecalibrateBegins
<1>3. ASSUME NEW ok, Returns(ok) PROVE SpotsHaveATimer'
  BY <1>3, OverlayKeepsTheTimer DEF Returns
<1>4. CASE CaptureSecond \/ AnchoringFails
  BY <1>3, <1>4 DEF CaptureSecond, AnchoringFails
<1>5. CASE MarkersExpire
  BY <1>5 DEF MarkersExpire, SpotsHaveATimer
<1>6. CASE Redraw
  BY <1>6 DEF Redraw, SpotsHaveATimer, TimerEnds, Visible, Active, TypeOK
<1> QED BY <1>1, <1>2, <1>4, <1>5, <1>6 DEF Next, Elsewhere

(* No spots without the timer that will take them away.                    *)
THEOREM NoSpotsWithoutATimer == Spec => []SpotsHaveATimer
<1>1. Init => SpotsHaveATimer
  BY DEF Init, SpotsHaveATimer
<1> QED BY <1>1, NextSpots, CursorTypeCorrect, PTL DEF Spec

(* What stands between a state and the viewport without spots: anchorings  *)
(* that have not returned (each may show a confirmation when it does), the *)
(* time of the markers, the timer's last round.                            *)
One(b) == IF b THEN 1 ELSE 0
Chores == 4 * Len(frames) + 2 * One(due) + One(timer)

LEMMA ChoresCounted ==
  TypeOK => /\ Chores \in Nat
            /\ Chores = 0 <=> frames = <<>> /\ ~due /\ ~timer
<1> SUFFICES ASSUME TypeOK
             PROVE  Chores \in Nat /\ (Chores = 0 <=> frames = <<>> /\ ~due /\ ~timer)
  OBVIOUS
<1>1. Len(frames) \in Nat /\ (Len(frames) = 0 <=> frames = <<>>)
  BY DEF TypeOK
<1> QED BY <1>1 DEF Chores, One

(* When nothing of it is left there are no spots.  Until the user presses  *)
(* Recalibrate again nothing adds to it, and the steps that fairness asks  *)
(* of Blender and of an anchoring's deadline each take from it, however    *)
(* deep the anchorings are nested and whichever overlay command is lost:   *)
(* SpotsGo without its fairness.                                           *)
SpotsCountDown ==
  /\ [](Chores = 0 => painted = "hidden")
  /\ [][~RecalibrateBegins =>
          /\ Chores' <= Chores
          /\ \/ ~(AnchoringFails \/ CaptureSecond \/ MarkersExpire \/ (Redraw /\ ~due))
             \/ Chores' < Chores]_vars

LEMMA StepCounts ==
  ASSUME TypeOK, TypeOK', SpotsHaveATimer, [Next]_vars, ~RecalibrateBegins
  PROVE  /\ Chores' <= Chores
         /\ \/ ~(AnchoringFails \/ CaptureSecond \/ MarkersExpire \/ (Redraw /\ ~due))
            \/ UNCHANGED vars
            \/ Chores' < Chores
<1> DEFINE Helps == AnchoringFails \/ CaptureSecond \/ MarkersExpire \/ (Redraw /\ ~due)
<1>0. /\ frames \in Seq(Frames) /\ Len(frames) \in Nat /\ Len(frames') \in Nat
      /\ due \in BOOLEAN /\ timer \in BOOLEAN /\ due' \in BOOLEAN /\ timer' \in BOOLEAN
  BY DEF TypeOK
<1>1. Len(frames') = Len(frames) /\ due' = due /\ timer' = timer => Chores' = Chores
  BY DEF Chores
<1>2. Chores \in Nat /\ Chores' \in Nat
  BY <1>0 DEF Chores, One
<1>3. CASE Elsewhere
  <2>1. Chores' = Chores
    BY <1>1, <1>3, ElsewhereKeeps DEF markerVars
  <2>2. ~Helps \/ UNCHANGED vars
    <3>1. CASE AnchoringFails \/ CaptureSecond
      <4>1. frames # <<>> /\ frames' = Front(frames)
        BY <3>1 DEF AnchoringFails, CaptureSecond, Anchoring, Returns
      <4>2. Len(frames') # Len(frames)
        BY <4>1, <1>0, StackTop
      <4> QED BY <4>2, <1>3, ElsewhereKeeps
    <3>2. CASE MarkersExpire \/ (Redraw /\ ~due)
      <4>1. due' # due \/ timer' # timer
        BY <3>2, <1>0 DEF MarkersExpire, Redraw, Active
      <4> QED BY <4>1, <1>3, ElsewhereKeeps DEF markerVars
    <3> QED BY <3>1, <3>2
  <2> QED BY <1>2, <2>1, <2>2
<1>4. CASE CaptureSecond \/ AnchoringFails
  <2>1. frames # <<>> /\ frames' = Front(frames)
    BY <1>4 DEF AnchoringFails, CaptureSecond, Anchoring, Returns
  <2>2. Len(frames') = Len(frames) - 1
    BY <1>0, <2>1, StackTop
  <2> QED BY <1>0, <2>2 DEF Chores, One
<1>5. CASE MarkersExpire
  BY <1>0, <1>5 DEF MarkersExpire, anchorVars, Chores, One
<1>6. CASE Redraw
  <2>1. Len(frames') = Len(frames) /\ due' = due
    BY <1>6 DEF Redraw, anchorVars
  <2>2. timer /\ (timer' = timer \/ ~timer')
    BY <1>0, <1>6 DEF Redraw
  <2>3. ~due => ~timer'
    BY <1>6 DEF Redraw, Active
  <2>4. due => timer' = timer
    BY <1>6 DEF Redraw, Active, SpotsHaveATimer
  <2>5. CASE due
    <3>1. Chores' = Chores
      BY <1>1, <2>1, <2>4, <2>5
    <3>2. ~(AnchoringFails \/ CaptureSecond \/ MarkersExpire)
      <4>1. ~MarkersExpire
        BY <2>1, <2>5 DEF MarkersExpire
      <4>2. ~(AnchoringFails \/ CaptureSecond)
        <5>1. CASE AnchoringFails \/ CaptureSecond
          <6>1. frames # <<>> /\ frames' = Front(frames)
            BY <5>1 DEF AnchoringFails, CaptureSecond, Anchoring, Returns
          <6> QED BY <6>1, <1>0, <2>1, StackTop
        <5> QED BY <5>1
      <4> QED BY <4>1, <4>2
    <3> QED BY <1>2, <2>5, <3>1, <3>2
  <2>6. CASE ~due
    BY <1>0, <2>1, <2>2, <2>3, <2>6 DEF Chores, One
  <2> QED BY <2>5, <2>6
<1> QED BY <1>3, <1>4, <1>5, <1>6 DEF Next, Elsewhere

(* SpotsCountDown: the calibration spots go, if the timers and the         *)
(* deadlines of anchorings come.                                           *)
THEOREM SpotsAreTakenAway == Spec => SpotsCountDown
<1>1. ASSUME TypeOK, TypeOK', SpotsHaveATimer, [Next]_vars
      PROVE  [~RecalibrateBegins =>
               /\ Chores' <= Chores
               /\ \/ ~(AnchoringFails \/ CaptureSecond \/ MarkersExpire \/ (Redraw /\ ~due))
                  \/ Chores' < Chores]_vars
  <2>1. CASE RecalibrateBegins
    BY <2>1
  <2>2. CASE ~RecalibrateBegins
    BY <1>1, <2>2, StepCounts
  <2> QED BY <2>1, <2>2
<1>2. TypeOK /\ SpotsHaveATimer => (Chores = 0 => painted = "hidden")
  BY ChoresCounted DEF SpotsHaveATimer
<1> QED BY <1>1, <1>2, CursorTypeCorrect, NoSpotsWithoutATimer, PTL DEF Spec, SpotsCountDown
=============================================================================
