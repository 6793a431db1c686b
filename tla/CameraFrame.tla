----------------------------- MODULE CameraFrame -----------------------------
(***************************************************************************)
(* The timers and flags a frame of AttachToHead keeps from one frame to    *)
(* the next: looking at what is interacted with, running, smoothing the    *)
(* walk, crossing from one chunk of the world to another; with the reports *)
(* of the player's animation (PlayerTAE) that they react to.               *)
(*                                                                         *)
(* A frame's geometry is abstracted to what it decides: whether the stick  *)
(* points ahead or more than 105 degrees away, and whether the camera has  *)
(* come close to the direction it is led back to.  A position counts only  *)
(* by whether it is in the coordinates of the chunk the player is in.      *)
(*                                                                         *)
(* Changes of perspective come from outside (they are what Perspective     *)
(* models), at any time between two frames.  All positions are taken to be *)
(* in the coordinates of one chunk at a time, which change in the call     *)
(* that chunkCode hooks.                                                   *)
(***************************************************************************)
EXTENDS PlayerTAE

CONSTANTS
  Animations,    \* the animations the player may be in
  FrameTimes,    \* the frame durations
  InteractHold,  \* how long an interaction is held until the camera follows (0.35s)
  SyncTime,      \* how long the camera takes to come back (0.25s)
  RunHold,       \* how long running is refused (0.1s)
  WalkTime,      \* how long smoothing takes to set in (0.2s)
  isSmoothing    \* the setting smoothingStr is above zero

ASSUME CameraFrameAssumption ==
  /\ Animations \subseteq Nat
  /\ FrameTimes \subseteq Nat \ {0}
  /\ InteractHold \in Nat \ {0} /\ SyncTime \in Nat \ {0}
  /\ RunHold \in Nat \ {0} /\ WalkTime \in Nat \ {0}
  /\ isSmoothing \in BOOLEAN

VARIABLES
  isCamInit, isFPS, isSpectate,    \* see Perspective
  pose,                 \* the PoseFlags that are set
  camGoalSyncTime,      \* the camera is led back from following the head
  isInteractTime,       \* how long the interact button has been held
  interactSyncTime,     \* the camera is led back from an interaction
  runTimeout,           \* running is refused
  isRunStateB,          \* the frame before was one of running
  isLockedOnLook,       \* output: the game must not turn the player
  walkSmoothTimeout,    \* how far smoothing has set in
  isCrossChunk,         \* a crossing was reported
  isCrossChunk_s,       \* the function's own static of that name
  playerPos_prev,       \* the position of the frame before
  playerDeltaPos_prev,  \* what the last distance was measured between
  resting               \* the player has come to rest, see Rests

view     == <<isCamInit, isFPS, isSpectate>>
tracking == <<pose, camGoalSyncTime>>
looking  == <<isInteractTime, interactSyncTime, isLockedOnLook>>
running  == <<runTimeout, isRunStateB>>
chunks   == <<isCrossChunk, isCrossChunk_s, playerPos_prev, playerDeltaPos_prev>>
vars == <<view, tracking, looking, running, walkSmoothTimeout,
          chunks, resting>>

\* Where a position lies: it is not set, in the coordinates the player's
\* position has now, or in others.
Places == {"unset", "here", "elsewhere"}
Distances == {"within", "across"}

TypeOK ==
  /\ isCamInit \in BOOLEAN /\ isFPS \in BOOLEAN /\ isSpectate \in BOOLEAN
  /\ pose \subseteq PoseFlags
  /\ camGoalSyncTime \in 0 .. SyncTime
  /\ isInteractTime \in Nat
  /\ interactSyncTime \in 0 .. SyncTime
  /\ runTimeout \in Int /\ runTimeout <= RunHold
  /\ isRunStateB \in BOOLEAN
  /\ isLockedOnLook \in BOOLEAN
  /\ walkSmoothTimeout \in Int /\ walkSmoothTimeout <= WalkTime
  /\ isCrossChunk \in BOOLEAN /\ isCrossChunk_s \in BOOLEAN
  /\ playerPos_prev \in Places
  /\ playerDeltaPos_prev \in Distances
  /\ resting \in BOOLEAN

Init ==
  /\ isCamInit = FALSE /\ isFPS = FALSE /\ isSpectate = FALSE
  /\ pose = {}
  /\ camGoalSyncTime = 0
  /\ isInteractTime = 0 /\ interactSyncTime = 0 /\ isLockedOnLook = FALSE
  /\ runTimeout = 0 /\ isRunStateB = FALSE
  /\ walkSmoothTimeout = 0
  /\ isCrossChunk = FALSE /\ isCrossChunk_s = FALSE
  /\ playerPos_prev = "unset" /\ playerDeltaPos_prev = "within"
  /\ resting = FALSE

\* MUTANT of Less: std::clamp is left out.
LessUnclamped(time, dT) == time - dT

\* A time counted down by std::clamp.
Less(time, dT) == IF time > dT THEN time - dT ELSE 0

-----------------------------------------------------------------------------
(* The player's animation reports (the hook playerTAE, in first person).   *)

\* The end of CheckPlayerTAE.  isTrackHead is joined with its override there;
\* the time that leads the camera back only runs while it is down.
CheckPlayerTAE(id, dT, readable, events, isTrackDodge) ==
  /\ isFPS
  /\ pose' = Classified(id, readable, events, isTrackDodge)
  /\ camGoalSyncTime' = IF "isTrackHead" \in pose' THEN SyncTime
                        ELSE Less(camGoalSyncTime, dT)
  /\ UNCHANGED <<view, looking, running, walkSmoothTimeout, chunks, resting>>

-----------------------------------------------------------------------------
(* A frame of AttachToHead.                                                *)

\* What a frame reads.  Without the run button, neither the game's run state
\* (which is put back to 1) nor the stick matter to what is modelled.
Input == {in \in
  [dT       : FrameTimes,
   interact : {"held", "free", "unreadable"},   \* the interact button
   press    : BOOLEAN,    \* the run button is held
   hkb      : BOOLEAN,    \* the game's run state is 2
   stick    : {"none", "ahead", "away"},        \* where it points
   rootT    : BOOLEAN,    \* the root motion is overridden: an attack or a jump
   isMount  : BOOLEAN] :
  ~in.press => ~in.hkb /\ in.stick = "none"}

\* The frame follows the head.
Tracks == "isTrackHead" \in pose /\ ~isSpectate

\* The button has been held long enough for the camera to follow.
Interacts(in) ==
  in.interact = "held" /\ ~Tracks /\ isInteractTime >= InteractHold

InteractTime(in) ==
  CASE in.interact = "unreadable" -> isInteractTime
    [] in.interact = "held" /\ ~Tracks ->
         IF isInteractTime < InteractHold THEN isInteractTime + in.dT
                                          ELSE isInteractTime
    [] OTHER -> 0

\* interactSyncTime when isLockedOnLook is decided, and at the end of the frame.
SyncWanted(in) == IF Interacts(in) THEN SyncTime ELSE interactSyncTime

\* MUTANT of SyncLeft: an interaction leads the camera for good.
SyncStays(in) == {SyncWanted(in)}

\* A time that leads the camera back ends early when the camera is close to
\* where it is led.
SyncLeft(in) ==
  IF Tracks \/ isSpectate \/ Interacts(in) THEN {SyncWanted(in)}
  ELSE {0, Less(interactSyncTime, in.dT)}

GoalLeft == IF Tracks \/ isSpectate THEN {camGoalSyncTime}
            ELSE {0, camGoalSyncTime}

\* The run state the frame goes on with: the game's, while the button is held.
Runs(in) == in.hkb /\ in.press

\* Running is refused for a while when it begins or the root motion is
\* overridden; not on a mount.
Timeout(in) ==
  IF in.rootT \/ (~in.isMount /\ Runs(in) # in.press) THEN RunHold
                                                     ELSE runTimeout

IsRefused(in) == ~in.isMount /\ Timeout(in) > 0

Running(in) == Runs(in) /\ ~IsRefused(in)

\* The stick decides about running anew.
Steers(in) == in.press /\ ~in.isMount /\ in.stick # "none"

Look(in) ==
  /\ isInteractTime' = InteractTime(in)
  /\ interactSyncTime' \in SyncLeft(in)
  /\ camGoalSyncTime' \in GoalLeft
  /\ isLockedOnLook' = IF isSpectate THEN isLockedOnLook
                       ELSE Running(in) \/ Tracks \/ SyncWanted(in) > 0

Run(in) ==
  IF isSpectate THEN UNCHANGED runTimeout /\ isRunStateB' = Runs(in)
  ELSE /\ runTimeout' =
            IF Steers(in) /\ in.stick = "away" THEN RunHold
            ELSE IF IsRefused(in) THEN Timeout(in) - in.dT ELSE Timeout(in)
       /\ isRunStateB' =
            IF ~Steers(in) THEN Running(in)
            ELSE in.stick = "ahead" \/ (isRunStateB /\ ~IsRefused(in))

\* MUTANT of IsSettling: what is left is taken whatever its sign.
IsSettlingOn == "isSyncRot" \in pose /\ walkSmoothTimeout # 0

\* Smoothing goes on after the walk while the body still turns.
IsSettling == "isSyncRot" \in pose /\ walkSmoothTimeout > 0

WalkSmoothTimeout(dT) ==
  IF "isSmoothAnim" \in pose
  THEN IF ~isSmoothing THEN walkSmoothTimeout
       ELSE IF walkSmoothTimeout + dT > WalkTime THEN WalkTime
       ELSE IF walkSmoothTimeout + dT < 0 THEN 0
       ELSE walkSmoothTimeout + dT
  ELSE IF IsSettling THEN walkSmoothTimeout - dT ELSE 0

\* MUTANT of IsHidden: the report is forgotten by the frame that sees it.
IsHiddenLate == isCrossChunk_s

\* The frame repeats the last distance instead of measuring it.
IsHidden == isCrossChunk \/ isCrossChunk_s

Measured == IF playerPos_prev = "elsewhere" THEN "across" ELSE "within"

\* A crossing is hidden for two frames; the report is taken back in the second.
\* Without a position of the frame before nothing is measured.
Crossing ==
  /\ playerPos_prev' = "here"
  /\ IF playerPos_prev = "unset"
     THEN UNCHANGED <<isCrossChunk, isCrossChunk_s, playerDeltaPos_prev>>
     ELSE /\ playerDeltaPos_prev' = IF IsHidden THEN playerDeltaPos_prev
                                                ELSE Measured
          /\ isCrossChunk' = (isCrossChunk /\ ~isCrossChunk_s)
          /\ isCrossChunk_s' = isCrossChunk'

AttachToHead(in) ==
  /\ isCamInit /\ isFPS
  /\ Look(in)
  /\ Run(in)
  /\ walkSmoothTimeout' = WalkSmoothTimeout(in.dT)
  /\ Crossing
  /\ UNCHANGED <<view, pose, resting>>

-----------------------------------------------------------------------------
(* The rest of the mod and the game.                                       *)

\* The hook chunkCode: the player's position is now in another chunk's
\* coordinates.
ChunkCode ==
  /\ isCrossChunk' = TRUE
  /\ playerPos_prev' =
       IF playerPos_prev = "unset" THEN "unset" ELSE "elsewhere"
  /\ UNCHANGED <<view, tracking, looking, running, walkSmoothTimeout,
                 isCrossChunk_s, playerDeltaPos_prev, resting>>

\* What CameraFPS and Camera3PS write of the variables here.
CameraFPS ==
  /\ isFPS' = TRUE
  /\ isLockedOnLook' = TRUE
  /\ UNCHANGED playerPos_prev

Camera3PS ==
  /\ isFPS' = FALSE
  /\ isLockedOnLook' = FALSE
  /\ playerPos_prev' = "unset"

\* The button flips the perspective, or a mimic takes or gives first person.
Flip ==
  /\ isCamInit
  /\ IF isFPS THEN Camera3PS ELSE CameraFPS
  /\ UNCHANGED <<isCamInit, isSpectate, tracking, isInteractTime,
                 interactSyncTime, running, walkSmoothTimeout, isCrossChunk,
                 isCrossChunk_s, playerDeltaPos_prev, resting>>

\* The camera is attached, to the player or to a character that is watched:
\* in first person if that was in use, and by the saved flag otherwise.
PerspectiveInit(spectate) ==
  /\ ~isCamInit
  /\ isCamInit' = TRUE
  /\ isSpectate' = spectate
  /\ CameraFPS \/ (~isFPS /\ Camera3PS)
  /\ UNCHANGED <<tracking, isInteractTime, interactSyncTime, running,
                 walkSmoothTimeout, isCrossChunk, isCrossChunk_s,
                 playerDeltaPos_prev, resting>>

\* The camera is let go of: for a cutscene, which drops first person without
\* Camera3PS, or because its target changed or is destroyed.
DeinitializeCamera ==
  /\ isCamInit
  /\ isCamInit' = FALSE
  /\ isFPS' \in {isFPS, FALSE}
  /\ UNCHANGED <<isSpectate, tracking, looking, running, walkSmoothTimeout,
                 chunks, resting>>

\* The player stands still in first person and touches nothing.
Rests ==
  /\ ~resting /\ isCamInit /\ isFPS /\ ~isSpectate
  /\ resting' = TRUE
  /\ UNCHANGED <<view, tracking, looking, running, walkSmoothTimeout, chunks>>

Resting(in) ==
  /\ in.interact = "free" /\ ~in.press /\ in.stick = "none"
  /\ ~in.rootT /\ ~in.isMount

-----------------------------------------------------------------------------
Frame == \E in \in Input : ~resting /\ AttachToHead(in)
RestFrame == \E in \in Input : resting /\ Resting(in) /\ AttachToHead(in)

Report ==
  \E id \in Animations, dT \in FrameTimes, readable, isTrackDodge \in BOOLEAN,
     events \in SUBSET Events :
    /\ ~resting
    /\ CheckPlayerTAE(id, dT, readable, events, isTrackDodge)

RestReport ==
  \E id \in Animations \cap Idle, dT \in FrameTimes,
     readable, isTrackDodge \in BOOLEAN :
    /\ resting
    /\ CheckPlayerTAE(id, dT, readable, {}, isTrackDodge)

Changes ==
  /\ ~resting
  /\ \/ ChunkCode
     \/ Flip
     \/ \E spectate \in BOOLEAN : PerspectiveInit(spectate)
     \/ DeinitializeCamera

Next == Frame \/ RestFrame \/ Report \/ RestReport \/ Changes \/ Rests

\* In first person the game calls both hooks in every frame it draws.
Spec == /\ Init /\ [][Next]_vars
        /\ WF_vars(RestFrame) /\ WF_vars(RestReport)

-----------------------------------------------------------------------------
\* A pose that follows the head is never smoothed as a walk: the two would
\* fight for the camera's height.  The ranges of CheckPlayerTAE overlap, and
\* its flags are set in several functions; the order of its early exits is
\* what keeps the two apart.
TrackedNotSmooth == ~({"isTrackHead", "isSmoothAnim"} \subseteq pose)

\* No frame measures a distance between positions in the coordinates of two
\* chunks, whatever crossings, changes of perspective and cutscenes lie between
\* the frames: the crosshair and the camera never see such a leap.
CrossingHidden == playerDeltaPos_prev # "across"

\* The weight of smoothing may overshoot zero, where it is counted down without
\* a clamp; a weight below zero, which pushes the camera away from where it is
\* led, never lasts longer than a frame or grows.
NegativeOnce ==
  [][walkSmoothTimeout < 0 /\ walkSmoothTimeout' # walkSmoothTimeout
       => walkSmoothTimeout' >= 0]_vars

\* Whatever was held, interacted with, run or animated before, a player at rest
\* is in the end free to turn: nothing keeps isLockedOnLook up or the rotation
\* unwritten (isInteractTime), and neither time that leads the camera runs on.
LookFreed ==
  resting ~> [](/\ ~isLockedOnLook /\ isInteractTime = 0
                /\ interactSyncTime = 0 /\ camGoalSyncTime = 0)
=============================================================================
