---------------------------- MODULE Perspective ----------------------------
(***************************************************************************)
(* The perspective control of erfps: when the camera is attached to a      *)
(* character, when it is first or third person, and what the mod has left  *)
(* changed in the game at any time.                                        *)
(*                                                                         *)
(* Each action is one call of a hooked game function, as asm.cpp installs  *)
(* them.  The game's main update makes these calls one after the other; in *)
(* which order, and how many of each per frame, the code does not say, so  *)
(* they interleave freely.  The one call that is split in two is the       *)
(* player's animation hook: its gate and its effect are separate actions,  *)
(* because the code tests isFPS again at the end.                          *)
(*                                                                         *)
(* Time is counted in ticks; a frame lasts one of FrameTimes.              *)
(***************************************************************************)
EXTENDS Integers

CONSTANTS
  Ins,          \* the characters a spectator camera may follow
  NoIns,        \* the null pointer: the camera follows the player
  FrameTimes,   \* the frame durations the game may report
  HoldTime,     \* a hold longer than this flips the perspective (0.3s)
  MenuTime,     \* how long a menu keeps the button disabled (0.3s)
  PressCap,     \* BOUND: sPressTime is not told apart beyond this value
  HeadFrames,   \* what a frame of AttachToHead may compute, see HeadFrame
  ArmRepos      \* the setting isArmReposEnable

Targets == Ins \cup {NoIns}

\* A scan for attacking enemies that is not over: bullets are still to be
\* captured, or one is, whose hits other hooks keep from the game (BulletIns
\* stands for BulletIns # -1).
ScanFlags == {"isGetChrAttack", "BulletIns"}

\* What makes other hooks override the game, with playerPos_prev standing for
\* playerPos_prev[3] # 0.
Flags == {"isLockedOnLook", "isDisableRunFPS", "isFPSAim", "RootTOverride",
          "LockTgtOverride", "isCrosshairEnable", "playerPos_prev"}
           \cup ScanFlags

\* The game's own fields that the mod writes.
GameFields == {"camModeSelect", "isLockedOnMove", "isLockedOnAnim", "fov",
               "fovZoomRender", "lockAng", "upperArmParam"}

\* A frame of AttachToHead computes a value for each flag and field it
\* assigns: "on" are the flags that come out true, "game" the fields that
\* come out different from third person.
HeadFrame == [on : SUBSET Flags, game : SUBSET GameFields]

ASSUME PerspectiveAssumption ==
  /\ NoIns \notin Ins
  /\ HoldTime \in Nat /\ MenuTime \in Nat /\ PressCap \in Nat
  /\ FrameTimes \subseteq Nat \ {0}
  /\ HoldTime < PressCap
  /\ \A dT \in FrameTimes : dT < PressCap
  /\ HeadFrames \subseteq HeadFrame
  /\ ArmRepos \in BOOLEAN

VARIABLES
  isCamInit,    \* the camera is attached to a character
  isFPS,        \* first person
  isFPS_prev,   \* first person is to be given back
  MimicState,   \* the chameleon was reported since the last new frame
  isMimic,      \* it was reported during the frame before
  isSpectate,   \* the camera was attached to another character
  PlayerInsSpectate,    \* which one
  headBoneOf,           \* the character whose bone layout gave headBoneOffset
  playerCamTgtIns_prev, \* the target the last PerspectiveControl saw
  sMenuTimeout, sPressTime, sIsPressState,
  raised,       \* the Flags that are set
  tae,          \* a call of the animation hook is past its gate
  eventFlag,    \* game: event flag 92599, the saved preference for third person
  lockModeEnabled,      \* game: the lock-on mode
  touched,      \* game: the GameFields that do not hold their third person value
  loaded,       \* game: CSChrPhysicsModule exists
  flips, toggles        \* history: what the button did since its last release

control == <<isCamInit, isFPS, isFPS_prev>>
mimic   == <<MimicState, isMimic>>
target  == <<isSpectate, PlayerInsSpectate, headBoneOf, playerCamTgtIns_prev>>
button  == <<sMenuTimeout, sPressTime, sIsPressState, lockModeEnabled,
             flips, toggles>>
marks   == <<raised, touched, eventFlag>>
vars    == <<control, mimic, target, button, marks, tae, loaded>>

TypeOK ==
  /\ isCamInit \in BOOLEAN /\ isFPS \in BOOLEAN /\ isFPS_prev \in BOOLEAN
  /\ MimicState \in BOOLEAN /\ isMimic \in BOOLEAN
  /\ isSpectate \in BOOLEAN
  /\ PlayerInsSpectate \in Targets
  /\ headBoneOf \in Targets
  /\ playerCamTgtIns_prev \in Targets
  /\ sMenuTimeout \in Nat
  /\ sPressTime \in 0 .. PressCap
  /\ sIsPressState \in BOOLEAN
  /\ raised \subseteq Flags
  /\ tae \in BOOLEAN
  /\ eventFlag \in BOOLEAN
  /\ lockModeEnabled \in BOOLEAN
  /\ touched \subseteq GameFields
  /\ loaded \in BOOLEAN
  /\ flips \in Nat /\ toggles \in Nat

\* The statics as the DLL is loaded, in a game that has no character yet.
Init ==
  /\ isCamInit = FALSE /\ isFPS = FALSE /\ isFPS_prev = FALSE
  /\ MimicState = FALSE /\ isMimic = FALSE
  /\ isSpectate = FALSE
  /\ PlayerInsSpectate = NoIns
  /\ headBoneOf = NoIns
  /\ playerCamTgtIns_prev = NoIns
  /\ sMenuTimeout = 0 /\ sPressTime = 0 /\ sIsPressState = FALSE
  /\ raised = {} /\ touched = {}
  /\ tae = FALSE
  /\ eventFlag \in BOOLEAN
  /\ lockModeEnabled \in BOOLEAN
  /\ loaded = FALSE
  /\ flips = 0 /\ toggles = 0

-----------------------------------------------------------------------------
(* The two ways of writing the perspective.                                *)

\* The flags Camera3PS clears: all but those of a scan.
ThirdPersonFlags == Flags \ ScanFlags

\* MUTANT of Enter3PS: the preference is not saved.
Enter3PSUnsaved ==
  /\ isFPS' = FALSE
  /\ raised' = raised \ ThirdPersonFlags
  /\ touched' = {}
  /\ UNCHANGED eventFlag

\* CameraFPS, when the camera is attached (a no-op otherwise).
EnterFPS ==
  /\ isFPS' = TRUE
  /\ eventFlag' = FALSE
  /\ raised' = raised \cup {"isLockedOnLook"}
  /\ touched' = touched
       \cup {"isLockedOnMove", "isLockedOnAnim", "fovZoomRender"}
       \cup (IF ArmRepos THEN {"upperArmParam"} ELSE {})

\* Camera3PS, when the camera is attached (a no-op otherwise).
Enter3PS ==
  /\ isFPS' = FALSE
  /\ eventFlag' = TRUE
  /\ raised' = raised \ ThirdPersonFlags
  /\ touched' = {}

CameraFPS ==
  \/ isCamInit /\ EnterFPS
  \/ ~isCamInit /\ UNCHANGED <<isFPS, marks>>

Camera3PS ==
  \/ isCamInit /\ Enter3PS
  \/ ~isCamInit /\ UNCHANGED <<isFPS, marks>>

\* MUTANT of DeinitializeCamera: it leaves the camera attached.
StayAttached == UNCHANGED isCamInit

DeinitializeCamera == isCamInit' = FALSE

-----------------------------------------------------------------------------
(* PerspectiveControl, called by the hook camCode00 while a character is   *)
(* loaded (it returns at once otherwise).  A call reads: dT, whether a     *)
(* menu or the mouse is up, the target of the camera, REMOState = 1, and   *)
(* whether the bone layout and the button can be read.                     *)

\* MUTANTS of MenuTick and SawTarget: the timeout is never counted down; the
\* target is not remembered.
MenuTickStuck(dT, menu) ==
  sMenuTimeout' = IF menu THEN MenuTime ELSE sMenuTimeout

ForgetTarget(tgt) == UNCHANGED playerCamTgtIns_prev

\* sMenuTimeout is only compared with 0, so it stops there.
MenuTick(dT, menu) ==
  sMenuTimeout' = IF menu THEN MenuTime
                  ELSE IF sMenuTimeout > dT THEN sMenuTimeout - dT ELSE 0

SawTarget(tgt) == playerCamTgtIns_prev' = tgt

TargetChanged(dT, menu, tgt) ==
  /\ loaded /\ isCamInit
  /\ playerCamTgtIns_prev # tgt
  /\ MenuTick(dT, menu)
  /\ DeinitializeCamera
  /\ SawTarget(tgt)
  /\ UNCHANGED <<isFPS, isFPS_prev, mimic, isSpectate, PlayerInsSpectate,
                 headBoneOf, sPressTime, sIsPressState, lockModeEnabled,
                 flips, toggles, marks, tae, loaded>>

\* InitializeCamera gets as far as the target, then fails on the bone layout.
InitFails(dT, menu, tgt) ==
  /\ loaded /\ ~isCamInit
  /\ MenuTick(dT, menu)
  /\ isSpectate' = (tgt # NoIns)
  /\ PlayerInsSpectate' = tgt
  /\ SawTarget(tgt)
  /\ UNCHANGED <<control, mimic, headBoneOf, sPressTime, sIsPressState,
                 lockModeEnabled, flips, toggles, marks, tae, loaded>>

\* MUTANT of WantsFPS: what was in use before does not count.
SavedOnly == ~eventFlag

\* InitializeCamera sets isFPS unless the flag is set, and never clears it.
WantsFPS == isFPS \/ ~eventFlag

\* InitializeCamera succeeds, and PerspectiveInit writes the perspective:
\* first person if it was remembered or the saved flag does not forbid it.
PerspectiveInit(dT, menu, tgt) ==
  /\ loaded /\ ~isCamInit
  /\ MenuTick(dT, menu)
  /\ isSpectate' = (tgt # NoIns)
  /\ PlayerInsSpectate' = tgt
  /\ headBoneOf' = tgt
  /\ isCamInit' = TRUE
  /\ IF WantsFPS THEN EnterFPS ELSE Enter3PS
  /\ SawTarget(tgt)
  /\ UNCHANGED <<isFPS_prev, mimic, sPressTime, sIsPressState,
                 lockModeEnabled, flips, toggles, tae, loaded>>

\* The call gets past both early returns above.
Steady(dT, menu, tgt, remo) ==
  /\ loaded
  /\ IF isCamInit THEN playerCamTgtIns_prev = tgt ELSE ~remo
  /\ MenuTick(dT, menu)
  /\ SawTarget(tgt)
  /\ UNCHANGED <<isCamInit, mimic, isSpectate, PlayerInsSpectate, headBoneOf,
                 tae, loaded>>

\* A mimic is shown in third person.
MimicFrame(dT, menu, tgt, remo) ==
  /\ Steady(dT, menu, tgt, remo)
  /\ isMimic
  /\ IF isFPS /\ ~isFPS_prev
       THEN Camera3PS /\ isFPS_prev' = TRUE
       ELSE UNCHANGED <<isFPS, isFPS_prev, marks>>
  /\ UNCHANGED <<sPressTime, sIsPressState, lockModeEnabled, flips, toggles>>

\* Afterwards first person is given back.
RestoreFrame(dT, menu, tgt, remo) ==
  /\ Steady(dT, menu, tgt, remo)
  /\ ~isMimic /\ isFPS_prev
  /\ CameraFPS
  /\ isFPS_prev' = FALSE
  /\ UNCHANGED <<sPressTime, sIsPressState, lockModeEnabled, flips, toggles>>

\* An ordinary call, which samples the lock-on button.
ButtonFrame(dT, menu, tgt, remo) ==
  /\ Steady(dT, menu, tgt, remo)
  /\ ~isMimic /\ ~isFPS_prev
  /\ UNCHANGED isFPS_prev

Unreadable(dT, menu, tgt, remo) ==
  /\ ButtonFrame(dT, menu, tgt, remo)
  /\ UNCHANGED <<isFPS, marks, sPressTime, sIsPressState, lockModeEnabled,
                 flips, toggles>>

\* The button is up, or counts as up because of a menu.
Release(dT, menu, tgt, remo, down) ==
  /\ ButtonFrame(dT, menu, tgt, remo)
  /\ ~(down /\ sMenuTimeout' = 0)
  /\ sPressTime' = 0 /\ sIsPressState' = FALSE
  /\ flips' = 0 /\ toggles' = 0
  /\ UNCHANGED <<isFPS, marks, lockModeEnabled>>

\* MUTANTS of PressTime and IsHold: the time runs backwards; a press that has
\* flipped the perspective goes on flipping it.
PressTimeDown(dT) == sPressTime - dT

IsHoldAgain(dT) ==
  (IF sPressTime + dT > PressCap THEN PressCap ELSE sPressTime + dT) > HoldTime

\* sPressTime is compared with HoldTime and with dT, both below PressCap.
PressTime(dT) ==
  IF sPressTime + dT > PressCap THEN PressCap ELSE sPressTime + dT

\* The first frame of a press toggles the lock-on mode in first person.
IsToggle(dT) == isFPS /\ ~sIsPressState /\ PressTime(dT) = dT

\* A press gets long enough to flip the perspective.
IsHold(dT) == ~sIsPressState /\ PressTime(dT) > HoldTime

Press(dT, menu, tgt, remo) ==
  /\ ButtonFrame(dT, menu, tgt, remo)
  /\ sMenuTimeout' = 0
  /\ sPressTime' = PressTime(dT)
  /\ lockModeEnabled' = IF IsToggle(dT) THEN ~lockModeEnabled
                                        ELSE lockModeEnabled
  /\ toggles' = IF IsToggle(dT) THEN toggles + 1 ELSE toggles

ShortPress(dT, menu, tgt, remo) ==
  /\ Press(dT, menu, tgt, remo)
  /\ ~IsHold(dT)
  /\ UNCHANGED <<isFPS, marks, sIsPressState, flips>>

LongPress(dT, menu, tgt, remo) ==
  /\ Press(dT, menu, tgt, remo)
  /\ IsHold(dT)
  /\ sIsPressState' = TRUE
  /\ IF isFPS THEN Camera3PS ELSE CameraFPS
  /\ flips' = IF isCamInit THEN flips + 1 ELSE flips

PerspectiveControl(dT, menu, tgt, remo, down, readable) ==
  \/ TargetChanged(dT, menu, tgt)
  \/ remo /\ ~readable /\ InitFails(dT, menu, tgt)
  \/ remo /\ readable /\ PerspectiveInit(dT, menu, tgt)
  \/ MimicFrame(dT, menu, tgt, remo)
  \/ RestoreFrame(dT, menu, tgt, remo)
  \/ ~readable /\ Unreadable(dT, menu, tgt, remo)
  \/ readable /\ Release(dT, menu, tgt, remo, down)
  \/ readable /\ down /\ ShortPress(dT, menu, tgt, remo)
  \/ readable /\ down /\ LongPress(dT, menu, tgt, remo)

-----------------------------------------------------------------------------
(* AttachToHead, called by the hook hvkBone for the head bone of the       *)
(* character in first person.                                              *)

\* A cutscene took the camera: let go of it.
CutsceneStarts ==
  /\ isCamInit /\ isFPS
  /\ isFPS' = FALSE
  /\ isFPS_prev' = TRUE
  /\ DeinitializeCamera
  /\ touched' = touched \ {"camModeSelect"}
  /\ UNCHANGED <<mimic, target, button, raised, eventFlag, tae, loaded>>

\* What AttachToHead assigns: while spectating it leaves the player's own
\* movement alone, and the crosshair needs the position of a frame before.
AssignedFlags ==
  {"LockTgtOverride"}
    \cup (IF isSpectate THEN {}
          ELSE {"RootTOverride", "isDisableRunFPS", "isLockedOnLook"})
    \cup (IF "playerPos_prev" \in raised THEN {"isCrosshairEnable"} ELSE {})

AssignedFields ==
  IF isSpectate THEN {} ELSE {"isLockedOnMove", "isLockedOnAnim"}

AttachToHead(f) ==
  /\ isCamInit /\ isFPS
  /\ raised' = (raised \ AssignedFlags) \cup (f.on \cap AssignedFlags)
                 \cup {"playerPos_prev"} \cup (f.on \cap {"isGetChrAttack"})
  /\ touched' = (touched \ AssignedFields) \cup (f.game \cap AssignedFields)
                  \cup {"camModeSelect", "fov"}
                  \cup (IF lockModeEnabled THEN {"lockAng"} ELSE {})
                  \cup (IF ArmRepos THEN f.game \cap {"upperArmParam"} ELSE {})
  /\ UNCHANGED <<control, mimic, target, button, eventFlag, tae, loaded>>

-----------------------------------------------------------------------------
(* The hook playerTAE and CheckPlayerTAE.                                  *)

\* The hook's own test of isFPS.
TAEGate ==
  /\ ~tae /\ isFPS
  /\ tae' = TRUE
  /\ UNCHANGED <<control, mimic, target, button, marks, loaded>>

\* MUTANT of CheckPlayerTAE: isFPS is not tested again.
CheckPlayerTAEOnce(isAim) ==
  /\ tae
  /\ tae' = FALSE
  /\ raised' = IF isAim THEN raised \cup {"isFPSAim"}
                         ELSE raised \ {"isFPSAim"}
  /\ UNCHANGED <<control, mimic, target, button, eventFlag, touched, loaded>>

\* The end of CheckPlayerTAE: isFPS is tested again.
CheckPlayerTAE(isAim) ==
  /\ tae
  /\ tae' = FALSE
  /\ raised' = IF ~isFPS THEN raised
               ELSE IF isAim THEN raised \cup {"isFPSAim"}
               ELSE raised \ {"isFPSAim"}
  /\ UNCHANGED <<control, mimic, target, button, eventFlag, touched, loaded>>

-----------------------------------------------------------------------------
(* The hook stateInfo, for the character the camera follows.  The first    *)
(* call of a frame moves the report of the frame before to isMimic; only   *)
(* the later calls look at what is reported.                               *)

\* MUTANT of StateInfoNewFrame: the report is never taken back.
StateInfoSticky ==
  /\ loaded
  /\ isMimic' = MimicState
  /\ UNCHANGED <<MimicState, control, target, button, marks, tae, loaded>>

StateInfoNewFrame ==
  /\ loaded
  /\ isMimic' = MimicState
  /\ MimicState' = FALSE
  /\ UNCHANGED <<control, target, button, marks, tae, loaded>>

StateInfoChameleon ==
  /\ loaded
  /\ MimicState' = TRUE
  /\ UNCHANGED <<control, isMimic, target, button, marks, tae, loaded>>

-----------------------------------------------------------------------------
(* The hooks regBullet and dstBullet, which do not test isFPS.  How many    *)
(* bullets are still to be captured is left open here (see AttackScan).    *)

\* A bullet is captured: the first of two, or the last.
RegisterBullet ==
  /\ "isGetChrAttack" \in raised
  /\ \/ raised' = raised \cup {"BulletIns"}
     \/ raised' = (raised \ {"isGetChrAttack"}) \cup {"BulletIns"}
  /\ UNCHANGED <<control, mimic, target, button, eventFlag, touched, tae, loaded>>

\* The captured bullet is destroyed: one less to capture (of two or of one), or
\* the end of the scan.
DestroyBullet ==
  /\ "BulletIns" \in raised
  /\ \/ "isGetChrAttack" \in raised /\ raised' = raised \ {"isGetChrAttack"}
     \/ "isGetChrAttack" \notin raised /\ raised' = raised \ {"BulletIns"}
  /\ UNCHANGED <<control, mimic, target, button, eventFlag, touched, tae, loaded>>

-----------------------------------------------------------------------------
(* The game.  The hook dtorStart runs when a character is destroyed: the   *)
(* player's, before another save is loaded, or any other one.              *)

Destructor ==
  /\ isCamInit
  /\ DeinitializeCamera
  /\ UNCHANGED <<isFPS, isFPS_prev, mimic, target, button, marks, tae, loaded>>

Unload ==
  /\ loaded
  /\ loaded' = FALSE
  /\ DeinitializeCamera
  /\ UNCHANGED <<isFPS, isFPS_prev, mimic, target, button, marks, tae>>

\* A save brings its own event flag, and may bring fresh game objects.
Load(saved) ==
  /\ ~loaded
  /\ loaded' = TRUE
  /\ eventFlag' = saved
  /\ touched' \in {touched, {}}
  /\ UNCHANGED <<control, mimic, target, button, raised, tae>>

-----------------------------------------------------------------------------
Next ==
  \/ \E dT \in FrameTimes, menu, remo, down, readable \in BOOLEAN,
        tgt \in Targets :
       PerspectiveControl(dT, menu, tgt, remo, down, readable)
  \/ CutsceneStarts
  \/ \E f \in HeadFrames : AttachToHead(f)
  \/ TAEGate
  \/ \E isAim \in BOOLEAN : CheckPlayerTAE(isAim)
  \/ StateInfoNewFrame
  \/ StateInfoChameleon
  \/ RegisterBullet
  \/ DestroyBullet
  \/ Destructor
  \/ Unload
  \/ \E saved \in BOOLEAN : Load(saved)

Spec == Init /\ [][Next]_vars

-----------------------------------------------------------------------------
(* Safety.                                                                 *)

\* While the camera is attached, the preference saved in the game's event
\* flag (CameraFPS and Camera3PS write it) is the perspective in use, so that
\* the next attachment, also after a restart, comes back to it.
FlagAgrees == isCamInit => (isFPS <=> ~eventFlag)

\* While the camera is attached in third person nothing of first person is
\* left over but a scan that is not over: every other flag that makes a hook
\* override the game is down and every game field is back (what Camera3PS is
\* for), whatever AttachToHead, the animation hook and the cutscenes did in
\* between.  Camera3PS does not end a scan, and the hooks of bullets and hits
\* do not ask for first person: they go on taking hits until its bullets are
\* registered and destroyed.
ThirdPersonClean ==
  isCamInit /\ ~isFPS => raised \subseteq ScanFlags /\ touched = {}

\* While the camera is attached, the character the other hooks compare with
\* (PlayerInsSpectate), the kind of camera (isSpectate) and the head bone all
\* belong to the target the camera had at the last PerspectiveControl.
TargetMatches ==
  isCamInit =>
    /\ PlayerInsSpectate = playerCamTgtIns_prev
    /\ isSpectate <=> playerCamTgtIns_prev # NoIns
    /\ headBoneOf = playerCamTgtIns_prev

\* Between two releases the button flips the perspective at most once and
\* toggles the lock-on mode at most once, whatever interrupts the press
\* (sIsPressState and the test of sPressTime against dT are for this).
PressOnce == flips <= 1 /\ toggles <= 1

=============================================================================
