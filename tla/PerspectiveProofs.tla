------------------------- MODULE PerspectiveProofs -------------------------
(***************************************************************************)
(* The safety properties of Perspective, for every set of characters,      *)
(* every time constant and every kind of frame; that it implements         *)
(* CameraView; and that a game that comes to rest is still a game of       *)
(* Perspective, with what its liveness then says about the overrides.      *)
(***************************************************************************)
EXTENDS PerspectiveRefinement, PerspectiveCalm, TLAPS

\* PressTime keeps sPressTime in range.  A press that has already lasted never
\* looks like its own first frame, which is what the code's test of sPressTime
\* against dT relies on.
LEMMA PressTimeFacts ==
  ASSUME TypeOK, NEW dT \in FrameTimes
  PROVE  /\ dT \in Nat /\ dT > 0
         /\ PressTime(dT) \in 0 .. PressCap
         /\ PressTime(dT) > 0
         /\ sPressTime > 0 => PressTime(dT) # dT
BY PerspectiveAssumption DEF TypeOK, PressTime

\* The conjuncts of TypeOK about the two ways of writing the perspective.
ViewTyped == /\ isFPS \in BOOLEAN /\ eventFlag \in BOOLEAN
             /\ raised \subseteq Flags /\ touched \subseteq GameFields

LEMMA ViewTypes ==
  ASSUME TypeOK,
         EnterFPS \/ Enter3PS \/ CameraFPS \/ Camera3PS
  PROVE  ViewTyped'
BY DEF TypeOK, ViewTyped, EnterFPS, Enter3PS, CameraFPS, Camera3PS,
       Flags, GameFields, ThirdPersonFlags, marks

\* The conjuncts of TypeOK about what a call past the early returns leaves
\* alone or copies.
SteadyTyped ==
  /\ isCamInit \in BOOLEAN
  /\ MimicState \in BOOLEAN /\ isMimic \in BOOLEAN
  /\ isSpectate \in BOOLEAN
  /\ PlayerInsSpectate \in Targets
  /\ headBoneOf \in Targets
  /\ playerCamTgtIns_prev \in Targets
  /\ sMenuTimeout \in Nat
  /\ tae \in BOOLEAN /\ loaded \in BOOLEAN

\* The conjuncts of TypeOK about the button.
ButtonTyped ==
  /\ isFPS_prev \in BOOLEAN
  /\ sPressTime \in 0 .. PressCap
  /\ sIsPressState \in BOOLEAN
  /\ lockModeEnabled \in BOOLEAN
  /\ flips \in Nat /\ toggles \in Nat

LEMMA TypeParts ==
  ASSUME ViewTyped', SteadyTyped', ButtonTyped'
  PROVE  TypeOK'
BY DEF TypeOK, ViewTyped, SteadyTyped, ButtonTyped

LEMMA PartsOfType == TypeOK => ViewTyped /\ SteadyTyped /\ ButtonTyped
BY DEF TypeOK, ViewTyped, SteadyTyped, ButtonTyped

\* A part of the state that a step leaves alone keeps its types.
LEMMA KeepsView == ASSUME TypeOK, UNCHANGED <<isFPS, marks>> PROVE ViewTyped'
BY DEF TypeOK, ViewTyped, marks

LEMMA KeepsSteady ==
  ASSUME TypeOK, UNCHANGED <<isCamInit, mimic, target, sMenuTimeout, tae, loaded>>
  PROVE  SteadyTyped'
BY DEF TypeOK, SteadyTyped, mimic, target

LEMMA KeepsButton ==
  ASSUME TypeOK, UNCHANGED <<isFPS_prev, button>>
  PROVE  ButtonTyped'
BY DEF TypeOK, ButtonTyped, button

\* Every PerspectiveControl keeps the types.
LEMMA ControlTypes ==
  ASSUME TypeOK, NEW dT \in FrameTimes, NEW tgt \in Targets,
         NEW menu \in BOOLEAN, NEW remo \in BOOLEAN,
         NEW down \in BOOLEAN, NEW readable \in BOOLEAN,
         PerspectiveControl(dT, menu, tgt, remo, down, readable)
  PROVE  TypeOK'
<1>1. dT \in Nat /\ PressTime(dT) \in 0 .. PressCap
  BY PressTimeFacts
<1>2. ASSUME MenuTick(dT, menu)
      PROVE  sMenuTimeout' \in Nat
  BY <1>1, <1>2, PerspectiveAssumption DEF MenuTick, TypeOK
<1>3. CASE TargetChanged(dT, menu, tgt)
  <2>1. isCamInit' \in BOOLEAN /\ sMenuTimeout' \in Nat /\ playerCamTgtIns_prev' \in Targets
    BY <1>2, <1>3 DEF TargetChanged, DeinitializeCamera, SawTarget
  <2>2. SteadyTyped'
    BY <1>3, <2>1 DEF TargetChanged, TypeOK, SteadyTyped, mimic
  <2>3. ButtonTyped'
    BY <1>3 DEF TargetChanged, TypeOK, ButtonTyped
  <2>4. ViewTyped'
    BY <1>3, KeepsView DEF TargetChanged
  <2>5. QED
    BY <2>2, <2>3, <2>4, TypeParts
<1>4. CASE InitFails(dT, menu, tgt)
  <2>1. /\ isSpectate' \in BOOLEAN /\ sMenuTimeout' \in Nat
        /\ PlayerInsSpectate' \in Targets /\ playerCamTgtIns_prev' \in Targets
    BY <1>2, <1>4 DEF InitFails, SawTarget
  <2>2. SteadyTyped'
    BY <1>4, <2>1 DEF InitFails, TypeOK, SteadyTyped, control, mimic
  <2>3. ButtonTyped'
    BY <1>4 DEF InitFails, TypeOK, ButtonTyped, control
  <2>4. ViewTyped'
    BY <1>4, KeepsView DEF InitFails, control
  <2>5. QED
    BY <2>2, <2>3, <2>4, TypeParts
<1>5. CASE PerspectiveInit(dT, menu, tgt)
  <2>1. ViewTyped'
    BY <1>5, ViewTypes DEF PerspectiveInit
  <2>2. SteadyTyped'
    BY <1>2, <1>5 DEF PerspectiveInit, TypeOK, SteadyTyped, SawTarget, mimic
  <2>3. ButtonTyped'
    BY <1>5 DEF PerspectiveInit, TypeOK, ButtonTyped
  <2>4. QED
    BY <2>1, <2>2, <2>3, TypeParts
<1>6. ASSUME Steady(dT, menu, tgt, remo)
      PROVE  SteadyTyped'
  BY <1>2, <1>6 DEF Steady, SteadyTyped, TypeOK, SawTarget, mimic
<1>7. ASSUME UNCHANGED <<isFPS, marks>>
      PROVE  ViewTyped'
  BY <1>7 DEF ViewTyped, TypeOK, marks
<1>8. CASE MimicFrame(dT, menu, tgt, remo)
  <2>1. ViewTyped'
    BY <1>7, <1>8, ViewTypes DEF MimicFrame
  <2>2. ButtonTyped'
    BY <1>8 DEF MimicFrame, ButtonTyped, TypeOK
  <2>3. QED
    BY <1>6, <1>8, <2>1, <2>2, TypeParts DEF MimicFrame
<1>9. CASE RestoreFrame(dT, menu, tgt, remo)
  <2>1. ButtonTyped'
    BY <1>9 DEF RestoreFrame, ButtonTyped, TypeOK
  <2>2. QED
    BY <1>6, <1>9, <2>1, ViewTypes, TypeParts DEF RestoreFrame
<1>10. CASE Unreadable(dT, menu, tgt, remo)
  <2>1. ButtonTyped'
    BY <1>10 DEF Unreadable, ButtonFrame, ButtonTyped, TypeOK
  <2>2. QED
    BY <1>6, <1>7, <1>10, <2>1, TypeParts DEF Unreadable, ButtonFrame
<1>11. CASE Release(dT, menu, tgt, remo, down)
  <2>1. ButtonTyped'
    <3>1. 0 \in 0 .. PressCap
      BY PerspectiveAssumption
    <3>2. QED
      BY <1>11, <3>1 DEF Release, ButtonFrame, ButtonTyped, TypeOK
  <2>2. QED
    BY <1>6, <1>7, <1>11, <2>1, TypeParts DEF Release, ButtonFrame
<1>12. ASSUME Press(dT, menu, tgt, remo)
       PROVE  /\ sPressTime' \in 0 .. PressCap
              /\ lockModeEnabled' \in BOOLEAN
              /\ toggles' \in Nat
  <2>1. CASE IsToggle(dT)
    BY <1>1, <1>12, <2>1 DEF Press, TypeOK
  <2>2. CASE ~IsToggle(dT)
    BY <1>1, <1>12, <2>2 DEF Press, TypeOK
  <2>3. QED
    BY <2>1, <2>2
<1>13. CASE ShortPress(dT, menu, tgt, remo)
  <2>1. isFPS_prev' \in BOOLEAN /\ sIsPressState' \in BOOLEAN /\ flips' \in Nat
    BY <1>13 DEF ShortPress, Press, ButtonFrame, TypeOK
  <2>2. ButtonTyped'
    BY <1>12, <1>13, <2>1 DEF ShortPress, ButtonTyped
  <2>3. QED
    BY <1>6, <1>7, <1>13, <2>2, TypeParts DEF ShortPress, Press, ButtonFrame
<1>14. CASE LongPress(dT, menu, tgt, remo)
  <2>1. isFPS_prev' \in BOOLEAN /\ sIsPressState' \in BOOLEAN /\ flips' \in Nat
    BY <1>14 DEF LongPress, Press, ButtonFrame, TypeOK
  <2>2. ButtonTyped'
    BY <1>12, <1>14, <2>1 DEF LongPress, ButtonTyped
  <2>3. QED
    BY <1>6, <1>14, <2>2, ViewTypes, TypeParts
       DEF LongPress, Press, ButtonFrame
<1>15. QED
  BY <1>3, <1>4, <1>5, <1>8, <1>9, <1>10, <1>11, <1>13, <1>14
     DEF PerspectiveControl

\* Every step of the other hooks and of the game keeps the types.
LEMMA OtherTypes ==
  ASSUME TypeOK,
         \/ CutsceneStarts \/ \E f \in HeadFrames : AttachToHead(f)
         \/ TAEGate \/ \E isAim \in BOOLEAN : CheckPlayerTAE(isAim)
         \/ StateInfoNewFrame \/ StateInfoChameleon
         \/ RegisterBullet \/ DestroyBullet
         \/ Destructor \/ Unload \/ \E flag \in BOOLEAN : Load(flag)
         \/ UNCHANGED vars
  PROVE  TypeOK'
<1>1. CASE CutsceneStarts
  <2>1. ViewTyped'
    BY <1>1 DEF CutsceneStarts, TypeOK, ViewTyped
  <2>2. SteadyTyped'
    BY <1>1 DEF CutsceneStarts, TypeOK, SteadyTyped, DeinitializeCamera, mimic,
                target, button
  <2>3. ButtonTyped'
    BY <1>1 DEF CutsceneStarts, TypeOK, ButtonTyped, button
  <2>4. QED
    BY <2>1, <2>2, <2>3, TypeParts
<1>2. ASSUME NEW f \in HeadFrames, AttachToHead(f)
      PROVE  TypeOK'
  <2>1. raised' \subseteq Flags /\ touched' \subseteq GameFields
    <3>1. f \in HeadFrame
      BY PerspectiveAssumption
    <3>2. QED
      BY <1>2, <3>1 DEF AttachToHead, TypeOK, AssignedFlags, AssignedFields,
                        Flags, GameFields, HeadFrame
  <2>2. ViewTyped'
    BY <1>2, <2>1 DEF AttachToHead, TypeOK, ViewTyped, control
  <2>3. UNCHANGED <<isCamInit, mimic, target, sMenuTimeout, tae, loaded>>
        /\ UNCHANGED <<isFPS_prev, button>>
    BY <1>2 DEF AttachToHead, control, button
  <2>4. QED
    BY <2>2, <2>3, KeepsSteady, KeepsButton, TypeParts
<1>3. CASE TAEGate
  <2>1. UNCHANGED <<isFPS, marks>> /\ UNCHANGED <<isFPS_prev, button>>
    BY <1>3 DEF TAEGate, control
  <2>2. SteadyTyped'
    BY <1>3 DEF TAEGate, TypeOK, SteadyTyped, control, mimic, target, button
  <2>3. QED
    BY <2>1, <2>2, KeepsView, KeepsButton, TypeParts
<1>4. ASSUME NEW isAim \in BOOLEAN, CheckPlayerTAE(isAim)
      PROVE  TypeOK'
  <2>1. raised' \subseteq Flags
    BY <1>4 DEF CheckPlayerTAE, TypeOK, Flags
  <2>2. tae' \in BOOLEAN
    BY <1>4 DEF CheckPlayerTAE, TypeOK
  <2>3. UNCHANGED <<control, mimic, target, button, eventFlag, touched, loaded>>
    BY <1>4 DEF CheckPlayerTAE
  <2>4. ViewTyped'
    BY <2>1, <2>3 DEF TypeOK, ViewTyped, control
  <2>5. SteadyTyped'
    BY <2>2, <2>3 DEF TypeOK, SteadyTyped, control, mimic, target, button
  <2>6. ButtonTyped'
    BY <2>3, KeepsButton DEF control
  <2>7. QED
    BY <2>4, <2>5, <2>6, TypeParts
<1>5. CASE StateInfoNewFrame \/ StateInfoChameleon
  <2>1. MimicState' \in BOOLEAN /\ isMimic' \in BOOLEAN
    BY <1>5 DEF StateInfoNewFrame, StateInfoChameleon, TypeOK
  <2>2. UNCHANGED <<control, target, button, marks, tae, loaded>>
    BY <1>5 DEF StateInfoNewFrame, StateInfoChameleon
  <2>3. SteadyTyped'
    BY <2>1, <2>2 DEF TypeOK, SteadyTyped, control, target, button
  <2>4. ViewTyped' /\ ButtonTyped'
    BY <2>2, KeepsView, KeepsButton DEF control
  <2>5. QED
    BY <2>3, <2>4, TypeParts
<1>6. CASE Destructor \/ Unload
  <2>1. isCamInit' \in BOOLEAN /\ loaded' \in BOOLEAN
    BY <1>6 DEF Destructor, Unload, DeinitializeCamera, TypeOK
  <2>2. UNCHANGED <<isFPS, isFPS_prev, mimic, target, button, marks, tae>>
    BY <1>6 DEF Destructor, Unload
  <2>3. SteadyTyped'
    BY <2>1, <2>2 DEF TypeOK, SteadyTyped, mimic, target, button
  <2>4. ViewTyped' /\ ButtonTyped'
    BY <2>2, KeepsView, KeepsButton
  <2>5. QED
    BY <2>3, <2>4, TypeParts
<1>7. ASSUME NEW flag \in BOOLEAN, Load(flag)
      PROVE  TypeOK'
  <2>1. touched' \subseteq GameFields
    BY <1>7 DEF Load, TypeOK
  <2>2. loaded' \in BOOLEAN /\ eventFlag' \in BOOLEAN
        /\ UNCHANGED <<control, mimic, target, button, raised, tae>>
    BY <1>7 DEF Load
  <2>3. ViewTyped'
    BY <2>1, <2>2 DEF TypeOK, ViewTyped, control
  <2>4. SteadyTyped'
    BY <2>2 DEF TypeOK, SteadyTyped, control, mimic, target, button
  <2>5. ButtonTyped'
    BY <2>2, KeepsButton DEF control
  <2>6. QED
    BY <2>3, <2>4, <2>5, TypeParts
<1>10. CASE RegisterBullet \/ DestroyBullet
  <2>1. raised' \subseteq Flags
    BY <1>10 DEF RegisterBullet, DestroyBullet, TypeOK, Flags, ScanFlags
  <2>2. UNCHANGED <<control, mimic, target, button, eventFlag, touched, tae, loaded>>
    BY <1>10 DEF RegisterBullet, DestroyBullet
  <2>3. ViewTyped'
    BY <2>1, <2>2 DEF TypeOK, ViewTyped, control
  <2>4. SteadyTyped' /\ ButtonTyped'
    BY <2>2, KeepsSteady, KeepsButton DEF control, button
  <2>5. QED
    BY <2>3, <2>4, TypeParts
<1>8. CASE UNCHANGED vars
  <2>1. UNCHANGED <<isFPS, marks>> /\ UNCHANGED <<isFPS_prev, button>>
        /\ UNCHANGED <<isCamInit, mimic, target, sMenuTimeout, tae, loaded>>
    BY <1>8 DEF vars, control, button
  <2>2. QED
    BY <2>1, KeepsView, KeepsSteady, KeepsButton, TypeParts
<1>9. QED
  BY <1>1, <1>2, <1>3, <1>4, <1>5, <1>6, <1>7, <1>8, <1>10

LEMMA InitTyped == Init => TypeOK
<1> SUFFICES ASSUME Init PROVE TypeOK
  OBVIOUS
<1>1. 0 \in 0 .. PressCap /\ NoIns \in Targets
  BY PerspectiveAssumption DEF Targets
<1>2. ViewTyped
  BY DEF Init, ViewTyped
<1>3. SteadyTyped
  BY <1>1 DEF Init, SteadyTyped
<1>4. ButtonTyped
  BY <1>1 DEF Init, ButtonTyped
<1>5. QED
  BY <1>2, <1>3, <1>4 DEF TypeOK, ViewTyped, SteadyTyped, ButtonTyped

LEMMA StepsKeepTypes == TypeOK /\ [Next]_vars => TypeOK'
BY ControlTypes, OtherTypes DEF Next

\* Every variable keeps its type.
THEOREM TypeCorrect == Spec => []TypeOK
BY InitTyped, StepsKeepTypes, PTL DEF Spec

-----------------------------------------------------------------------------
(* The view, the saved preference and what is left over.                   *)

ViewInv == FlagAgrees /\ ThirdPersonClean

\* Both ways of writing the perspective establish it, and they are no-ops
\* while no camera is attached.
LEMMA WritesEstablishView ==
  ASSUME TypeOK
  PROVE  /\ EnterFPS => ViewInv'
         /\ Enter3PS => ViewInv'
         /\ UNCHANGED isCamInit /\ ViewInv /\ (CameraFPS \/ Camera3PS)
              => ViewInv'
<1>1. EnterFPS => ViewInv'
  BY DEF EnterFPS, ViewInv, FlagAgrees, ThirdPersonClean
<1>2. Enter3PS => ViewInv'
  <2>1. raised \ ThirdPersonFlags \subseteq ScanFlags
    BY DEF TypeOK, ThirdPersonFlags
  <2>2. QED
    BY <2>1 DEF Enter3PS, ViewInv, FlagAgrees, ThirdPersonClean
<1>3. ASSUME UNCHANGED <<isCamInit, isFPS, marks>>, ViewInv
      PROVE  ViewInv'
  BY <1>3 DEF ViewInv, FlagAgrees, ThirdPersonClean, marks
<1>4. QED
  BY <1>1, <1>2, <1>3 DEF CameraFPS, Camera3PS

\* A step that leaves the perspective alone keeps it, and so does one that
\* detaches the camera.
LEMMA QuietSteps ==
  /\ ViewInv /\ UNCHANGED <<isCamInit, isFPS, marks>> => ViewInv'
  /\ ~isCamInit' => ViewInv'
BY DEF ViewInv, FlagAgrees, ThirdPersonClean, marks

LEMMA ControlKeepsView ==
  ASSUME TypeOK, ViewInv,
         NEW dT, NEW tgt, NEW menu, NEW remo, NEW down, NEW readable,
         PerspectiveControl(dT, menu, tgt, remo, down, readable)
  PROVE  ViewInv'
<1>1. CASE TargetChanged(dT, menu, tgt)
  BY <1>1, QuietSteps DEF TargetChanged, DeinitializeCamera
<1>2. CASE InitFails(dT, menu, tgt)
  BY <1>2, QuietSteps DEF InitFails, control
<1>3. CASE PerspectiveInit(dT, menu, tgt)
  BY <1>3, WritesEstablishView DEF PerspectiveInit
<1>4. CASE MimicFrame(dT, menu, tgt, remo)
  <2>1. UNCHANGED isCamInit
    BY <1>4 DEF MimicFrame, Steady
  <2>2. Camera3PS \/ UNCHANGED <<isFPS, marks>>
    BY <1>4 DEF MimicFrame, marks
  <2>3. QED
    BY <2>1, <2>2, WritesEstablishView, QuietSteps
<1>5. CASE RestoreFrame(dT, menu, tgt, remo)
  BY <1>5, WritesEstablishView DEF RestoreFrame, Steady
<1>6. CASE \/ Unreadable(dT, menu, tgt, remo)
           \/ Release(dT, menu, tgt, remo, down)
           \/ ShortPress(dT, menu, tgt, remo)
  BY <1>6, QuietSteps
     DEF Unreadable, Release, ShortPress, Press, ButtonFrame, Steady
<1>7. CASE LongPress(dT, menu, tgt, remo)
  BY <1>7, WritesEstablishView DEF LongPress, Press, ButtonFrame, Steady
<1>8. QED
  BY <1>1, <1>2, <1>3, <1>4, <1>5, <1>6, <1>7 DEF PerspectiveControl

\* A camera is only attached while a character is loaded.
AttachedLoaded == isCamInit => loaded

LEMMA StepsKeepLoaded == AttachedLoaded /\ [Next]_vars => AttachedLoaded'
<1>1. ASSUME NEW dT, NEW tgt, NEW menu, NEW remo, NEW down, NEW readable,
             PerspectiveControl(dT, menu, tgt, remo, down, readable)
      PROVE  loaded'
  BY <1>1 DEF PerspectiveControl, TargetChanged, InitFails, PerspectiveInit,
              MimicFrame, RestoreFrame, Unreadable, Release, ShortPress,
              LongPress, Press, ButtonFrame, Steady
<1>2. ASSUME \/ CutsceneStarts \/ \E f \in HeadFrames : AttachToHead(f)
             \/ TAEGate \/ \E isAim \in BOOLEAN : CheckPlayerTAE(isAim)
             \/ StateInfoNewFrame \/ StateInfoChameleon
             \/ RegisterBullet \/ DestroyBullet
             \/ Destructor \/ Unload \/ \E flag \in BOOLEAN : Load(flag)
             \/ UNCHANGED vars
      PROVE  UNCHANGED <<isCamInit, loaded>> \/ loaded' \/ ~isCamInit'
  BY <1>2 DEF CutsceneStarts, AttachToHead, TAEGate, CheckPlayerTAE,
              StateInfoNewFrame, StateInfoChameleon, RegisterBullet,
              DestroyBullet, Destructor, Unload, Load,
              DeinitializeCamera, control, vars
<1>3. QED
  BY <1>1, <1>2 DEF Next, AttachedLoaded

LEMMA OthersKeepView ==
  ASSUME TypeOK, ViewInv, AttachedLoaded,
         \/ CutsceneStarts \/ \E f \in HeadFrames : AttachToHead(f)
         \/ TAEGate \/ \E isAim \in BOOLEAN : CheckPlayerTAE(isAim)
         \/ StateInfoNewFrame \/ StateInfoChameleon
         \/ RegisterBullet \/ DestroyBullet
         \/ Destructor \/ Unload \/ \E flag \in BOOLEAN : Load(flag)
         \/ UNCHANGED vars
  PROVE  ViewInv'
<1>1. CASE CutsceneStarts \/ Destructor \/ Unload
  BY <1>1, QuietSteps DEF CutsceneStarts, Destructor, Unload, DeinitializeCamera
\* Only first person runs AttachToHead, and third person is all that
\* ThirdPersonClean speaks of.
<1>2. ASSUME NEW f \in HeadFrames, AttachToHead(f)
      PROVE  ViewInv'
  BY <1>2 DEF AttachToHead, control, ViewInv, FlagAgrees, ThirdPersonClean
<1>3. CASE TAEGate \/ StateInfoNewFrame \/ StateInfoChameleon
  BY <1>3, QuietSteps DEF TAEGate, StateInfoNewFrame, StateInfoChameleon, control
\* The hook's gate may be long past: the second test of isFPS is what keeps
\* isFPSAim down in third person.
<1>4. ASSUME NEW isAim \in BOOLEAN, CheckPlayerTAE(isAim)
      PROVE  ViewInv'
  <2>1. CASE isFPS
    BY <1>4, <2>1 DEF CheckPlayerTAE, control, ViewInv, FlagAgrees,
                      ThirdPersonClean
  <2>2. CASE ~isFPS
    BY <1>4, <2>2, QuietSteps DEF CheckPlayerTAE, control, marks
  <2>3. QED
    BY <2>1, <2>2
\* A save is only loaded after the player's destructor has detached the camera.
<1>5. ASSUME NEW flag \in BOOLEAN, Load(flag)
      PROVE  ViewInv'
  BY <1>5, QuietSteps DEF Load, control, AttachedLoaded
<1>6. CASE UNCHANGED vars
  BY <1>6, QuietSteps DEF vars, control
\* A scan that is not over is all that bullets change.
<1>7. CASE RegisterBullet \/ DestroyBullet
  <2>1. raised' \subseteq raised \cup ScanFlags
    BY <1>7 DEF RegisterBullet, DestroyBullet, ScanFlags
  <2>2. UNCHANGED <<control, eventFlag, touched>>
    BY <1>7 DEF RegisterBullet, DestroyBullet
  <2>3. FlagAgrees'
    BY <2>2 DEF control, ViewInv, FlagAgrees
  <2>4. isCamInit' /\ ~isFPS' => raised \subseteq ScanFlags /\ touched' = {}
    BY <2>2 DEF control, ViewInv, ThirdPersonClean
  <2>5. QED
    BY <2>1, <2>3, <2>4 DEF ViewInv, ThirdPersonClean
<1>8. QED
  BY <1>1, <1>2, <1>3, <1>4, <1>5, <1>6, <1>7

-----------------------------------------------------------------------------
(* The target.                                                             *)

\* Only PerspectiveControl writes the target, and it leaves it alone as long
\* as the camera stays attached.
LEMMA StepsKeepTarget == TargetMatches /\ [Next]_vars => TargetMatches'
<1> SUFFICES ASSUME TargetMatches, [Next]_vars
             PROVE  TargetMatches'
  OBVIOUS
<1>1. ASSUME NEW dT, NEW tgt, NEW menu, NEW remo, NEW down, NEW readable,
             PerspectiveControl(dT, menu, tgt, remo, down, readable)
      PROVE  TargetMatches'
  <2>1. CASE TargetChanged(dT, menu, tgt)
    BY <2>1 DEF TargetChanged, DeinitializeCamera, TargetMatches
  <2>2. CASE InitFails(dT, menu, tgt)
    BY <2>2 DEF InitFails, control, TargetMatches
  <2>3. CASE PerspectiveInit(dT, menu, tgt)
    BY <2>3 DEF PerspectiveInit, SawTarget, TargetMatches
  <2>4. CASE Steady(dT, menu, tgt, remo)
    BY <2>4 DEF Steady, SawTarget, TargetMatches
  <2>5. QED
    BY <1>1, <2>1, <2>2, <2>3, <2>4
       DEF PerspectiveControl, MimicFrame, RestoreFrame, Unreadable, Release,
           ShortPress, LongPress, Press, ButtonFrame
<1>2. ASSUME \/ CutsceneStarts \/ \E f \in HeadFrames : AttachToHead(f)
             \/ TAEGate \/ \E isAim \in BOOLEAN : CheckPlayerTAE(isAim)
             \/ StateInfoNewFrame \/ StateInfoChameleon
             \/ RegisterBullet \/ DestroyBullet
             \/ Destructor \/ Unload \/ \E flag \in BOOLEAN : Load(flag)
             \/ UNCHANGED vars
      PROVE  UNCHANGED target /\ (UNCHANGED isCamInit \/ ~isCamInit')
  BY <1>2 DEF CutsceneStarts, AttachToHead, TAEGate, CheckPlayerTAE,
              StateInfoNewFrame, StateInfoChameleon, RegisterBullet,
              DestroyBullet, Destructor, Unload, Load,
              DeinitializeCamera, control, vars
<1>3. QED
  BY <1>1, <1>2 DEF Next, target, TargetMatches

-----------------------------------------------------------------------------
(* The button.                                                             *)

\* A press that has flipped the perspective is marked by sIsPressState, and
\* one that has toggled the lock-on mode by a positive sPressTime.
PressInv == /\ PressOnce
            /\ flips = 1 => sIsPressState
            /\ toggles = 1 => sPressTime > 0

LEMMA PressKeeps ==
  ASSUME TypeOK, PressInv, NEW dT \in FrameTimes, NEW tgt, NEW menu, NEW remo,
         Press(dT, menu, tgt, remo)
  PROVE  toggles' <= 1 /\ sPressTime' > 0
<1>1. /\ PressTime(dT) > 0 /\ sPressTime' = PressTime(dT)
      /\ sPressTime > 0 => PressTime(dT) # dT
  BY PressTimeFacts DEF Press
<1>2. toggles \in {0, 1} /\ sPressTime \in Nat
  BY PerspectiveAssumption DEF TypeOK, PressInv, PressOnce
<1>3. CASE IsToggle(dT)
  <2>1. toggles = 0
    BY <1>1, <1>2, <1>3 DEF IsToggle, PressInv
  <2>2. QED
    BY <1>1, <1>3, <2>1 DEF Press
<1>4. CASE ~IsToggle(dT)
  BY <1>1, <1>2, <1>4 DEF Press
<1>5. QED
  BY <1>3, <1>4

LEMMA StepsKeepPress == TypeOK /\ PressInv /\ [Next]_vars => PressInv'
<1> SUFFICES ASSUME TypeOK, PressInv, [Next]_vars
             PROVE  PressInv'
  OBVIOUS
<1>1. ASSUME UNCHANGED <<sPressTime, sIsPressState, flips, toggles>>
      PROVE  PressInv'
  BY <1>1 DEF PressInv, PressOnce
<1>2. ASSUME NEW dT \in FrameTimes, NEW tgt \in Targets, NEW menu \in BOOLEAN,
             NEW remo \in BOOLEAN, NEW down \in BOOLEAN,
             NEW readable \in BOOLEAN,
             PerspectiveControl(dT, menu, tgt, remo, down, readable)
      PROVE  PressInv'
  <2>1. CASE \/ TargetChanged(dT, menu, tgt)
             \/ InitFails(dT, menu, tgt)
             \/ PerspectiveInit(dT, menu, tgt)
             \/ MimicFrame(dT, menu, tgt, remo)
             \/ RestoreFrame(dT, menu, tgt, remo)
             \/ Unreadable(dT, menu, tgt, remo)
    BY <1>1, <2>1 DEF TargetChanged, InitFails, PerspectiveInit, MimicFrame,
                      RestoreFrame, Unreadable
  <2>2. CASE Release(dT, menu, tgt, remo, down)
    BY <2>2 DEF Release, PressInv, PressOnce
  <2>3. CASE ShortPress(dT, menu, tgt, remo)
    <3>1. toggles' <= 1 /\ sPressTime' > 0
      BY <2>3, PressKeeps DEF ShortPress
    <3>2. QED
      BY <2>3, <3>1 DEF ShortPress, PressInv, PressOnce
  <2>4. CASE LongPress(dT, menu, tgt, remo)
    <3>1. toggles' <= 1 /\ sPressTime' > 0
      BY <2>4, PressKeeps DEF LongPress
    <3>2. flips = 0
      BY <2>4 DEF LongPress, IsHold, PressInv, PressOnce, TypeOK
    <3>3. flips' <= 1 /\ sIsPressState'
      BY <2>4, <3>2 DEF LongPress
    <3>4. QED
      BY <3>1, <3>3 DEF PressInv, PressOnce
  <2>5. QED
    BY <1>2, <2>1, <2>2, <2>3, <2>4 DEF PerspectiveControl
<1>3. ASSUME \/ CutsceneStarts \/ \E f \in HeadFrames : AttachToHead(f)
             \/ TAEGate \/ \E isAim \in BOOLEAN : CheckPlayerTAE(isAim)
             \/ StateInfoNewFrame \/ StateInfoChameleon
             \/ RegisterBullet \/ DestroyBullet
             \/ Destructor \/ Unload \/ \E flag \in BOOLEAN : Load(flag)
             \/ UNCHANGED vars
      PROVE  UNCHANGED button
  BY <1>3 DEF CutsceneStarts, AttachToHead, TAEGate, CheckPlayerTAE,
              StateInfoNewFrame, StateInfoChameleon, RegisterBullet,
              DestroyBullet, Destructor, Unload, Load,
              vars
<1>4. QED
  BY <1>1, <1>2, <1>3 DEF Next, button

-----------------------------------------------------------------------------
(* The theorems.                                                           *)

\* The inductive invariant behind FlagAgrees and ThirdPersonClean: besides the
\* types it needs that a camera is only attached while a character is loaded,
\* since loading a save replaces the event flag.
ViewIInv == TypeOK /\ ViewInv /\ AttachedLoaded

LEMMA ViewInvariant == Spec => []ViewIInv
<1>1. Init => ViewIInv
  <2>1. Init => TypeOK
    BY InitTyped
  <2>2. QED
    BY <2>1 DEF Init, ViewIInv, ViewInv, FlagAgrees, ThirdPersonClean,
                AttachedLoaded
<1>2. ViewIInv /\ [Next]_vars => ViewIInv'
  <2> SUFFICES ASSUME ViewIInv, [Next]_vars
               PROVE  ViewIInv'
    OBVIOUS
  <2>1. TypeOK'
    BY StepsKeepTypes DEF ViewIInv
  <2>2. ViewInv'
    BY ControlKeepsView, OthersKeepView DEF ViewIInv, Next
  <2>3. AttachedLoaded'
    BY StepsKeepLoaded DEF ViewIInv
  <2>4. QED
    BY <2>1, <2>2, <2>3 DEF ViewIInv
<1>3. QED
  BY <1>1, <1>2, PTL DEF Spec

\* The saved preference is the perspective in use whenever the camera is
\* attached.
THEOREM FlagAlwaysAgrees == Spec => []FlagAgrees
<1>1. ViewIInv => FlagAgrees
  BY DEF ViewIInv, ViewInv
<1>2. QED
  BY <1>1, ViewInvariant, PTL

\* Nothing of first person is left over in third person but a scan that is not
\* over, which Camera3PS does not end.
THEOREM ThirdPersonAlwaysClean == Spec => []ThirdPersonClean
<1>1. ViewIInv => ThirdPersonClean
  BY DEF ViewIInv, ViewInv
<1>2. QED
  BY <1>1, ViewInvariant, PTL

\* An attached camera, its head bone and the character the hooks compare with
\* belong to one target.
THEOREM TargetAlwaysMatches == Spec => []TargetMatches
<1>1. Init => TargetMatches
  BY DEF Init, TargetMatches
<1>2. QED
  BY <1>1, StepsKeepTarget, PTL DEF Spec

\* A press flips the perspective and toggles the lock-on mode at most once.
THEOREM PressActsOnce == Spec => []PressOnce
<1>1. Init => PressInv
  BY DEF Init, PressInv, PressOnce
<1>2. PressInv => PressOnce
  BY DEF PressInv
<1>3. QED
  BY <1>1, <1>2, TypeCorrect, StepsKeepPress, PTL DEF Spec

-----------------------------------------------------------------------------
(* Perspective implements CameraView.                                      *)

\* The initial states map to initial states.
LEMMA ViewInit == Init => View!Init
BY DEF Init, View!Init, View!Views, view, saved, kept, owed

\* The four mapped variables only depend on four of the hooks' variables.
LEMMA ViewStutters ==
  ASSUME UNCHANGED <<isCamInit, isFPS, isFPS_prev, eventFlag>>
  PROVE  UNCHANGED View!vars
BY DEF View!vars, view, saved, kept, owed

\* Letting go of the camera and keeping isFPS is Suspend.
LEMMA LetGo ==
  ASSUME TypeOK, isCamInit, ~isCamInit',
         UNCHANGED <<isFPS, isFPS_prev, eventFlag>>
  PROVE  View!Suspend
BY DEF View!Suspend, view, saved, kept, owed, TypeOK

\* Every PerspectiveControl is a step of CameraView or changes nothing there.
LEMMA ControlMaps ==
  ASSUME TypeOK, FlagAgrees,
         NEW dT, NEW tgt, NEW menu, NEW remo, NEW down, NEW readable,
         PerspectiveControl(dT, menu, tgt, remo, down, readable)
  PROVE  [View!Next]_(View!vars)
<1>1. CASE TargetChanged(dT, menu, tgt)
  BY <1>1, LetGo DEF TargetChanged, DeinitializeCamera, marks, View!Next
<1>2. CASE InitFails(dT, menu, tgt)
  BY <1>2, ViewStutters DEF InitFails, control, marks
<1>3. CASE PerspectiveInit(dT, menu, tgt)
  <2>1. View!Resume
    <3>1. CASE WantsFPS
      BY <1>3, <3>1 DEF PerspectiveInit, EnterFPS, WantsFPS, View!Resume, view, saved,
                        kept, owed
    <3>2. CASE ~WantsFPS
      BY <1>3, <3>2 DEF PerspectiveInit, Enter3PS, WantsFPS, View!Resume, view, saved,
                        kept, owed
    <3>3. QED
      BY <3>1, <3>2
  <2>2. QED
    BY <2>1 DEF View!Next
<1>4. CASE MimicFrame(dT, menu, tgt, remo)
  <2>1. UNCHANGED isCamInit
    BY <1>4 DEF MimicFrame, Steady
  <2>2. CASE isFPS /\ ~isFPS_prev /\ isCamInit
    <3>1. Enter3PS /\ isFPS_prev' = TRUE
      BY <1>4, <2>2 DEF MimicFrame, Camera3PS
    <3>2. View!Borrow
      BY <2>1, <2>2, <3>1 DEF Enter3PS, View!Borrow, view, saved, kept, owed
    <3>3. QED
      BY <3>2 DEF View!Next
  <2>3. CASE isFPS /\ ~isFPS_prev /\ ~isCamInit
    <3>1. UNCHANGED <<isFPS, marks>> /\ isFPS_prev' = TRUE
      BY <1>4, <2>3 DEF MimicFrame, Camera3PS
    <3>2. View!Borrow
      BY <2>1, <2>3, <3>1 DEF marks, View!Borrow, view, saved, kept, owed
    <3>3. QED
      BY <3>2 DEF View!Next
  <2>4. CASE ~(isFPS /\ ~isFPS_prev)
    BY <1>4, <2>1, <2>4, ViewStutters DEF MimicFrame, marks
  <2>5. QED
    BY <2>2, <2>3, <2>4
<1>5. CASE RestoreFrame(dT, menu, tgt, remo)
  <2>1. UNCHANGED isCamInit /\ isFPS_prev /\ isFPS_prev' = FALSE
    BY <1>5 DEF RestoreFrame, Steady
  <2>2. CASE isCamInit
    <3>1. EnterFPS
      BY <1>5, <2>2 DEF RestoreFrame, CameraFPS
    <3>2. View!GiveBack
      BY <2>1, <2>2, <3>1 DEF EnterFPS, View!GiveBack, view, saved, kept, owed
    <3>3. QED
      BY <3>2 DEF View!Next
  <2>3. CASE ~isCamInit
    <3>1. UNCHANGED <<isFPS, marks>>
      BY <1>5, <2>3 DEF RestoreFrame, CameraFPS
    <3>2. View!GiveBack
      BY <2>1, <2>3, <3>1 DEF marks, View!GiveBack, view, saved, kept, owed
    <3>3. QED
      BY <3>2 DEF View!Next
  <2>4. QED
    BY <2>2, <2>3
<1>6. CASE \/ Unreadable(dT, menu, tgt, remo)
           \/ Release(dT, menu, tgt, remo, down)
           \/ ShortPress(dT, menu, tgt, remo)
  BY <1>6, ViewStutters
     DEF Unreadable, Release, ShortPress, Press, ButtonFrame, Steady, marks
<1>7. CASE LongPress(dT, menu, tgt, remo)
  <2>1. UNCHANGED <<isCamInit, isFPS_prev>> /\ ~isFPS_prev
    BY <1>7 DEF LongPress, Press, ButtonFrame, Steady
  <2>2. CASE ~isCamInit
    BY <1>7, <2>1, <2>2, ViewStutters DEF LongPress, Camera3PS, CameraFPS, marks
  <2>3. CASE isCamInit /\ isFPS
    <3>1. Enter3PS
      BY <1>7, <2>3 DEF LongPress, Camera3PS
    <3>2. View!Choose
      BY <2>1, <2>3, <3>1
         DEF Enter3PS, View!Choose, View!Views, view, saved, kept, owed
    <3>3. QED
      BY <3>2 DEF View!Next
  <2>4. CASE isCamInit /\ ~isFPS
    <3>1. EnterFPS
      BY <1>7, <2>4 DEF LongPress, CameraFPS
    <3>2. View!Choose
      BY <2>1, <2>4, <3>1
         DEF EnterFPS, View!Choose, View!Views, view, saved, kept, owed
    <3>3. QED
      BY <3>2 DEF View!Next
  <2>5. QED
    BY <2>2, <2>3, <2>4
<1>8. QED
  BY <1>1, <1>2, <1>3, <1>4, <1>5, <1>6, <1>7 DEF PerspectiveControl

\* So is every step of the other hooks and of the game.
LEMMA OthersMap ==
  ASSUME TypeOK, AttachedLoaded,
         \/ CutsceneStarts \/ \E f \in HeadFrames : AttachToHead(f)
         \/ TAEGate \/ \E isAim \in BOOLEAN : CheckPlayerTAE(isAim)
         \/ StateInfoNewFrame \/ StateInfoChameleon
         \/ RegisterBullet \/ DestroyBullet
         \/ Destructor \/ Unload \/ \E save \in BOOLEAN : Load(save)
         \/ UNCHANGED vars
  PROVE  [View!Next]_(View!vars)
<1>1. CASE CutsceneStarts
  <2>1. View!Cutscene
    BY <1>1 DEF CutsceneStarts, DeinitializeCamera, View!Cutscene, view, saved,
                kept, owed
  <2>2. QED
    BY <2>1 DEF View!Next
<1>2. CASE \/ \E f \in HeadFrames : AttachToHead(f)
           \/ TAEGate \/ \E isAim \in BOOLEAN : CheckPlayerTAE(isAim)
           \/ StateInfoNewFrame \/ StateInfoChameleon
           \/ RegisterBullet \/ DestroyBullet
           \/ UNCHANGED vars
  BY <1>2, ViewStutters DEF AttachToHead, TAEGate, CheckPlayerTAE,
     StateInfoNewFrame, StateInfoChameleon, RegisterBullet, DestroyBullet,
     control, marks, vars
<1>3. CASE Destructor
  BY <1>3, LetGo DEF Destructor, DeinitializeCamera, marks, View!Next
<1>4. CASE Unload
  <2>1. CASE isCamInit
    BY <1>4, <2>1, LetGo DEF Unload, DeinitializeCamera, marks, View!Next
  <2>2. CASE ~isCamInit
    BY <1>4, <2>2, ViewStutters DEF Unload, DeinitializeCamera, marks, TypeOK
  <2>3. QED
    BY <2>1, <2>2
<1>5. ASSUME NEW save \in BOOLEAN, Load(save)
      PROVE  View!LoadSave
  <2>1. ~isCamInit /\ UNCHANGED control /\ eventFlag' \in BOOLEAN
    BY <1>5 DEF Load, AttachedLoaded
  <2>2. QED
    BY <2>1 DEF control, View!LoadSave, View!Views, view, saved, kept, owed
<1>6. QED
  BY <1>1, <1>2, <1>3, <1>4, <1>5 DEF View!Next

\* Perspective implements CameraView.
THEOREM PerspectiveImplements == Spec => ImplementsCameraView
<1>1. ViewIInv /\ [Next]_vars => [View!Next]_(View!vars)
  <2> SUFFICES ASSUME ViewIInv, [Next]_vars
               PROVE  [View!Next]_(View!vars)
    OBVIOUS
  <2>1. TypeOK /\ FlagAgrees /\ AttachedLoaded
    BY DEF ViewIInv, ViewInv
  <2>2. QED
    BY <2>1, ControlMaps, OthersMap DEF Next
<1>2. QED
  BY <1>1, ViewInit, ViewInvariant, PTL DEF Spec, View!Spec, ImplementsCameraView

-----------------------------------------------------------------------------
(* The game at rest.                                                       *)

\* The target and the button a game rests with are such as Perspective allows.
CalmTyped == calm # Busy => calm \in Calm

LEMMA CalmStepsKeepType ==
  ASSUME CalmTyped, [CalmNext]_calmVars
  PROVE  CalmTyped'
BY DEF CalmTyped, CalmNext, ComesToRest, CalmFrame, CalmStateInfo, CalmOther,
       calmVars

LEMMA CalmStepsAreSteps ==
  ASSUME CalmTyped, [CalmNext]_calmVars
  PROVE  [Next]_vars
<1>1. CASE calm = Busy /\ Next
  BY <1>1
<1>2. CASE ComesToRest
  BY <1>2 DEF ComesToRest
<1>3. CASE CalmFrame
  <2>1. calm.tgt \in Targets /\ calm.down \in BOOLEAN
    BY <1>3 DEF CalmFrame, CalmTyped, Calm
  <2>2. PICK dT \in FrameTimes :
          PerspectiveControl(dT, FALSE, calm.tgt, TRUE, calm.down, TRUE)
    BY <1>3 DEF CalmFrame
  <2>3. Next
    BY <2>1, <2>2 DEF Next
  <2>4. QED
    BY <2>3
<1>4. CASE CalmStateInfo
  BY <1>4 DEF CalmStateInfo, Next
<1>5. CASE CalmOther
  BY <1>5 DEF CalmOther, Next
<1>6. CASE UNCHANGED calmVars
  BY <1>6 DEF calmVars
<1>7. QED
  BY <1>1, <1>2, <1>3, <1>4, <1>5, <1>6 DEF CalmNext

\* What happens at rest are calls that Perspective knows.
THEOREM CalmImplements == CalmSpec => Spec
<1>1. CalmInit => CalmTyped
  BY DEF CalmInit, CalmTyped
<1>2. CalmTyped /\ [CalmNext]_calmVars => CalmTyped'
  BY CalmStepsKeepType
<1>3. CalmTyped /\ [CalmNext]_calmVars => [Next]_vars
  BY CalmStepsAreSteps
<1>4. CalmInit => Init
  BY DEF CalmInit
<1>5. QED
  BY <1>1, <1>2, <1>3, <1>4, PTL DEF CalmSpec, Spec

\* Overrides of first person do not outlive it: if the camera is attached for
\* good in the end, then in the end either first person is in use, and
\* AttachToHead refreshes its overrides, or none of them is left, not even what
\* a cutscene, which drops first person without Camera3PS, left behind.  Only a
\* scan may go on: nothing makes the game register or destroy its bullets.
OverridesCleared ==
  calm # Busy ~> [](isFPS \/ (raised \subseteq ScanFlags /\ touched = {}))

\* The reduction: the camera stays attached by Reattaches, and third person is
\* clean while it is, since a game at rest is still a game of Perspective.
THEOREM OverridesCleared3PS == CalmSpec /\ Reattaches => OverridesCleared
<1> DEFINE Attached == calm # Busy /\ isCamInit /\ PlayerInsSpectate = calm.tgt
           Cleared  == isFPS \/ (raised \subseteq ScanFlags /\ touched = {})
<1>1. CalmSpec => []ThirdPersonClean
  BY CalmImplements, ThirdPersonAlwaysClean, PTL
<1>2. ThirdPersonClean /\ Attached => Cleared
  BY DEF ThirdPersonClean
<1>3. Reattaches => (calm # Busy ~> []Attached)
  BY DEF Reattaches
<1>4. OverridesCleared <=> (calm # Busy ~> []Cleared)
  BY DEF OverridesCleared
<1> HIDE DEF Attached, Cleared
<1>5. QED
  BY <1>1, <1>2, <1>3, <1>4, PTL
=============================================================================
