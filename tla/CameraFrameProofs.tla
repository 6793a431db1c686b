-------------------------- MODULE CameraFrameProofs --------------------------
(***************************************************************************)
(* Safety of CameraFrame for every animation, frame duration and time.     *)
(***************************************************************************)
EXTENDS CameraFrame, TLAPS

-----------------------------------------------------------------------------
(* What CheckPlayerTAE makes of an animation.                              *)

NotBoth(flags) == ~({"isTrackHead", "isSmoothAnim"} \subseteq flags)

\* The flags of one range, with or without isCrouch.
Apart(flags) == flags \subseteq PoseFlags /\ NotBoth(flags)

LEMMA WhenSubset ==
  ASSUME NEW condition, NEW flags
  PROVE  When(condition, flags) \subseteq flags
<1>1. CASE condition
  BY <1>1, Zenon DEF When
<1>2. CASE ~condition
  BY <1>2, Zenon DEF When
<1>3. QED
  BY <1>1, <1>2, Zenon

LEMMA CrouchApart ==
  ASSUME NEW a, NEW flags, Apart(flags)
  PROVE  Apart(Crouch(a) \cup flags)
<1>1. Crouch(a) \subseteq {"isCrouch"}
  <2> DEFINE crouches == a \in 300000 .. 399999 /\ a # 390001
  <2>1. Crouch(a) = When(crouches, {"isCrouch"})
    BY SMT DEF Crouch
  <2> HIDE DEF crouches
  <2>2. When(crouches, {"isCrouch"}) \subseteq {"isCrouch"}
    BY WhenSubset, Zenon
  <2> QED BY <2>1, <2>2, Zenon
<1>2. "isCrouch" \in PoseFlags
  BY DEF PoseFlags
<1>3. QED
  BY <1>1, <1>2, SMT DEF Apart, NotBoth

LEMMA MoveApart == ASSUME NEW a PROVE Apart(Move(a))
BY DEF Apart, NotBoth, Move, When, Default, PoseFlags

\* The animations that are smoothed are not among those that follow the head.
LEMMA IndividualApart ==
  ASSUME NEW a, NEW isTrackDodge
  PROVE  Apart(Individual(a, isTrackDodge))
<1>1. Individual(a, isTrackDodge) \subseteq PoseFlags
  BY DEF Individual, When, Default, PoseFlags
<1>2. CASE a \in Idle
  <2>1. a \notin Track /\ a \notin Dragon /\ a \notin Dodge
    BY <1>2 DEF Idle, Track, Dragon, Dodge
  <2>2. "isTrackHead" \notin Individual(a, isTrackDodge)
    BY <2>1 DEF Individual, When, Default
  <2>3. QED
    BY <1>1, <2>2 DEF Apart, NotBoth
<1>3. CASE a \notin Idle
  <2>1. "isSmoothAnim" \notin Individual(a, isTrackDodge)
    BY <1>3 DEF Individual, When, Default
  <2>2. QED
    BY <1>1, <2>1 DEF Apart, NotBoth
<1>4. QED
  BY <1>2, <1>3

LEMMA RangedApart == ASSUME NEW a PROVE Apart(Ranged(a))
BY DEF Apart, NotBoth, Ranged, When, Default, PoseFlags

LEMMA ByEventsApart ==
  ASSUME NEW events, NEW isTrackDodge
  PROVE  Apart(ByEvents(events, isTrackDodge))
BY DEF Apart, NotBoth, ByEvents, When, Default, PoseFlags

LEMMA ClassifiedApart ==
  ASSUME NEW id, NEW readable, NEW events, NEW isTrackDodge
  PROVE  Apart(Classified(id, readable, events, isTrackDodge))
<1> DEFINE a == id % 1000000
<1>1. Apart(Default) /\ Apart(Default \ {"isFPSAim"})
        /\ Apart(Default \cup {"isDragon"}) /\ Apart(Default \cup {"isTrackHead"})
  BY DEF Apart, NotBoth, Default, PoseFlags
<1>2. Apart(WithinMillion(a, events, isTrackDodge))
  <2> DEFINE found == IF IsMove(a) THEN Move(a)
                      ELSE IF IsThrow(a) THEN Default \cup {"isTrackHead"}
                      ELSE IF IsIndividual(a) THEN Individual(a, isTrackDodge)
                      ELSE IF IsRanged(a) THEN Ranged(a)
                      ELSE ByEvents(events, isTrackDodge)
  <2>1. Apart(found)
    BY <1>1, MoveApart, IndividualApart, RangedApart, ByEventsApart
  <2>2. WithinMillion(a, events, isTrackDodge) = Crouch(a) \cup found
    BY DEF WithinMillion
  <2> HIDE DEF found
  <2>3. QED
    BY <2>1, <2>2, CrouchApart
<1>3. QED
  BY <1>1, <1>2 DEF Classified

-----------------------------------------------------------------------------
(* The state machine.                                                      *)

\* CrossingHidden needs to know that a position of another chunk is never
\* waiting to be measured without a report of the crossing.
FrameIInv ==
  /\ TypeOK
  /\ TrackedNotSmooth
  /\ CrossingHidden
  /\ playerPos_prev = "elsewhere" => isCrossChunk

LEMMA LessRange ==
  ASSUME NEW time \in 0 .. SyncTime, NEW dT \in FrameTimes
  PROVE  Less(time, dT) \in 0 .. SyncTime
BY CameraFrameAssumption DEF Less

LEMMA ReportKeeps ==
  ASSUME FrameIInv, NEW id \in Animations, NEW dT \in FrameTimes,
         NEW readable, NEW events, NEW isTrackDodge,
         CheckPlayerTAE(id, dT, readable, events, isTrackDodge)
  PROVE  FrameIInv'
<1>1. Apart(pose')
  BY ClassifiedApart DEF CheckPlayerTAE
<1>2. camGoalSyncTime' \in 0 .. SyncTime
  BY LessRange, CameraFrameAssumption DEF CheckPlayerTAE, FrameIInv, TypeOK
<1>3. TypeOK'
  BY <1>1, <1>2 DEF CheckPlayerTAE, FrameIInv, TypeOK, Apart, view, looking,
                    running, chunks
<1>4. QED
  BY <1>1, <1>3 DEF CheckPlayerTAE, FrameIInv, TrackedNotSmooth, Apart, NotBoth,
                    CrossingHidden, chunks

LEMMA FrameTypes ==
  ASSUME TypeOK, NEW in \in Input, AttachToHead(in)
  PROVE  TypeOK'
<1>1. in.dT \in Nat \ {0} /\ in.dT \in FrameTimes
  BY CameraFrameAssumption DEF Input
<1>2. isInteractTime' \in Nat
  BY <1>1 DEF AttachToHead, Look, InteractTime, TypeOK
<1>3. interactSyncTime' \in 0 .. SyncTime
  <2>1. SyncWanted(in) \in 0 .. SyncTime
    BY CameraFrameAssumption DEF SyncWanted, TypeOK
  <2>2. Less(interactSyncTime, in.dT) \in 0 .. SyncTime
    BY <1>1, LessRange DEF TypeOK
  <2>3. 0 \in 0 .. SyncTime
    BY CameraFrameAssumption
  <2>4. QED
    BY <2>1, <2>2, <2>3 DEF AttachToHead, Look, SyncLeft
<1>4. camGoalSyncTime' \in 0 .. SyncTime
  BY CameraFrameAssumption DEF AttachToHead, Look, GoalLeft, TypeOK
<1>5. isLockedOnLook' \in BOOLEAN
  BY DEF AttachToHead, Look, TypeOK, Running, Tracks, Runs
<1>6. runTimeout' \in Int /\ runTimeout' <= RunHold
  BY <1>1, CameraFrameAssumption
     DEF AttachToHead, Run, Timeout, IsRefused, TypeOK
<1>7. isRunStateB' \in BOOLEAN
  BY DEF AttachToHead, Run, Running, Runs, Steers, IsRefused, TypeOK, Input
<1>8. walkSmoothTimeout' \in Int /\ walkSmoothTimeout' <= WalkTime
  BY <1>1, CameraFrameAssumption
     DEF AttachToHead, WalkSmoothTimeout, IsSettling, TypeOK
<1>9. /\ isCrossChunk' \in BOOLEAN /\ isCrossChunk_s' \in BOOLEAN
      /\ playerPos_prev' \in Places /\ playerDeltaPos_prev' \in Distances
  BY DEF AttachToHead, Crossing, IsHidden, Measured, TypeOK, Places, Distances
<1>10. QED
  BY <1>2, <1>3, <1>4, <1>5, <1>6, <1>7, <1>8, <1>9
     DEF AttachToHead, TypeOK, view

LEMMA FrameKeeps ==
  ASSUME FrameIInv, NEW in \in Input, AttachToHead(in)
  PROVE  FrameIInv'
<1>1. TypeOK'
  BY FrameTypes DEF FrameIInv
<1>2. CrossingHidden' /\ playerPos_prev' # "elsewhere"
  BY DEF AttachToHead, Crossing, IsHidden, Measured, FrameIInv, CrossingHidden
<1>3. TrackedNotSmooth'
  BY DEF AttachToHead, FrameIInv, TrackedNotSmooth
<1>4. QED
  BY <1>1, <1>2, <1>3 DEF FrameIInv

LEMMA ChangesKeep ==
  ASSUME FrameIInv, Changes \/ Rests \/ UNCHANGED vars
  PROVE  FrameIInv'
<1>1. CASE ChunkCode
  BY <1>1 DEF ChunkCode, FrameIInv, TypeOK, TrackedNotSmooth, CrossingHidden,
              Places, view, tracking, looking, running
<1>2. CASE Flip
  BY <1>2 DEF Flip, CameraFPS, Camera3PS, FrameIInv, TypeOK, TrackedNotSmooth,
              CrossingHidden, Places, tracking, running
<1>3. ASSUME NEW spectate \in BOOLEAN, PerspectiveInit(spectate)
      PROVE  FrameIInv'
  BY <1>3 DEF PerspectiveInit, CameraFPS, Camera3PS, FrameIInv, TypeOK,
              TrackedNotSmooth, CrossingHidden, Places, tracking, running
<1>4. CASE DeinitializeCamera
  BY <1>4 DEF DeinitializeCamera, FrameIInv, TypeOK, TrackedNotSmooth,
              CrossingHidden, tracking, looking, running, chunks
<1>5. CASE Rests
  BY <1>5 DEF Rests, FrameIInv, TypeOK, TrackedNotSmooth, CrossingHidden,
              view, tracking, looking, running, chunks
<1>6. CASE UNCHANGED vars
  BY <1>6 DEF vars, FrameIInv, TypeOK, TrackedNotSmooth, CrossingHidden,
              view, tracking, looking, running, chunks
<1>7. QED
  BY <1>1, <1>2, <1>3, <1>4, <1>5, <1>6 DEF Changes

LEMMA FrameInvariant == Spec => []FrameIInv
<1>1. Init => FrameIInv
  <2> SUFFICES ASSUME Init PROVE FrameIInv
    OBVIOUS
  <2>1. 0 \in 0 .. SyncTime /\ 0 <= RunHold /\ 0 <= WalkTime
    BY CameraFrameAssumption
  <2>2. TypeOK
    <3>1. pose \subseteq PoseFlags
      BY DEF Init
    <3>2. /\ isCamInit \in BOOLEAN /\ isFPS \in BOOLEAN
          /\ isSpectate \in BOOLEAN /\ isRunStateB \in BOOLEAN
          /\ isLockedOnLook \in BOOLEAN /\ resting \in BOOLEAN
          /\ isCrossChunk \in BOOLEAN /\ isCrossChunk_s \in BOOLEAN
          /\ playerPos_prev \in Places /\ playerDeltaPos_prev \in Distances
      BY Zenon DEF Init, Places, Distances
    <3>3. /\ camGoalSyncTime \in 0 .. SyncTime /\ isInteractTime \in Nat
          /\ interactSyncTime \in 0 .. SyncTime
          /\ runTimeout \in Int /\ runTimeout <= RunHold
          /\ walkSmoothTimeout \in Int /\ walkSmoothTimeout <= WalkTime
      BY <2>1, SMT DEF Init
    <3>4. QED
      BY <3>1, <3>2, <3>3, Zenon DEF TypeOK
  <2>3. TrackedNotSmooth /\ CrossingHidden /\ playerPos_prev # "elsewhere"
    <3>1. pose = {} => TrackedNotSmooth
      BY DEF TrackedNotSmooth
    <3>2. QED
      BY <3>1, SMT DEF Init, CrossingHidden
  <2>4. QED
    BY <2>2, <2>3 DEF FrameIInv
<1>2. FrameIInv /\ [Next]_vars => FrameIInv'
  <2> SUFFICES ASSUME FrameIInv, [Next]_vars PROVE FrameIInv'
    OBVIOUS
  <2>1. CASE Frame \/ RestFrame
    BY <2>1, FrameKeeps DEF Frame, RestFrame
  <2>2. CASE Report \/ RestReport
    BY <2>2, ReportKeeps DEF Report, RestReport
  <2>3. QED
    BY <2>1, <2>2, ChangesKeep DEF Next
<1>3. QED
  BY <1>1, <1>2, PTL DEF Spec

\* Types, for every set of animations and every time constant.
THEOREM FrameTypeCorrect == Spec => []TypeOK
<1>1. FrameIInv => TypeOK
  BY DEF FrameIInv
<1>2. QED
  BY <1>1, FrameInvariant, PTL

\* No animation there is leads to both following the head and smoothing.
THEOREM NeverTrackedAndSmooth == Spec => []TrackedNotSmooth
<1>1. FrameIInv => TrackedNotSmooth
  BY DEF FrameIInv
<1>2. QED
  BY <1>1, FrameInvariant, PTL

\* No leap between the coordinates of two chunks is measured.
THEOREM CrossingAlwaysHidden == Spec => []CrossingHidden
<1>1. FrameIInv => CrossingHidden
  BY DEF FrameIInv
<1>2. QED
  BY <1>1, FrameInvariant, PTL

\* A negative weight of smoothing does not last.
THEOREM NegativeIsBrief == Spec => NegativeOnce
<1> DEFINE Brief == walkSmoothTimeout < 0 /\ walkSmoothTimeout' # walkSmoothTimeout
                      => walkSmoothTimeout' >= 0
<1>1. TypeOK /\ [Next]_vars => [Brief]_vars
  <2> SUFFICES ASSUME TypeOK, [Next]_vars, walkSmoothTimeout < 0,
                      walkSmoothTimeout' # walkSmoothTimeout
               PROVE  walkSmoothTimeout' >= 0
    OBVIOUS
  <2>1. PICK in \in Input : AttachToHead(in)
    BY DEF Next, Frame, RestFrame, Report, RestReport, CheckPlayerTAE, Changes,
           ChunkCode, Flip, PerspectiveInit, DeinitializeCamera, Rests, vars
  <2>2. in.dT \in Nat
    BY CameraFrameAssumption DEF Input
  <2>3. QED
    BY <2>1, <2>2, CameraFrameAssumption
       DEF AttachToHead, WalkSmoothTimeout, IsSettling, TypeOK
<1>2. QED
  BY <1>1, FrameTypeCorrect, PTL DEF Spec, NegativeOnce
=============================================================================
