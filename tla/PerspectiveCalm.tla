-------------------------- MODULE PerspectiveCalm --------------------------
(***************************************************************************)
(* Perspective in a game that eventually comes to rest: from some moment   *)
(* on a character stays loaded, there is no cutscene, menu or destructor,  *)
(* the target stays the same, memory can be read, no chameleon is          *)
(* reported, and the button is either held for good or not touched.        *)
(***************************************************************************)
EXTENDS Perspective

CONSTANT Busy   \* the game has not come to rest

VARIABLE calm   \* Busy, or the target and the button from now on

calmVars == <<vars, calm>>

Calm == [tgt : Targets, down : BOOLEAN]

CalmInit == Init /\ calm = Busy

ComesToRest ==
  /\ calm = Busy /\ loaded
  /\ calm' \in Calm
  /\ UNCHANGED vars

\* The game calls PerspectiveControl.
CalmFrame ==
  /\ calm # Busy
  /\ \E dT \in FrameTimes :
       PerspectiveControl(dT, FALSE, calm.tgt, TRUE, calm.down, TRUE)
  /\ UNCHANGED calm

\* A frame starts for the character the camera follows.
CalmStateInfo == calm # Busy /\ StateInfoNewFrame /\ UNCHANGED calm

CalmOther ==
  /\ calm # Busy
  /\ \/ \E f \in HeadFrames : AttachToHead(f)
     \/ TAEGate
     \/ \E isAim \in BOOLEAN : CheckPlayerTAE(isAim)
     \/ RegisterBullet \/ DestroyBullet
  /\ UNCHANGED calm

CalmNext ==
  \/ calm = Busy /\ Next /\ UNCHANGED calm
  \/ ComesToRest
  \/ CalmFrame
  \/ CalmStateInfo
  \/ CalmOther

\* Both hooks run in every frame the game draws with a character loaded.
CalmSpec ==
  /\ CalmInit /\ [][CalmNext]_calmVars
  /\ WF_calmVars(CalmFrame)
  /\ WF_calmVars(CalmStateInfo)

CalmTypeOK == TypeOK /\ calm \in Calm \cup {Busy}

-----------------------------------------------------------------------------
\* Whatever happened before, the camera ends up attached to the target and
\* stays there: no sequence of cutscenes, mimics, destructors and failed
\* reads leaves isCamInit down for good.
Reattaches ==
  calm # Busy ~> [](calm # Busy /\ isCamInit /\ PlayerInsSpectate = calm.tgt)

\* First person that was taken away for a mimic or a cutscene and is still
\* owed when the game comes to rest is given back.
GivenBack ==
  calm # Busy /\ isFPS_prev ~> isCamInit /\ isFPS /\ ~isFPS_prev

\* A button that is held is always recognised as a hold in the end: no menu
\* timeout, mimic or pending return blocks it for good.
HoldRecognised ==
  (calm # Busy /\ calm.down) ~> sIsPressState
=============================================================================
