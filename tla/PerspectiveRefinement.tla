----------------------- MODULE PerspectiveRefinement -----------------------
(***************************************************************************)
(* Perspective implements CameraView.                                      *)
(***************************************************************************)
EXTENDS Perspective

view == IF ~isCamInit THEN "off" ELSE IF isFPS THEN "first" ELSE "third"
saved == IF eventFlag THEN "third" ELSE "first"
kept == ~isCamInit /\ isFPS
owed == isFPS_prev

View == INSTANCE CameraView
          WITH view <- view, saved <- saved, kept <- kept, owed <- owed

\* The hooks, called in any order, give the player exactly the views
\* CameraView allows: the view changes between first and third person only by
\* choice, for a mimic, or to give first person back; attaching the camera
\* follows what was kept or saved; the save always remembers the view in use.
ImplementsCameraView == View!Spec
=============================================================================
