------------------------------ MODULE PlayerTAE ------------------------------
(***************************************************************************)
(* What CheckPlayerTAE makes of the player's animation: which of the flags *)
(* of PoseFlags it leads to.  Ranges of animations are tried one after the *)
(* other and the first that knows the animation ends the search; only an   *)
(* animation that none of them knows is judged by its events.              *)
(*                                                                         *)
(* The code keeps isTrackHead and isOverrideTrackHead apart and joins them *)
(* at the end; isFPSAim is its isAim.                                      *)
(***************************************************************************)
EXTENDS Integers

CONSTANT isTrackHit     \* the setting: hits move the head

ASSUME TrackHitAssumption == isTrackHit \in BOOLEAN

PoseFlags == {"isTrackHead", "isLockLook", "isSyncRot", "isSmoothAnim",
              "isObjAct", "isFPSAim", "isBinocs", "isDragon", "isCrouch"}

\* The events of an animation that count, those met before the first entry
\* that cannot be read.
Events == {"override", "dodge"}

Default == {"isFPSAim"}

When(condition, flags) == IF condition THEN flags ELSE {}

\* Ranges of 500 of the full number.
NoAim500 ==
  {68065, 814090, 814290, 830090, 844090, 854090, 884090, 884290, 902090,
   962090, 974090, 974290, 980090, 1048090, 1048290, 1436080, 1420080,
   1638080, 1662061, 1662065, 1662080}

Dragon500 == {900090, 908090, 934090, 910090, 1046090, 1046290}

\* Walking and the like, by the number within its million.
IsMove(a) == a \in 20000 .. 23999 \/ a \in 120000 .. 120999
               \/ a \in 320000 .. 320999

Move(a) == Default \cup {"isSmoothAnim"}
             \cup When(a \in 22100 .. 22299, {"isSyncRot"})

\* Interactions and throws.
IsThrow(a) == a \in 68000 .. 79999

\* Animations known one by one.
Idle   == {0, 300000}
Plain  == {5000, 5001, 5002, 19022, 19120, 36210, 36215, 38900, 38910, 38920,
           39000, 39010, 39020, 39040, 50070, 50110, 50111, 50500, 50210}
Binocs == {50090, 50091, 50092}
NoAim  == {50080, 50100, 50170}
Track  == {50180, 50190, 50191, 50520}
ObjAct == {90006}
Dragon == {90300, 90301, 90302}
Dodge  == {19320}

IsIndividual(a) ==
  a \in UNION {Idle, Plain, Binocs, NoAim, Track, ObjAct, Dragon, Dodge}

Individual(a, isTrackDodge) ==
  (Default \ When(a \in NoAim, {"isFPSAim"}))
    \cup When(a \in Idle, {"isSmoothAnim", "isSyncRot"})
    \cup When(a \in Binocs, {"isBinocs"})
    \cup When(a \in ObjAct, {"isLockLook", "isObjAct"})
    \cup When(a \in Dragon, {"isDragon", "isLockLook"})
    \cup When(a \in Track \cup Dragon \/ (a \in Dodge /\ isTrackDodge),
              {"isTrackHead"})

\* Ranges of 50, then of 500, of the number within its million.
Plain50 == (100 .. 105) \cup {2441}
Track50 == {1000, 1001, 1004, 1005, 1006, 1011, 1012}
Hit500   == {10, 11}
Plain500 == {20, 22, 26, 56, 57, 58}
Sync500  == {404}

Ranged(a) ==
  IF a \div 50 \in Plain50 \cup Track50
  THEN Default \cup When(a \div 50 \in Track50, {"isTrackHead"})
  ELSE Default
         \cup When(a \div 500 \in Hit500 /\ isTrackHit, {"isTrackHead"})
         \cup When(a \div 500 \in Sync500 /\ a \notin {202100, 202125, 202126},
                   {"isSyncRot"})

IsRanged(a) == \/ a \div 50 \in Plain50 \cup Track50
               \/ a \div 500 \in Hit500 \cup Plain500 \cup Sync500

ByEvents(events, isTrackDodge) ==
  Default
    \cup When("override" \in events, {"isTrackHead"})
    \cup When("dodge" \in events /\ isTrackDodge, {"isTrackHead", "isLockLook"})

Crouch(a) == When(a \in 300000 .. 399999 /\ a # 390001, {"isCrouch"})

\* MUTANT of WithinMillion: walking does not end the search.
WithinMillionOn(a, events, isTrackDodge) ==
  Crouch(a) \cup When(IsMove(a), Move(a)) \cup ByEvents(events, isTrackDodge)

WithinMillion(a, events, isTrackDodge) ==
  Crouch(a) \cup
    (IF IsMove(a) THEN Move(a)
     ELSE IF IsThrow(a) THEN Default \cup {"isTrackHead"}
     ELSE IF IsIndividual(a) THEN Individual(a, isTrackDodge)
     ELSE IF IsRanged(a) THEN Ranged(a)
     ELSE ByEvents(events, isTrackDodge))

\* The flags for an animation; the defaults if its header cannot be read.
Classified(id, readable, events, isTrackDodge) ==
  IF ~readable THEN Default
  ELSE IF id \div 500 \in NoAim500 THEN Default \ {"isFPSAim"}
  ELSE IF id \div 500 \in Dragon500 THEN Default \cup {"isDragon"}
  ELSE WithinMillion(id % 1000000, events, isTrackDodge)
=============================================================================
