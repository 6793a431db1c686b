----------------------------- MODULE CameraView -----------------------------
(***************************************************************************)
(* What perspective control promises, without buttons, timers, targets or  *)
(* the game's fields: which view the player has, which one the save        *)
(* remembers, and when first person comes back by itself.                  *)
(***************************************************************************)

VARIABLES
  view,    \* "first", "third", or "off" while no camera is attached
  saved,   \* the view the save remembers
  kept,    \* first person outlives the time the camera is off
  owed     \* first person was taken away and is to be given back

vars == <<view, saved, kept, owed>>

Views == {"first", "third"}

TypeOK ==
  /\ view \in Views \cup {"off"}
  /\ saved \in Views
  /\ kept \in BOOLEAN
  /\ owed \in BOOLEAN

Init ==
  /\ view = "off"
  /\ saved \in Views
  /\ kept = FALSE
  /\ owed = FALSE

\* The player changes the view.
Choose ==
  /\ view # "off" /\ ~owed
  /\ \E v \in Views \ {view} : view' = v /\ saved' = v
  /\ UNCHANGED <<kept, owed>>

\* First person is taken away; while the camera is off, only the debt is
\* recorded.
Borrow ==
  /\ ~owed
  /\ \/ view = "first" /\ view' = "third" /\ saved' = "third"
     \/ kept /\ UNCHANGED <<view, saved>>
  /\ owed' = TRUE
  /\ UNCHANGED kept

\* First person is given back; while the camera is off the debt is forgotten.
GiveBack ==
  /\ owed
  /\ \/ view # "off" /\ view' = "first" /\ saved' = "first"
     \/ view = "off" /\ UNCHANGED <<view, saved>>
  /\ owed' = FALSE
  /\ UNCHANGED kept

\* The camera is let go and keeps first person.
Suspend ==
  /\ view # "off"
  /\ view' = "off"
  /\ kept' = (view = "first")
  /\ UNCHANGED <<saved, owed>>

\* A cutscene takes the camera and owes first person.
Cutscene ==
  /\ view = "first"
  /\ view' = "off"
  /\ owed' = TRUE
  /\ UNCHANGED <<saved, kept>>

\* The camera is attached again: to first person if that was kept or saved.
Resume ==
  /\ view = "off"
  /\ view' = IF kept THEN "first" ELSE saved
  /\ saved' = view'
  /\ kept' = FALSE
  /\ UNCHANGED owed

\* Another save is loaded, which only happens while the camera is off.
LoadSave ==
  /\ view = "off"
  /\ saved' \in Views
  /\ UNCHANGED <<view, kept, owed>>

Next == Choose \/ Borrow \/ GiveBack \/ Suspend \/ Cutscene \/ Resume \/ LoadSave

Spec == Init /\ [][Next]_vars
=============================================================================
