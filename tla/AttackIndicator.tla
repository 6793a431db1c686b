--------------------------- MODULE AttackIndicator ---------------------------
(***************************************************************************)
(* The slots of the attack indicators.  The game thread calls              *)
(* DrawIndicator for an attacking enemy while the thread that presents     *)
(* frames runs UpdateAll over the same slots, without a lock.  A step is   *)
(* one access to a slot: an aligned load or store of EnemyIns, of the      *)
(* time, or of the vector YAXT, in program order.                          *)
(***************************************************************************)
EXTENDS Integers, FiniteSets

CONSTANTS
  Slots,        \* IND_TOTAL (3) slots, 0 .. Slots - 1
  Enemies,
  NoEnemy,      \* the value -1 of EnemyIns
  RefreshTime   \* refreshTime, in frames of the presenting thread

ASSUME AttackIndicatorAssumption ==
  /\ Slots \in Nat \ {0}
  /\ NoEnemy \notin Enemies
  /\ RefreshTime \in Nat \ {0}

Slot == 0 .. Slots - 1

VARIABLES
  EnemyIns,   \* whom a slot is for
  time,       \* YAXT.time
  xy,         \* the offsets of YAXT: whose direction, or NoEnemy for zeroes
  game,       \* DrawIndicator: where it is, for whom, and the free slot seen
  render      \* UpdateAll: where it is and the time it read

vars == <<EnemyIns, time, xy, game, render>>

Idle == [at |-> "idle", slot |-> 0, free |-> Slots, enemy |-> NoEnemy]

TypeOK ==
  /\ EnemyIns \in [Slot -> Enemies \cup {NoEnemy}]
  /\ time \in [Slot -> 0 .. RefreshTime]
  /\ xy \in [Slot -> Enemies \cup {NoEnemy}]
  /\ game \in [at : {"idle", "scan", "take", "store"}, slot : 0 .. Slots,
               free : 0 .. Slots, enemy : Enemies \cup {NoEnemy}]
  /\ render \in [at : {"read", "age", "zero", "free"}, slot : Slot,
                 read : 0 .. RefreshTime]

Init ==
  /\ EnemyIns = [i \in Slot |-> NoEnemy]
  /\ time = [i \in Slot |-> 0]
  /\ xy = [i \in Slot |-> NoEnemy]
  /\ game = Idle
  /\ render = [at |-> "read", slot |-> 0, read |-> 0]

-----------------------------------------------------------------------------
(* DrawIndicator, on the game thread.                                      *)

Draw(e) ==
  /\ game.at = "idle"
  /\ game' = [Idle EXCEPT !.at = "scan", !.enemy = e]
  /\ UNCHANGED <<EnemyIns, time, xy, render>>

\* MUTANT of AfterFree: the first free slot is taken at once.
AfterFreeAtOnce(i) == [game EXCEPT !.at = "take", !.free = i]

\* A free slot is remembered (the last one wins) and the search goes on.
AfterFree(i) == [game EXCEPT !.free = i, !.slot = i + 1]

Scan ==
  /\ game.at = "scan" /\ game.slot < Slots
  /\ LET i == game.slot IN
     \/ EnemyIns[i] = game.enemy /\ game' = [game EXCEPT !.at = "store"]
     \/ /\ EnemyIns[i] = NoEnemy
        /\ game' = AfterFree(i)
     \/ /\ EnemyIns[i] \notin {game.enemy, NoEnemy}
        /\ game' = [game EXCEPT !.slot = i + 1]
  /\ UNCHANGED <<EnemyIns, time, xy, render>>

\* Every slot was looked at: there is a free one, or the enemy is left out.
ScanEnds ==
  /\ game.at = "scan" /\ game.slot = Slots
  /\ game' = IF game.free = Slots THEN Idle ELSE [game EXCEPT !.at = "take"]
  /\ UNCHANGED <<EnemyIns, time, xy, render>>

Take ==
  /\ game.at = "take"
  /\ EnemyIns' = [EnemyIns EXCEPT ![game.free] = game.enemy]
  /\ game' = [game EXCEPT !.at = "store", !.slot = game.free]
  /\ UNCHANGED <<time, xy, render>>

\* MUTANT of Direction: a slot in use keeps the direction it has.
DirectionKept(i) == IF time[i] > 0 THEN xy[i] ELSE game.enemy

\* The direction stored in slot i.
Direction(i) == game.enemy

Store ==
  /\ game.at = "store"
  /\ time' = [time EXCEPT ![game.slot] = RefreshTime]
  /\ xy' = [xy EXCEPT ![game.slot] = Direction(game.slot)]
  /\ game' = Idle
  /\ UNCHANGED <<EnemyIns, render>>

-----------------------------------------------------------------------------
(* UpdateAll, on the presenting thread, slot after slot, frame after frame. *)

NextSlot == [render EXCEPT !.at = "read", !.slot = (render.slot + 1) % Slots]

\* MUTANT of Running: a slot at zero is still running.
RunningAtZero(i) == time[i] >= 0

Running(i) == time[i] > 0

Read ==
  /\ render.at = "read"
  /\ LET i == render.slot IN
     \/ EnemyIns[i] = NoEnemy /\ render' = NextSlot
     \/ /\ EnemyIns[i] # NoEnemy /\ Running(i)
        /\ render' = [render EXCEPT !.at = "age", !.read = time[i]]
     \/ /\ EnemyIns[i] # NoEnemy /\ ~Running(i)
        /\ render' = [render EXCEPT !.at = "zero"]
  /\ UNCHANGED <<EnemyIns, time, xy, game>>

\* The time read goes back less one frame, over a store made in between.
Age ==
  /\ render.at = "age"
  /\ time' = [time EXCEPT ![render.slot] = render.read - 1]
  /\ render' = NextSlot
  /\ UNCHANGED <<EnemyIns, xy, game>>

Zero ==
  /\ render.at = "zero"
  /\ time' = [time EXCEPT ![render.slot] = 0]
  /\ xy' = [xy EXCEPT ![render.slot] = NoEnemy]
  /\ render' = [render EXCEPT !.at = "free"]
  /\ UNCHANGED <<EnemyIns, game>>

\* MUTANT of Freed: the slot is not given back.
FreedNot == EnemyIns[render.slot]

\* What a slot that ran out holds afterwards.
Freed == NoEnemy

Free ==
  /\ render.at = "free"
  /\ EnemyIns' = [EnemyIns EXCEPT ![render.slot] = Freed]
  /\ render' = NextSlot
  /\ UNCHANGED <<time, xy, game>>

-----------------------------------------------------------------------------
DrawIndicator == Scan \/ ScanEnds \/ Take \/ Store
UpdateAll == Read \/ Age \/ Zero \/ Free

Next == (\E e \in Enemies : Draw(e)) \/ DrawIndicator \/ UpdateAll

\* Frames go on being presented, and a call that began returns.  Nothing says
\* that enemies go on attacking.
Fairness == WF_vars(DrawIndicator) /\ WF_vars(UpdateAll)

Spec == Init /\ [][Next]_vars /\ Fairness

-----------------------------------------------------------------------------
\* No enemy has two of the three slots, although the presenting thread frees
\* slots behind and ahead of the search of DrawIndicator.
OneSlot ==
  \A i, j \in Slot : EnemyIns[i] = EnemyIns[j] /\ EnemyIns[i] # NoEnemy => i = j

\* A slot that is counting down points at its own enemy, unless DrawIndicator
\* is between taking the slot and storing the direction: left-overs of a store
\* that raced with the freeing of the slot never reach the next enemy's count.
OwnDirection ==
  \A i \in Slot :
    EnemyIns[i] # NoEnemy /\ time[i] > 0 =>
      xy[i] = EnemyIns[i] \/ (game.at = "store" /\ game.slot = i)

\* An enemy for which DrawIndicator is no longer called loses its slot for good.
Released ==
  \A e \in Enemies :
    <>[](game.enemy # e) => <>[](\A i \in Slot : EnemyIns[i] # e)
=============================================================================
