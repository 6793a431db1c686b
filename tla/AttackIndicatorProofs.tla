------------------------ MODULE AttackIndicatorProofs ------------------------
(***************************************************************************)
(* For every number of slots and enemies and every refresh time: types,    *)
(* one slot for an enemy, and a direction of its own for a slot.           *)
(***************************************************************************)
EXTENDS AttackIndicator, TLAPS

\* What DrawIndicator knows at each point.  The presenting thread only ever
\* frees slots, so what was seen free or not its enemy's stays so.
GameInv ==
  /\ game.at # "idle" => game.enemy \in Enemies
  /\ game.at = "scan" => \A i \in Slot : i < game.slot => EnemyIns[i] # game.enemy
  /\ game.at = "scan" /\ game.free # Slots => EnemyIns[game.free] = NoEnemy
  /\ game.at = "take" =>
       /\ game.free # Slots /\ EnemyIns[game.free] = NoEnemy
       /\ \A i \in Slot : EnemyIns[i] # game.enemy
  /\ game.at = "store" =>
       /\ game.slot # Slots
       /\ EnemyIns[game.slot] \in {game.enemy, NoEnemy}

\* What UpdateAll knows: nobody else ages the slot it is at.
RenderInv ==
  render.at = "age" => render.read > 0 /\ time[render.slot] > 0

IInv == TypeOK /\ GameInv /\ RenderInv /\ OneSlot /\ OwnDirection

-----------------------------------------------------------------------------
LEMMA InitIInv == Init => IInv
  BY AttackIndicatorAssumption
  DEF Init, IInv, TypeOK, GameInv, RenderInv, OneSlot, OwnDirection, Idle, Slot

LEMMA NextSlotType ==
  ASSUME TypeOK
  PROVE  /\ NextSlot \in [at : {"read"}, slot : Slot, read : 0 .. RefreshTime]
         /\ NextSlot.at = "read"
  <1>1. (render.slot + 1) % Slots \in Slot
    <2>1. render.slot \in Nat /\ Slots \in Nat \ {0}
      BY AttackIndicatorAssumption DEF TypeOK, Slot
    <2>2. \A n \in Nat, m \in Nat \ {0} : (n + 1) % m \in 0 .. m - 1
      OBVIOUS
    <2> HIDE AttackIndicatorAssumption
    <2> QED BY <2>1, <2>2 DEF Slot
  <1> QED BY <1>1 DEF NextSlot, TypeOK

LEMMA DrawIInv == ASSUME IInv, NEW e \in Enemies, Draw(e) PROVE IInv'
  <1>1. game' = [at |-> "scan", slot |-> 0, free |-> Slots, enemy |-> e]
        /\ UNCHANGED <<EnemyIns, time, xy, render>>
    BY DEF Draw, Idle
  <1>2. TypeOK'
    BY <1>1, AttackIndicatorAssumption DEF IInv, TypeOK
  <1>3. GameInv'
    BY <1>1 DEF GameInv, Slot
  <1>4. RenderInv' /\ OneSlot' /\ OwnDirection'
    BY <1>1 DEF IInv, RenderInv, OneSlot, OwnDirection, Draw
  <1> QED BY <1>2, <1>3, <1>4 DEF IInv

LEMMA ScanIInv == ASSUME IInv, Scan PROVE IInv'
  <1> DEFINE i == game.slot
  <1>1. i \in Slot /\ game.at = "scan" /\ game.enemy \in Enemies
        /\ UNCHANGED <<EnemyIns, time, xy, render>>
    BY AttackIndicatorAssumption DEF IInv, TypeOK, GameInv, Scan, Slot
  <1>2. RenderInv' /\ OneSlot'
    BY <1>1 DEF IInv, RenderInv, OneSlot
  <1>3. OwnDirection'
    BY <1>1 DEF IInv, OwnDirection
  <1>4. CASE EnemyIns[i] = game.enemy
    <2>1. game' = [game EXCEPT !.at = "store"]
      BY <1>1, <1>4, AttackIndicatorAssumption DEF Scan
    <2>2. TypeOK'
      BY <1>1, <2>1 DEF IInv, TypeOK
    <2>3. GameInv'
      BY <1>1, <1>4, <2>1, AttackIndicatorAssumption
      DEF IInv, TypeOK, GameInv, Slot
    <2> QED BY <1>2, <1>3, <2>2, <2>3 DEF IInv
  <1>5. CASE EnemyIns[i] # game.enemy
    <2>1. \/ EnemyIns[i] = NoEnemy
             /\ game' = [game EXCEPT !.free = i, !.slot = i + 1]
          \/ game' = [game EXCEPT !.slot = i + 1]
      BY <1>5 DEF Scan, AfterFree
    <2>2. i + 1 \in 0 .. Slots /\ i \in 0 .. Slots
      BY <1>1, AttackIndicatorAssumption DEF Slot
    <2>3. TypeOK'
      BY <1>1, <2>1, <2>2 DEF IInv, TypeOK
    <2>4. /\ game'.at = "scan" /\ game'.enemy = game.enemy
          /\ game'.slot = i + 1
          /\ \/ game'.free = game.free
             \/ game'.free = i /\ EnemyIns[i] = NoEnemy
      BY <1>1, <2>1 DEF IInv, TypeOK
    <2>5. \A j \in Slot : j < i + 1 => j < i \/ j = i
      BY <1>1, AttackIndicatorAssumption DEF Slot
    <2>6. \A j \in Slot : j < i + 1 => EnemyIns[j] # game.enemy
      BY <1>1, <1>5, <2>5 DEF IInv, GameInv
    <2>7. GameInv'
      BY <1>1, <2>4, <2>6 DEF IInv, GameInv
    <2> QED BY <1>2, <1>3, <2>3, <2>7 DEF IInv
  <1> QED BY <1>4, <1>5

LEMMA ScanEndsIInv == ASSUME IInv, ScanEnds PROVE IInv'
  <1>1. /\ game.at = "scan" /\ game.slot = Slots /\ game.enemy \in Enemies
        /\ UNCHANGED <<EnemyIns, time, xy, render>>
    BY DEF IInv, GameInv, ScanEnds
  <1>2. RenderInv' /\ OneSlot' /\ OwnDirection'
    BY DEF IInv, RenderInv, OneSlot, OwnDirection, ScanEnds, Idle
  <1>3. CASE game.free = Slots
    <2>1. game' = Idle
      BY <1>3 DEF ScanEnds
    <2>2. TypeOK'
      BY <1>1, <2>1, AttackIndicatorAssumption DEF IInv, TypeOK, Idle
    <2>3. GameInv'
      BY <2>1 DEF GameInv, Idle
    <2> QED BY <1>2, <2>2, <2>3 DEF IInv
  <1>4. CASE game.free # Slots
    <2>1. game' = [game EXCEPT !.at = "take"]
      BY <1>4 DEF ScanEnds
    <2>2. TypeOK'
      BY <1>1, <2>1 DEF IInv, TypeOK
    <2>3. /\ game'.at = "take" /\ game'.free = game.free
          /\ game'.enemy = game.enemy
      BY <2>1 DEF IInv, TypeOK
    <2>4. \A i \in Slot : EnemyIns[i] # game.enemy
      BY <1>1, AttackIndicatorAssumption DEF IInv, GameInv, Slot
    <2>5. EnemyIns[game.free] = NoEnemy
      BY <1>4, <1>1 DEF IInv, GameInv
    <2>6. GameInv'
      BY <1>4, <1>1, <2>3, <2>4, <2>5 DEF GameInv
    <2> QED BY <1>2, <2>2, <2>6 DEF IInv
  <1> QED BY <1>3, <1>4

LEMMA TakeIInv == ASSUME IInv, Take PROVE IInv'
  <1>1. /\ game.free \in Slot /\ EnemyIns[game.free] = NoEnemy
        /\ game.enemy \in Enemies
        /\ \A i \in Slot : EnemyIns[i] # game.enemy
    BY AttackIndicatorAssumption DEF IInv, TypeOK, GameInv, Take, Slot
  <1>2. TypeOK'
    BY <1>1, AttackIndicatorAssumption DEF IInv, TypeOK, Take, Slot
  <1>3. GameInv'
    BY <1>1, AttackIndicatorAssumption DEF IInv, TypeOK, GameInv, Take, Slot
  <1>4. RenderInv'
    BY DEF IInv, RenderInv, Take
  <1>5. OneSlot'
    BY <1>1 DEF IInv, TypeOK, OneSlot, Take
  <1>6. OwnDirection'
    BY <1>1 DEF IInv, TypeOK, OwnDirection, Take
  <1> QED BY <1>2, <1>3, <1>4, <1>5, <1>6 DEF IInv

LEMMA StoreIInv == ASSUME IInv, Store PROVE IInv'
  <1>1. /\ game.slot \in Slot /\ game.enemy \in Enemies
        /\ EnemyIns[game.slot] \in {game.enemy, NoEnemy}
    BY AttackIndicatorAssumption DEF IInv, TypeOK, GameInv, Store, Slot
  <1>2. TypeOK'
    BY <1>1, AttackIndicatorAssumption
    DEF IInv, TypeOK, Store, Direction, Idle, Slot
  <1>3. GameInv' /\ OneSlot'
    BY DEF IInv, GameInv, OneSlot, Store, Idle
  <1>4. RenderInv'
    BY <1>1, AttackIndicatorAssumption DEF IInv, TypeOK, RenderInv, Store
  <1>5. OwnDirection'
    BY <1>1 DEF IInv, TypeOK, OwnDirection, Store, Direction, Idle
  <1> QED BY <1>2, <1>3, <1>4, <1>5 DEF IInv

LEMMA ReadIInv == ASSUME IInv, Read PROVE IInv'
  <1> DEFINE i == render.slot
  <1>1. i \in Slot /\ UNCHANGED <<EnemyIns, time, xy, game>>
    BY DEF IInv, TypeOK, Read
  <1>2. \/ render' = NextSlot
        \/ time[i] > 0 /\ render' = [render EXCEPT !.at = "age", !.read = time[i]]
        \/ render' = [render EXCEPT !.at = "zero"]
    BY DEF Read, Running
  <1>3. TypeOK'
    BY <1>1, <1>2, NextSlotType DEF IInv, TypeOK
  <1>4. RenderInv'
    BY <1>1, <1>2, NextSlotType DEF IInv, TypeOK, RenderInv
  <1>5. GameInv' /\ OneSlot' /\ OwnDirection'
    BY <1>1 DEF IInv, GameInv, OneSlot, OwnDirection
  <1> QED BY <1>3, <1>4, <1>5 DEF IInv

LEMMA AgeIInv == ASSUME IInv, Age PROVE IInv'
  <1>1. render.slot \in Slot /\ render.read > 0 /\ time[render.slot] > 0
    BY DEF IInv, TypeOK, RenderInv, Age
  <1>2. TypeOK'
    BY <1>1, NextSlotType, AttackIndicatorAssumption DEF IInv, TypeOK, Age
  <1>3. GameInv' /\ OneSlot'
    BY DEF IInv, GameInv, OneSlot, Age
  <1>4. RenderInv'
    BY NextSlotType DEF IInv, RenderInv, Age
  <1>5. OwnDirection'
    BY <1>1 DEF IInv, TypeOK, OwnDirection, Age
  <1> QED BY <1>2, <1>3, <1>4, <1>5 DEF IInv

LEMMA ZeroIInv == ASSUME IInv, Zero PROVE IInv'
  <1>1. TypeOK'
    BY AttackIndicatorAssumption DEF IInv, TypeOK, Zero
  <1>2. GameInv' /\ OneSlot'
    BY DEF IInv, GameInv, OneSlot, Zero
  <1>3. RenderInv'
    BY DEF IInv, TypeOK, RenderInv, Zero
  <1>4. OwnDirection'
    BY DEF IInv, TypeOK, OwnDirection, Zero
  <1> QED BY <1>1, <1>2, <1>3, <1>4 DEF IInv

LEMMA FreeIInv == ASSUME IInv, Free PROVE IInv'
  <1>1. TypeOK'
    BY NextSlotType DEF IInv, TypeOK, Free, Freed
  <1>2. GameInv'
    BY AttackIndicatorAssumption
    DEF IInv, TypeOK, GameInv, Free, Freed, Slot
  <1>3. RenderInv'
    BY NextSlotType DEF IInv, RenderInv, Free
  <1>4. OneSlot' /\ OwnDirection'
    BY DEF IInv, TypeOK, OneSlot, OwnDirection, Free, Freed
  <1> QED BY <1>1, <1>2, <1>3, <1>4 DEF IInv

LEMMA NextIInv == IInv /\ [Next]_vars => IInv'
  <1> SUFFICES ASSUME IInv, [Next]_vars PROVE IInv'
    OBVIOUS
  <1>1. CASE \E e \in Enemies : Draw(e)
    BY <1>1, DrawIInv
  <1>2. CASE DrawIndicator
    BY <1>2, ScanIInv, ScanEndsIInv, TakeIInv, StoreIInv DEF DrawIndicator
  <1>3. CASE UpdateAll
    BY <1>3, ReadIInv, AgeIInv, ZeroIInv, FreeIInv DEF UpdateAll
  <1>4. CASE UNCHANGED vars
    BY <1>4
    DEF vars, IInv, TypeOK, GameInv, RenderInv, OneSlot, OwnDirection
  <1> QED BY <1>1, <1>2, <1>3, <1>4 DEF Next

LEMMA AlwaysIInv == Spec => []IInv
  BY InitIInv, NextIInv, PTL DEF Spec

-----------------------------------------------------------------------------
\* Every slot and both threads keep to their types: no time below zero, no slot
\* beyond the last.
THEOREM IndicatorTypes == Spec => []TypeOK
  <1>1. IInv => TypeOK
    BY DEF IInv
  <1> QED BY <1>1, AlwaysIInv, PTL

\* However the presenting thread frees slots during a search, DrawIndicator
\* never gives one enemy two slots.
THEOREM OneSlotEach == Spec => []OneSlot
  <1>1. IInv => OneSlot
    BY DEF IInv
  <1> QED BY <1>1, AlwaysIInv, PTL

\* A slot that counts down points at its own enemy, whatever store raced with
\* the freeing of the slot before.
THEOREM DirectionIsOwn == Spec => []OwnDirection
  <1>1. IInv => OwnDirection
    BY DEF IInv
  <1> QED BY <1>1, AlwaysIInv, PTL
=============================================================================
